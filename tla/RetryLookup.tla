----------------------------- MODULE RetryLookup -----------------------------
(***************************************************************************)
(* N8NClient.find_retry_execution (app/services/n8n_client.py): after a    *)
(* crash the executions of the workflow are searched for a retry of the    *)
(* failed one, page by page, newest first, and at most MaxPages pages.     *)
(*                                                                         *)
(* n8n is external: a cursor names the oldest execution of the page it     *)
(* came with, so executions that start while pages are read shift nothing. *)
(* A broken answer may carry any cursor.                                   *)
(***************************************************************************)
EXTENDS Naturals, Sequences

CONSTANTS
  Callers,    \* calls that may look
  Ids,        \* ids of executions that are retries
  PageSize,   \* limit of one request
  MaxPages,   \* max_pages
  MaxListed   \* bound: other executions start only below this length

VARIABLES
  listing,   \* the executions of the workflow, oldest first
  scan       \* where each call is in the pages

lookupVars == <<listing, scan>>

Other == "other"   \* an execution that is no retry

NoCursor == 0

FirstPage == [cursor |-> NoCursor, seen |-> {}, pages |-> 0]

LookupTypeOK ==
  /\ listing \in Seq(Ids \cup {Other})
  /\ scan \in [Callers -> [cursor : 0 .. Len(listing),
                           seen : SUBSET (1 .. Len(listing)),
                           pages : 0 .. MaxPages - 1]]

(* The failed execution itself is there from the start.                     *)
LookupInit ==
  /\ listing = <<Other>>
  /\ scan = [a \in Callers |-> FirstPage]

(* The newest execution of the page that a asks for, and the page.          *)
Top(a) == IF scan[a].cursor = NoCursor THEN Len(listing) ELSE scan[a].cursor - 1

Page(a) == {i \in 1 .. Top(a) : i + PageSize > Top(a)}

(* The cursor n8n sends with it.                                            *)
NextCursor(a) == IF Top(a) > PageSize THEN Top(a) - PageSize + 1 ELSE NoCursor

(* Mutant: the newest execution is taken for the retry.                     *)
AnyHits(a, wanted) == Page(a)

Hits(a, wanted) == {i \in Page(a) : listing[i] \in wanted}

(* The first match, as the page is ordered.                                 *)
Match(a, wanted) == listing[CHOOSE i \in Hits(a, wanted) :
                              \A j \in Hits(a, wanted) : j <= i]

(* Mutant: the page after the last one is read, too.                        *)
OnePageMore(a, next) ==
  /\ next # NoCursor
  /\ next \notin scan[a].seen
  /\ scan[a].pages < MaxPages

(* Another page is read: there is a cursor, it is new, and pages are left.  *)
GoesOn(a, next) ==
  /\ next # NoCursor
  /\ next \notin scan[a].seen
  /\ scan[a].pages + 1 < MaxPages

(* Mutant: the cursor is not sent, and the first page is read again.        *)
RereadFirstPage(a, next) ==
  scan' = [scan EXCEPT ![a].seen = @ \cup {next}, ![a].pages = @ + 1]

Turn(a, next) ==
  scan' = [scan EXCEPT ![a] = [cursor |-> next, seen |-> @.seen \cup {next},
                               pages |-> @.pages + 1]]

(* An execution of the workflow starts that is not a retry.                 *)
OtherStarts ==
  /\ Len(listing) < MaxListed
  /\ listing' = Append(listing, Other)
  /\ UNCHANGED scan
=============================================================================
