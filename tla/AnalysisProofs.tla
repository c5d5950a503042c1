--------------------------- MODULE AnalysisProofs ---------------------------
(***************************************************************************)
(* For all executions, failures, answers of the provider, workflows and    *)
(* limits: the planner proposes exactly what the rules call safe, advice   *)
(* is the only object of the answer it stands in, a failure is told from   *)
(* the run that failed last; and for names of any length and characters, a *)
(* patch of the planner is valid, reaches the node of the failed name and  *)
(* changes nothing but its retry settings.                                 *)
(***************************************************************************)
EXTENDS Analysis, SequenceTheorems, FiniteSetTheorems, TLAPS

LEMMA LeastExists ==
  ASSUME NEW S, S \subseteq Nat, S # {}
  PROVE  \E i \in S : \A j \in S : i <= j
<1> DEFINE R == OpToRel(<, Nat)
<1>1. IsWellFoundedOn(R, Nat)
  BY NatLessThanWellFounded
<1> HIDE DEF R
<1>2. PICK i \in S : \A j \in S : <<j, i>> \notin R
  BY <1>1, WFMin
<1>3. \A j \in S : ~(j < i)
  BY <1>2 DEF R, OpToRel
<1> QED
  BY <1>2, <1>3

(* Induction, told of a set.                                                *)
LEMMA SetInduction ==
  ASSUME NEW S, 0 \in S, \A n \in Nat : n \in S => n + 1 \in S
  PROVE  Nat \subseteq S
<1> SUFFICES ASSUME Nat \ S # {}
             PROVE  FALSE
  OBVIOUS
<1>1. PICK i \in Nat \ S : \A j \in Nat \ S : i <= j
  BY LeastExists
<1>2. i # 0 /\ i - 1 \in Nat
  BY <1>1
<1>3. i - 1 \in S
  BY <1>1, <1>2
<1> QED
  BY <1>1, <1>2, <1>3

LEMMA MinIsLeast ==
  ASSUME NEW S, S \subseteq Nat, S # {}
  PROVE  Min(S) \in S /\ \A j \in S : Min(S) <= j
  BY LeastExists DEF Min

-----------------------------------------------------------------------------
(* FlattenSeq, by the pieces it joins.                                      *)

Joins(pieces, n, f) ==
  f = [i \in 1 .. n |-> IF i = 1 THEN pieces[i] ELSE f[i - 1] \o pieces[i]]

LEMMA JoinExists ==
  ASSUME NEW pieces, NEW n \in Nat
  PROVE  \E f : Joins(pieces, n, f)
<1> DEFINE S == {m \in Nat : \E f : Joins(pieces, m, f)}
<1>1. 0 \in S
  <2> DEFINE f == [i \in 1 .. 0 |-> pieces[i]]
  <2>1. Joins(pieces, 0, f)
    BY DEF Joins
  <2> QED
    BY <2>1
<1>2. ASSUME NEW m \in Nat, m \in S
      PROVE  m + 1 \in S
  <2>1. PICK f : Joins(pieces, m, f)
    BY <1>2
  <2> DEFINE last == IF m = 0 THEN pieces[1] ELSE f[m] \o pieces[m + 1]
             g == [i \in 1 .. m + 1 |-> IF i <= m THEN f[i] ELSE last]
  <2>2. \A i \in 1 .. m + 1 : g[i] = IF i = 1 THEN pieces[i] ELSE g[i - 1] \o pieces[i]
    <3>1. \A i \in 1 .. m : g[i] = f[i]
      OBVIOUS
    <3>2. g[m + 1] = last
      OBVIOUS
    <3>3. \A i \in 1 .. m : f[i] = IF i = 1 THEN pieces[i] ELSE f[i - 1] \o pieces[i]
      BY <2>1 DEF Joins
    <3> HIDE DEF g
    <3> QED
      BY <3>1, <3>2, <3>3
  <2>3. Joins(pieces, m + 1, g)
    BY <2>2 DEF Joins
  <2> QED
    BY <2>3
<1> HIDE DEF S
<1>3. n \in S
  BY <1>1, <1>2, SetInduction
<1> QED
  BY <1>3 DEF S

LEMMA FlattenIsJoin ==
  ASSUME NEW pieces, Len(pieces) \in Nat \ {0}
  PROVE  \E f : Joins(pieces, Len(pieces), f) /\ FlattenSeq(pieces) = f[Len(pieces)]
<1> DEFINE n == Len(pieces)
           F == CHOOSE f : f = [i \in 1 .. n |->
                             IF i = 1 THEN pieces[i] ELSE f[i - 1] \o pieces[i]]
<1>1. \E f : f = [i \in 1 .. n |-> IF i = 1 THEN pieces[i] ELSE f[i - 1] \o pieces[i]]
  BY JoinExists DEF Joins
<1>2. F = [i \in 1 .. n |-> IF i = 1 THEN pieces[i] ELSE F[i - 1] \o pieces[i]]
  BY <1>1, Zenon
<1>3. FlattenSeq(pieces) = F[n]
  BY Zenon DEF FlattenSeq
<1> QED
  BY <1>2, <1>3 DEF Joins

LEMMA JoinStep ==
  ASSUME NEW pieces, NEW n \in Nat, NEW f, Joins(pieces, n, f),
         NEW k \in Nat, k + 1 \in 1 .. n
  PROVE  f[k + 1] = IF k = 0 THEN pieces[k + 1] ELSE f[k] \o pieces[k + 1]
<1>1. \A i \in 1 .. n : f[i] = IF i = 1 THEN pieces[i] ELSE f[i - 1] \o pieces[i]
  BY DEF Joins
<1>2. (k + 1) - 1 = k /\ (k + 1 = 1 <=> k = 0)
  OBVIOUS
<1> QED
  BY <1>1, <1>2

LEMMA JoinFits ==
  ASSUME NEW S, NEW pieces, NEW n \in Nat, \A i \in 1 .. n : pieces[i] \in Seq(S),
         NEW f, Joins(pieces, n, f)
  PROVE  \A i \in 1 .. n : f[i] \in Seq(S)
<1> DEFINE T == {m \in Nat : m \in 1 .. n => f[m] \in Seq(S)}
<1>1. 0 \in T
  OBVIOUS
<1>2. ASSUME NEW m \in Nat, m \in T
      PROVE  m + 1 \in T
  <2> SUFFICES ASSUME m + 1 \in 1 .. n
               PROVE  f[m + 1] \in Seq(S)
    OBVIOUS
  <2>1. f[m + 1] = IF m = 0 THEN pieces[m + 1] ELSE f[m] \o pieces[m + 1]
    BY JoinStep
  <2>2. pieces[m + 1] \in Seq(S)
    OBVIOUS
  <2>3. CASE m = 0
    BY <2>1, <2>2, <2>3
  <2>4. CASE m # 0
    <3>1. f[m] \in Seq(S)
      BY <1>2, <2>4
    <3> QED
      BY <2>1, <2>2, <2>4, <3>1, ConcatProperties
  <2> QED
    BY <2>3, <2>4
<1> HIDE DEF T
<1>3. Nat \subseteq T
  BY <1>1, <1>2, SetInduction
<1> QED
  BY <1>3 DEF T

SameUpTo(n, f, g) == \A i \in 1 .. n : f[i] = g[i]

LEMMA JoinOfPrefix ==
  ASSUME NEW pieces, NEW more, NEW n \in Nat, NEW m \in Nat, n <= m,
         SameUpTo(n, more, pieces),
         NEW f, Joins(pieces, n, f), NEW g, Joins(more, m, g)
  PROVE  SameUpTo(n, g, f)
<1> DEFINE T == {k \in Nat : k \in 1 .. n => g[k] = f[k]}
<1>1. 0 \in T
  OBVIOUS
<1>2. ASSUME NEW k \in Nat, k \in T
      PROVE  k + 1 \in T
  <2> SUFFICES ASSUME k + 1 \in 1 .. n
               PROVE  g[k + 1] = f[k + 1]
    OBVIOUS
  <2>1. f[k + 1] = IF k = 0 THEN pieces[k + 1] ELSE f[k] \o pieces[k + 1]
    BY JoinStep
  <2>2. g[k + 1] = IF k = 0 THEN more[k + 1] ELSE g[k] \o more[k + 1]
    <3>1. k + 1 \in 1 .. m
      OBVIOUS
    <3> QED
      BY <3>1, JoinStep
  <2> QED
    BY <1>2, <2>1, <2>2 DEF SameUpTo
<1> HIDE DEF T
<1>3. Nat \subseteq T
  BY <1>1, <1>2, SetInduction
<1> QED
  BY <1>3 DEF T, SameUpTo

LEMMA FlattenNothing == FlattenSeq(<<>>) = <<>>
  BY DEF FlattenSeq

LEMMA FlattenAppend ==
  ASSUME NEW S, NEW pieces \in Seq(Seq(S)), NEW piece \in Seq(S)
  PROVE  /\ FlattenSeq(pieces) \in Seq(S)
         /\ FlattenSeq(Append(pieces, piece)) = FlattenSeq(pieces) \o piece
<1> DEFINE n == Len(pieces)
           more == Append(pieces, piece)
<1>1. /\ n \in Nat /\ Len(more) = n + 1
      /\ \A i \in 1 .. n : more[i] = pieces[i] /\ pieces[i] \in Seq(S)
      /\ more[n + 1] = piece
  OBVIOUS
<1> HIDE DEF more
<1>2. PICK g : Joins(more, n + 1, g) /\ FlattenSeq(more) = g[n + 1]
  <2>1. Len(more) \in Nat \ {0}
    BY <1>1
  <2> QED
    BY <1>1, <2>1, FlattenIsJoin
<1>3. g[n + 1] = IF n = 0 THEN more[n + 1] ELSE g[n] \o more[n + 1]
  <2>1. n + 1 \in Nat /\ n + 1 \in 1 .. n + 1
    BY <1>1
  <2> QED
    BY <1>1, <1>2, <2>1, JoinStep
<1>4. CASE n = 0
  <2>1. FlattenSeq(pieces) = <<>>
    BY <1>4, FlattenNothing
  <2>2. FlattenSeq(more) = piece
    BY <1>1, <1>2, <1>3, <1>4
  <2> QED
    BY <2>1, <2>2, ConcatEmptySeq DEF more
<1>5. CASE n # 0
  <2>1. PICK f : Joins(pieces, n, f) /\ FlattenSeq(pieces) = f[n]
    BY <1>1, <1>5, FlattenIsJoin
  <2>2. g[n] = f[n]
    <3>1. SameUpTo(n, g, f)
      <4>1. n + 1 \in Nat /\ n <= n + 1
        BY <1>1
      <4>2. Joins(pieces, n, f) /\ Joins(more, n + 1, g) /\ n \in Nat
        BY <1>1, <1>2, <2>1
      <4>3. SameUpTo(n, more, pieces)
        BY <1>1 DEF SameUpTo
      <4> HIDE DEF n
      <4> QED
        BY <4>1, <4>2, <4>3, JoinOfPrefix
    <3> QED
      BY <1>1, <1>5, <3>1 DEF SameUpTo
  <2>3. f[n] \in Seq(S)
    <3>1. \A i \in 1 .. n : f[i] \in Seq(S)
      BY <1>1, <2>1, JoinFits
    <3> QED
      BY <1>1, <1>5, <3>1
  <2> QED
    BY <1>1, <1>2, <1>3, <1>5, <2>1, <2>2, <2>3 DEF more
<1> QED
  BY <1>4, <1>5

-----------------------------------------------------------------------------
(* str.replace and the escaping, character by character.                    *)

Replaced(c, char, by) == IF c = char THEN by ELSE <<c>>

LEMMA ReplaceNothing ==
  ASSUME NEW char, NEW by
  PROVE  Replace(<<>>, char, by) = <<>>
<1>1. [i \in DOMAIN <<>> |-> IF <<>>[i] = char THEN by ELSE <<(<<>>[i])>>] = <<>>
  OBVIOUS
<1> QED
  BY <1>1, FlattenNothing, Zenon DEF Replace

LEMMA ReplaceAppend ==
  ASSUME NEW S, NEW text \in Seq(S), NEW c \in S, NEW char, NEW by \in Seq(S)
  PROVE  /\ Replace(text, char, by) \in Seq(S)
         /\ Replace(Append(text, c), char, by)
              = Replace(text, char, by) \o Replaced(c, char, by)
<1> DEFINE Pieces(s) == [i \in DOMAIN s |-> IF s[i] = char THEN by ELSE <<s[i]>>]
<1>1. Pieces(text) \in Seq(Seq(S))
  <2>1. \A i \in 1 .. Len(text) : Pieces(text)[i] \in Seq(S)
    OBVIOUS
  <2>2. DOMAIN Pieces(text) = 1 .. Len(text) /\ Len(text) \in Nat
    OBVIOUS
  <2>3. Pieces(text) = [i \in 1 .. Len(text) |-> Pieces(text)[i]]
    OBVIOUS
  <2> HIDE DEF Pieces
  <2>4. [i \in 1 .. Len(text) |-> Pieces(text)[i]] \in Seq(Seq(S))
    BY <2>1, <2>2
  <2> QED
    BY <2>3, <2>4
<1>2. Replaced(c, char, by) \in Seq(S)
  BY DEF Replaced
<1>3. Pieces(Append(text, c)) = Append(Pieces(text), Replaced(c, char, by))
  BY DEF Replaced
<1>4. \A s : Replace(s, char, by) = FlattenSeq(Pieces(s))
  BY Zenon DEF Replace
<1> HIDE DEF Pieces
<1>5. /\ FlattenSeq(Pieces(text)) \in Seq(S)
      /\ FlattenSeq(Append(Pieces(text), Replaced(c, char, by)))
           = FlattenSeq(Pieces(text)) \o Replaced(c, char, by)
  BY <1>1, <1>2, FlattenAppend
<1> QED
  BY <1>3, <1>4, <1>5

Escapes == {"~", "/", "0", "1"}

Code(c) == IF c = "~" THEN <<"~", "0">> ELSE IF c = "/" THEN <<"~", "1">> ELSE <<c>>

LEMMA EscapeNothing == EscapePathSegment(<<>>) = <<>>
  BY ReplaceNothing DEF EscapePathSegment

LEMMA AppendTwo ==
  ASSUME NEW S, NEW s \in Seq(S), NEW c \in S, NEW d \in S
  PROVE  /\ Append(s, c) = s \o <<c>>
         /\ Append(Append(s, c), d) = s \o <<c, d>>
         /\ (s \o <<c>>) \o <<d>> = s \o <<c, d>>
<1>0. <<c>> \in Seq(S) /\ <<d>> \in Seq(S) /\ <<c, d>> \in Seq(S)
  OBVIOUS
<1>1. <<c>> \o <<d>> = <<c, d>>
  <2>1. PICK t, u : t = <<c>> \o <<d>> /\ u = <<c, d>>
    OBVIOUS
  <2>2. t \in Seq(S) /\ Len(t) = 2 /\ t[1] = c /\ t[2] = d
    BY <1>0, <2>1, ConcatProperties
  <2>3. u \in Seq(S) /\ Len(u) = 2 /\ u[1] = c /\ u[2] = d
    BY <1>0, <2>1
  <2>4. \A i \in 1 .. Len(t) : t[i] = u[i]
    BY <2>2, <2>3
  <2> QED
    BY <2>1, <2>2, <2>3, <2>4, SeqEqual
<1>2. Append(s, c) = s \o <<c>> /\ s \o <<c>> \in Seq(S)
  BY AppendIsConcat
<1>3. Append(Append(s, c), d) = (s \o <<c>>) \o <<d>>
  BY <1>2, AppendIsConcat
<1>4. (s \o <<c>>) \o <<d>> = s \o (<<c>> \o <<d>>)
  BY <1>0, ConcatAssociative
<1> QED
  BY <1>1, <1>2, <1>3, <1>4

LEMMA ReplaceEscape ==
  ASSUME NEW S, Escapes \subseteq S, NEW s \in Seq(S), NEW d \in S, NEW char,
         NEW by \in {<<"~", "0">>, <<"~", "1">>}
  PROVE  /\ Replace(s, char, by) \in Seq(S)
         /\ Replace(Append(s, d), char, by) = Replace(s, char, by) \o Replaced(d, char, by)
<1>1. by \in Seq(S)
  <2>1. <<"~", "0">> \in Seq(S) /\ <<"~", "1">> \in Seq(S)
    BY DEF Escapes
  <2> QED
    BY <2>1
<1>2. Replace(s, char, by) \in Seq(S)
  BY <1>1, ReplaceAppend
<1>3. Replace(Append(s, d), char, by) = Replace(s, char, by) \o Replaced(d, char, by)
  BY <1>1, ReplaceAppend
<1> QED
  BY <1>2, <1>3

LEMMA EscapeAppend ==
  ASSUME NEW S, Escapes \subseteq S, NEW name \in Seq(S), NEW c \in S
  PROVE  /\ EscapePathSegment(name) \in Seq(S)
         /\ EscapePathSegment(Append(name, c)) = EscapePathSegment(name) \o Code(c)
<1> DEFINE Tilde(s) == Replace(s, "~", <<"~", "0">>)
           Slash(s) == Replace(s, "/", <<"~", "1">>)
<1>1. /\ "~" \in S /\ "0" \in S /\ "1" \in S
      /\ <<"~", "0">> \in Seq(S) /\ <<"~", "1">> \in Seq(S)
  BY DEF Escapes
<1> HIDE DEF Tilde, Slash
<1>2. ASSUME NEW s \in Seq(S), NEW d \in S
      PROVE  /\ Tilde(s) \in Seq(S)
             /\ Tilde(Append(s, d)) = Tilde(s) \o Replaced(d, "~", <<"~", "0">>)
  BY ReplaceEscape DEF Tilde
<1>3. ASSUME NEW s \in Seq(S), NEW d \in S
      PROVE  /\ Slash(s) \in Seq(S)
             /\ Slash(Append(s, d)) = Slash(s) \o Replaced(d, "/", <<"~", "1">>)
  BY ReplaceEscape DEF Slash
<1>4. \A s : EscapePathSegment(s) = Slash(Tilde(s))
  BY DEF EscapePathSegment, Tilde, Slash
<1>5. Tilde(name) \in Seq(S) /\ Slash(Tilde(name)) \in Seq(S)
  BY <1>2, <1>3
<1>6. CASE c = "~"
  <2>1. Tilde(Append(name, c)) = Append(Append(Tilde(name), "~"), "0")
    <3>1. Tilde(Append(name, c)) = Tilde(name) \o <<"~", "0">>
      BY <1>2, <1>6 DEF Replaced
    <3>2. Append(Append(Tilde(name), "~"), "0") = Tilde(name) \o <<"~", "0">>
      BY <1>1, <1>5, AppendTwo
    <3> QED
      BY <3>1, <3>2
  <2>2. Append(Tilde(name), "~") \in Seq(S)
    BY <1>1, <1>5
  <2>3. /\ Slash(Append(Tilde(name), "~")) = Slash(Tilde(name)) \o <<"~">>
        /\ Slash(Append(Append(Tilde(name), "~"), "0"))
             = Slash(Append(Tilde(name), "~")) \o <<"0">>
    BY <1>1, <1>3, <1>5, <2>2 DEF Replaced
  <2> QED
    BY <1>1, <1>4, <1>5, <1>6, <2>1, <2>3, AppendTwo DEF Code
<1>7. CASE c # "~"
  <2>1. Tilde(Append(name, c)) = Append(Tilde(name), c)
    <3>1. Tilde(Append(name, c)) = Tilde(name) \o <<c>>
      BY <1>2, <1>7 DEF Replaced
    <3> QED
      BY <1>5, <3>1, AppendIsConcat
  <2>2. Slash(Append(Tilde(name), c))
          = Slash(Tilde(name)) \o Replaced(c, "/", <<"~", "1">>)
    BY <1>3, <1>5
  <2> QED
    BY <1>4, <1>5, <1>7, <2>1, <2>2 DEF Code, Replaced
<1> QED
  BY <1>6, <1>7, <1>4, <1>5

-----------------------------------------------------------------------------
(* _unescape_segment: the scan is the only one that fits a segment.         *)

ScanOf(segment, f, i) ==
  IF i > Len(segment) THEN <<>>
  ELSE IF segment[i] = "~"
       THEN <<IF segment[i + 1] = "0" THEN "~" ELSE "/">> \o f[i + 2]
       ELSE <<segment[i]>> \o f[i + 1]

Scans(segment, f) ==
  f = [i \in 1 .. (Len(segment) + 1) |->
         IF i > Len(segment) THEN <<>>
         ELSE IF segment[i] = "~"
              THEN <<IF segment[i + 1] = "0" THEN "~" ELSE "/">> \o f[i + 2]
              ELSE <<segment[i]>> \o f[i + 1]]

LEMMA ScanStep ==
  ASSUME NEW segment, Len(segment) \in Nat, NEW f, Scans(segment, f)
  PROVE  /\ f[Len(segment) + 1] = <<>>
         /\ \A i \in 1 .. Len(segment) :
              /\ segment[i] # "~" => f[i] = <<segment[i]>> \o f[i + 1]
              /\ segment[i] = "~" =>
                   f[i] = <<IF segment[i + 1] = "0" THEN "~" ELSE "/">> \o f[i + 2]
<1> DEFINE n == Len(segment)
<1>1. \A i \in 1 .. (n + 1) : f[i] = ScanOf(segment, f, i)
  BY DEF Scans, ScanOf
<1>2. n + 1 \in 1 .. (n + 1) /\ ScanOf(segment, f, n + 1) = <<>>
  BY DEF ScanOf
<1>3. ASSUME NEW i \in 1 .. n
      PROVE  /\ i \in 1 .. (n + 1) /\ ~(i > n)
             /\ segment[i] # "~" => ScanOf(segment, f, i) = <<segment[i]>> \o f[i + 1]
             /\ segment[i] = "~" =>
                  ScanOf(segment, f, i)
                    = <<IF segment[i + 1] = "0" THEN "~" ELSE "/">> \o f[i + 2]
  BY DEF ScanOf
<1> QED
  BY <1>1, <1>2, <1>3

LEMMA ScanUnique ==
  ASSUME NEW segment, Len(segment) \in Nat, DOMAIN segment = 1 .. Len(segment),
         WellEscaped(segment), NEW f, Scans(segment, f), NEW g, Scans(segment, g)
  PROVE  f[1] = g[1]
<1> DEFINE n == Len(segment)
           T == {k \in Nat : \A i \in 1 .. (n + 1) : i + k > n => f[i] = g[i]}
<1>1. 0 \in T
  <2>1. f[n + 1] = g[n + 1]
    BY ScanStep
  <2>2. \A i \in 1 .. (n + 1) : i + 0 > n => i = n + 1
    OBVIOUS
  <2> QED
    BY <2>1, <2>2
<1>2. ASSUME NEW k \in Nat, k \in T
      PROVE  k + 1 \in T
  <2> SUFFICES ASSUME NEW i \in 1 .. (n + 1), i + (k + 1) > n
               PROVE  f[i] = g[i]
    OBVIOUS
  <2>1. CASE i = n + 1
    BY <2>1, ScanStep
  <2>2. CASE i \in 1 .. n /\ segment[i] # "~"
    <3>1. f[i + 1] = g[i + 1]
      BY <1>2, <2>2
    <3>2. f[i] = <<segment[i]>> \o f[i + 1] /\ g[i] = <<segment[i]>> \o g[i + 1]
      BY <2>2, ScanStep
    <3> QED
      BY <3>1, <3>2
  <2>3. CASE i \in 1 .. n /\ segment[i] = "~"
    <3>1. i < n
      BY <2>3 DEF WellEscaped
    <3>2. f[i + 2] = g[i + 2]
      BY <1>2, <2>3, <3>1
    <3>3. /\ f[i] = <<IF segment[i + 1] = "0" THEN "~" ELSE "/">> \o f[i + 2]
          /\ g[i] = <<IF segment[i + 1] = "0" THEN "~" ELSE "/">> \o g[i + 2]
      BY <2>3, ScanStep
    <3> QED
      BY <3>2, <3>3
  <2>4. i = n + 1 \/ i \in 1 .. n
    OBVIOUS
  <2> QED
    BY <2>1, <2>2, <2>3, <2>4
<1> HIDE DEF T
<1>3. n \in T
  BY <1>1, <1>2, SetInduction
<1> QED
  BY <1>3 DEF T

LEMMA UnescapeIsScan ==
  ASSUME NEW segment, NEW f, Scans(segment, f)
  PROVE  \E g : Scans(segment, g) /\ Unescape(segment) = g[1]
<1> DEFINE G == CHOOSE g : g = [i \in 1 .. (Len(segment) + 1) |->
                  IF i > Len(segment) THEN <<>>
                  ELSE IF segment[i] = "~"
                       THEN <<IF segment[i + 1] = "0" THEN "~" ELSE "/">> \o g[i + 2]
                       ELSE <<segment[i]>> \o g[i + 1]]
<1>1. Scans(segment, G)
  BY Zenon DEF Scans
<1>2. Unescape(segment) = G[1]
  BY Zenon DEF Unescape
<1> QED
  BY <1>1, <1>2

-----------------------------------------------------------------------------
(* What is escaped is found again, whatever the name.                       *)

FoundAgain(S, segment, name) ==
  /\ segment \in Seq(S) /\ Len(segment) >= Len(name)
  /\ \A i \in 1 .. Len(segment) : segment[i] # "/"
  /\ WellEscaped(segment)
  /\ \E f : /\ Scans(segment, f)
            /\ f[1] = name
            /\ \A i \in 1 .. Len(segment) + 1 : f[i] \in Seq(S)

LEMMA NothingFoundAgain ==
  ASSUME NEW S
  PROVE  FoundAgain(S, <<>>, <<>>)
<1> DEFINE f == [i \in 1 .. 1 |-> <<>>]
<1>1. Len(<<>>) = 0 /\ <<>> \in Seq(S) /\ DOMAIN <<>> = {}
  OBVIOUS
<1>2. Scans(<<>>, f)
  BY <1>1 DEF Scans
<1>3. f[1] = <<>> /\ \A i \in 1 .. Len(<<>>) + 1 : f[i] \in Seq(S)
  BY <1>1
<1>4. WellEscaped(<<>>)
  BY <1>1 DEF WellEscaped
<1> HIDE DEF f
<1> QED
  BY <1>1, <1>2, <1>3, <1>4 DEF FoundAgain

(* One more character behind: the scan of the segment is the old one with   *)
(* the character behind every result.                                       *)
LEMMA MoreFoundAgain ==
  ASSUME NEW S, Escapes \subseteq S, NEW segment, NEW name \in Seq(S), NEW c \in S,
         FoundAgain(S, segment, name)
  PROVE  FoundAgain(S, segment \o Code(c), Append(name, c))
<1>1. PICK f : /\ Scans(segment, f)
               /\ f[1] = name
               /\ \A i \in 1 .. Len(segment) + 1 : f[i] \in Seq(S)
  BY DEF FoundAgain
<1> DEFINE n == Len(segment)
           longer == segment \o Code(c)
           m == Len(Code(c))
           g == [i \in 1 .. (n + m + 1) |->
                   IF i <= n + 1 THEN f[i] \o <<c>>
                   ELSE IF i = n + m + 1 THEN <<>> ELSE <<longer[i]>>]
<1>2. /\ Code(c) \in Seq(S) /\ m \in {1, 2}
      /\ m = 1 => c # "~" /\ c # "/" /\ Code(c)[1] = c
      /\ m = 2 => /\ Code(c)[1] = "~" /\ Code(c)[2] \in {"0", "1"}
                  /\ c = IF Code(c)[2] = "0" THEN "~" ELSE "/"
  BY DEF Code, Escapes
<1>3. /\ n \in Nat /\ longer \in Seq(S) /\ Len(longer) = n + m
      /\ DOMAIN segment = 1 .. n /\ DOMAIN longer = 1 .. (n + m)
      /\ \A i \in 1 .. n : longer[i] = segment[i]
      /\ \A i \in 1 .. m : longer[n + i] = Code(c)[i]
  BY <1>2, ConcatProperties DEF FoundAgain
<1> HIDE DEF longer, m
<1>f. /\ n \in Nat /\ n = Len(segment) /\ f[n + 1] = <<>>
      /\ \A i \in 1 .. (n + 1) : f[i] \in Seq(S)
      /\ \A i \in 1 .. n :
           /\ segment[i] \in S
           /\ segment[i] # "~" => f[i] = <<segment[i]>> \o f[i + 1]
           /\ segment[i] = "~" =>
                /\ i < n /\ segment[i + 1] \in {"0", "1"}
                /\ f[i] = <<IF segment[i + 1] = "0" THEN "~" ELSE "/">> \o f[i + 2]
  <2>1. f[n + 1] = <<>>
    BY <1>1, <1>3, ScanStep
  <2>2. ASSUME NEW i \in 1 .. n, segment[i] # "~"
        PROVE  f[i] = <<segment[i]>> \o f[i + 1]
    BY <1>1, <1>3, <2>2, ScanStep
  <2>3. ASSUME NEW i \in 1 .. n, segment[i] = "~"
        PROVE  f[i] = <<IF segment[i + 1] = "0" THEN "~" ELSE "/">> \o f[i + 2]
    BY <1>1, <1>3, <2>3, ScanStep
  <2>4. ASSUME NEW i \in 1 .. n, segment[i] = "~"
        PROVE  i < n /\ segment[i + 1] \in {"0", "1"}
    BY <1>3, <2>4 DEF FoundAgain, WellEscaped
  <2>5. \A i \in 1 .. n : segment[i] \in S
    BY ElementOfSeq DEF FoundAgain
  <2> QED
    BY <1>1, <1>3, <2>1, <2>2, <2>3, <2>4, <2>5
<1>4. \A i \in 1 .. (n + m) : longer[i] # "/"
  BY SMTT(30), <1>2, <1>3 DEF FoundAgain
<1>5. WellEscaped(longer)
  <2> SUFFICES ASSUME NEW i \in 1 .. (n + m), longer[i] = "~"
               PROVE  i < n + m /\ longer[i + 1] \in {"0", "1"}
    BY <1>3 DEF WellEscaped
  <2>1. CASE i \in 1 .. n
    <3>1. segment[i] = "~" /\ i < n /\ segment[i + 1] \in {"0", "1"}
      BY <1>3, <2>1 DEF FoundAgain, WellEscaped
    <3> QED
      BY <1>2, <1>3, <2>1, <3>1
  <2>2. CASE i = n + 1
    <3>1. longer[n + 1] = Code(c)[1] /\ (m = 2 => longer[n + 2] = Code(c)[2])
      BY <1>2, <1>3
    <3> QED
      BY <1>2, <1>3, <2>2, <3>1
  <2>3. CASE m = 2 /\ i = n + 2
    BY <1>2, <1>3, <2>3
  <2> QED
    BY <1>2, <1>3, <2>1, <2>2, <2>3
<1> HIDE DEF n
<1>6. /\ \A i \in 1 .. (n + 1) : g[i] = f[i] \o <<c>>
      /\ g[n + m + 1] = <<>>
      /\ m = 2 => g[n + 2] = <<longer[n + 2]>>
  <2>1. \A i \in 1 .. (n + 1) : i \in 1 .. (n + m + 1) /\ i <= n + 1
    BY <1>2, <1>f
  <2>2. n + m + 1 \in 1 .. (n + m + 1) /\ ~(n + m + 1 <= n + 1)
    BY <1>2, <1>f
  <2>3. m = 2 => n + 2 \in 1 .. (n + m + 1) /\ ~(n + 2 <= n + 1) /\ n + 2 # n + m + 1
    BY <1>f
  <2> QED
    BY <2>1, <2>2, <2>3
<1>8. g[1] = Append(name, c)
  <2>1. 1 \in 1 .. (n + 1)
    BY <1>f
  <2>2. g[1] = f[1] \o <<c>>
    BY <1>6, <2>1
  <2> QED
    BY <1>1, <2>2, AppendIsConcat
<1>9. \A i \in 1 .. (n + m + 1) : g[i] \in Seq(S)
  <2>1. \A i \in 1 .. (n + 1) : g[i] \in Seq(S)
    <3>1. ASSUME NEW i \in 1 .. (n + 1)
          PROVE  f[i] \o <<c>> \in Seq(S)
      <4>1. f[i] \in Seq(S) /\ <<c>> \in Seq(S)
        BY <1>f
      <4> QED
        BY <4>1, ConcatProperties
    <3> QED
      BY <1>6, <3>1
  <2>2. m = 2 => g[n + 2] \in Seq(S)
    BY <1>3, <1>6
  <2>3. \A i \in 1 .. (n + m + 1) : i \in 1 .. (n + 1) \/ i = n + m + 1 \/ (m = 2 /\ i = n + 2)
    BY <1>2, <1>3
  <2>4. g[n + m + 1] \in Seq(S)
    <3>1. <<>> \in Seq(S)
      BY EmptySeq
    <3> QED
      BY <1>6, <3>1
  <2> HIDE DEF g
  <2> QED
    BY <2>1, <2>2, <2>3, <2>4
<1>10. ASSUME NEW i \in 1 .. (n + m + 1)
       PROVE  g[i] = ScanOf(longer, g, i)
  <2> HIDE DEF g
  <2>1. CASE i \in 1 .. n
    <3>1. PICK b \in S, k \in 1 .. (n + 1) :
            /\ f[i] = <<b>> \o f[k]
            /\ ScanOf(longer, g, i) = <<b>> \o g[k]
      <4>1. longer[i] = segment[i] /\ ~(i > Len(longer))
        BY <1>2, <1>3, <1>f, <2>1
      <4>2. CASE segment[i] # "~"
        <5>0. segment[i] \in S
          BY <1>f, <2>1
        <5>1. i + 1 \in 1 .. (n + 1)
          BY <1>f, <2>1
        <5>2. f[i] = <<segment[i]>> \o f[i + 1]
          BY <1>f, <2>1, <4>2
        <5>3. ScanOf(longer, g, i) = <<segment[i]>> \o g[i + 1]
          BY <4>1, <4>2 DEF ScanOf
        <5> QED
          BY <5>0, <5>1, <5>2, <5>3
      <4>3. CASE segment[i] = "~"
        <5>0. i < n
          BY <1>f, <2>1, <4>3
        <5>1. i + 1 \in 1 .. n /\ i + 2 \in 1 .. (n + 1)
          BY <1>f, <2>1, <5>0
        <5>a. longer[i + 1] = segment[i + 1]
          BY <1>3, <5>1
        <5>2. PICK d \in S : d = IF segment[i + 1] = "0" THEN "~" ELSE "/"
          BY DEF Escapes
        <5>3. f[i] = <<d>> \o f[i + 2]
          BY <1>f, <2>1, <4>3, <5>2
        <5>4. ScanOf(longer, g, i) = <<d>> \o g[i + 2]
          BY <4>1, <4>3, <5>a, <5>2 DEF ScanOf
        <5> QED
          BY <5>1, <5>3, <5>4
      <4> QED
        BY <4>2, <4>3
    <3>2. g[i] = f[i] \o <<c>> /\ g[k] = f[k] \o <<c>>
      <4>1. i \in 1 .. (n + 1)
        BY <1>f, <2>1
      <4> QED
        BY <1>6, <4>1
    <3>3. f[k] \in Seq(S) /\ <<b>> \in Seq(S) /\ <<c>> \in Seq(S)
      BY <1>f
    <3>4. (<<b>> \o f[k]) \o <<c>> = <<b>> \o (f[k] \o <<c>>)
      <4>1. PICK t \in Seq(S), u \in Seq(S), v \in Seq(S) : t = <<b>> /\ u = f[k] /\ v = <<c>>
        BY <3>3
      <4>2. (t \o u) \o v = t \o (u \o v)
        BY ConcatAssociative
      <4> QED
        BY <4>1, <4>2
    <3> QED
      BY <3>1, <3>2, <3>4
  <2>3. CASE i = n + 1
    <3>1. g[i] = <<c>> /\ <<c>> \o <<>> = <<c>>
      <4>1. i \in 1 .. (n + 1) /\ <<c>> \in Seq(S)
        BY <1>f, <2>3
      <4> QED
        BY <1>6, <1>f, <2>3, <4>1, ConcatEmptySeq
    <3>2. longer[i] = Code(c)[1] /\ (m = 2 => longer[i + 1] = Code(c)[2])
      BY <1>2, <1>3, <1>f, <2>3
    <3>3. ~(i > Len(longer))
      BY <1>2, <1>3, <1>f, <2>3
    <3>4. CASE m = 1
      <4>1. longer[i] = c /\ c # "~" /\ g[i + 1] = <<>>
        BY <1>2, <1>6, <1>f, <2>3, <3>2, <3>4
      <4> QED
        BY <3>1, <3>3, <4>1 DEF ScanOf
    <3>5. CASE m = 2
      <4>1. /\ longer[i] = "~" /\ g[i + 2] = <<>>
            /\ c = IF longer[i + 1] = "0" THEN "~" ELSE "/"
        BY <1>2, <1>6, <1>f, <2>3, <3>2, <3>5
      <4> QED
        BY <3>1, <3>3, <4>1 DEF ScanOf
    <3> QED
      BY <1>2, <3>4, <3>5
  <2>4. CASE m = 2 /\ i = n + 2
    <3>1. longer[i] # "~" /\ g[i] = <<longer[i]>> /\ g[i + 1] = <<>> /\ longer[i] \in S
      BY <1>2, <1>3, <1>6, <1>f, <2>4
    <3>2. <<longer[i]>> \o <<>> = <<longer[i]>>
      BY <3>1, ConcatEmptySeq
    <3> QED
      BY <1>3, <1>f, <2>4, <3>1, <3>2 DEF ScanOf
  <2>5. CASE i = n + m + 1
    BY <1>2, <1>3, <1>6, <2>5 DEF ScanOf
  <2>6. i \in 1 .. n \/ i = n + 1 \/ (m = 2 /\ i = n + 2) \/ i = n + m + 1
    BY <1>2, <1>3
  <2> QED
    BY <2>1, <2>3, <2>4, <2>5, <2>6
<1>11. Scans(longer, g)
  <2>1. g = [i \in 1 .. (n + m + 1) |-> g[i]]
    OBVIOUS
  <2> HIDE DEF g
  <2>2. g = [i \in 1 .. (n + m + 1) |-> ScanOf(longer, g, i)]
    BY <1>10, <2>1
  <2> QED
    BY <1>3, <2>2 DEF Scans, ScanOf
<1>12. Len(longer) >= Len(Append(name, c))
  BY <1>2, <1>3 DEF FoundAgain
<1> HIDE DEF g
<1> QED
  BY <1>3, <1>4, <1>5, <1>8, <1>9, <1>11, <1>12 DEF FoundAgain, longer

LEMMA NameFoundAgain ==
  ASSUME NEW S, Escapes \subseteq S, NEW name \in Seq(S)
  PROVE  FoundAgain(S, EscapePathSegment(name), name)
<1> DEFINE T == {n \in Nat : \A s \in Seq(S) :
                   Len(s) = n => FoundAgain(S, EscapePathSegment(s), s)}
<1>1. 0 \in T
  <2>1. \A s \in Seq(S) : Len(s) = 0 => s = <<>>
    OBVIOUS
  <2> QED
    BY <2>1, EscapeNothing, NothingFoundAgain
<1>2. ASSUME NEW n \in Nat, n \in T
      PROVE  n + 1 \in T
  <2> SUFFICES ASSUME NEW s \in Seq(S), Len(s) = n + 1
               PROVE  FoundAgain(S, EscapePathSegment(s), s)
    OBVIOUS
  <2>1. PICK front \in Seq(S), c \in S : s = Append(front, c) /\ Len(front) = n
    <3> DEFINE front == [i \in 1 .. n |-> s[i]]
    <3>1. front \in Seq(S) /\ Len(front) = n /\ s[n + 1] \in S
      BY ElementOfSeq
    <3>2. Append(front, s[n + 1]) \in Seq(S) /\ Len(Append(front, s[n + 1])) = n + 1
      BY <3>1
    <3>3. \A i \in 1 .. (n + 1) : s[i] = Append(front, s[n + 1])[i]
      BY <3>1
    <3>4. s = Append(front, s[n + 1])
      BY <3>2, <3>3, SeqEqual
    <3> QED
      BY <3>1, <3>4
  <2>2. FoundAgain(S, EscapePathSegment(front), front)
    BY <1>2, <2>1
  <2>3. EscapePathSegment(s) = EscapePathSegment(front) \o Code(c)
    BY <2>1, EscapeAppend
  <2> QED
    BY <2>1, <2>2, <2>3, MoreFoundAgain
<1> HIDE DEF T
<1>3. Len(name) \in T
  BY <1>1, <1>2, SetInduction
<1> QED
  BY <1>3 DEF T

(* The segment of a name names it, and stays one segment of the path.       *)
LEMMA EscapeRoundTrip ==
  ASSUME NEW T, NEW name \in Seq(T), name # <<>>
  PROVE  LET segment == EscapePathSegment(name) IN
           /\ segment # <<>>
           /\ "/" \notin ToSet(segment)
           /\ WellEscaped(segment)
           /\ Unescape(segment) = name
<1> DEFINE S == T \cup Escapes
           segment == EscapePathSegment(name)
<1>1. name \in Seq(S) /\ Escapes \subseteq S
  BY SeqMonotonic
<1> HIDE DEF S
<1>2. FoundAgain(S, segment, name)
  BY <1>1, NameFoundAgain
<1> HIDE DEF segment
<1>3. /\ segment \in Seq(S) /\ Len(segment) >= Len(name)
      /\ \A i \in 1 .. Len(segment) : segment[i] # "/"
      /\ WellEscaped(segment)
  BY <1>2 DEF FoundAgain
<1>4. DOMAIN segment = 1 .. Len(segment) /\ Len(segment) \in Nat
  BY <1>3, LenProperties
<1>5. segment # <<>>
  BY <1>1, <1>3
<1>6. "/" \notin ToSet(segment)
  BY <1>3, <1>4 DEF ToSet
<1>7. PICK f : Scans(segment, f) /\ f[1] = name
  BY <1>2 DEF FoundAgain
<1>8. PICK g : Scans(segment, g) /\ Unescape(segment) = g[1]
  BY <1>7, UnescapeIsScan
<1>9. Unescape(segment) = name
  BY <1>3, <1>4, <1>7, <1>8, ScanUnique
<1> QED
  BY <1>3, <1>5, <1>6, <1>9 DEF segment

-----------------------------------------------------------------------------
(* The operations of a patch, one after the other.                          *)

LEMMA FoldOfThree ==
  ASSUME NEW nodes, NEW operations, NEW n \in {2, 3}, DOMAIN operations = 1 .. n
  PROVE  /\ n = 2 => FoldLeft(ApplyField, nodes, operations)
                       = ApplyField(ApplyField(nodes, operations[1]), operations[2])
         /\ n = 3 => FoldLeft(ApplyField, nodes, operations)
                       = ApplyField(ApplyField(ApplyField(nodes, operations[1]),
                                               operations[2]), operations[3])
<1> DEFINE D == 1 .. n
           One(s) == IF 1 \in s THEN ApplyField(nodes, operations[1]) ELSE nodes
           Two(s) == IF 2 \in s THEN ApplyField(One(s), operations[2]) ELSE One(s)
           Three(s) == IF 3 \in s THEN ApplyField(Two(s), operations[3]) ELSE Two(s)
           w == [s \in SUBSET D |-> Three(s)]
           Fits(f) == f = [s \in SUBSET D |->
                             IF s = {} THEN nodes
                             ELSE LET x == Max(s)
                                  IN  ApplyField(f[s \ {x}], operations[x])]
           F == CHOOSE f : Fits(f)
<1>1. ASSUME NEW s \in SUBSET D, s # {}
      PROVE  s \subseteq {1, 2, 3} /\ Max(s) \in s /\ \A k \in s : k <= Max(s)
  <2>1. s \subseteq {1, 2, 3}
    OBVIOUS
  <2> HIDE DEF D
  <2>2. \E k \in s : \A j \in s : k >= j
    <3>1. CASE 3 \in s
      <4>1. \A j \in s : 3 >= j
        BY <2>1
      <4> QED
        BY <3>1, <4>1
    <3>2. CASE 3 \notin s /\ 2 \in s
      <4>1. \A j \in s : 2 >= j
        BY <2>1, <3>2
      <4> QED
        BY <3>2, <4>1
    <3>3. CASE 3 \notin s /\ 2 \notin s
      <4>1. s = {1}
        BY <1>1, <2>1, <3>3
      <4> QED
        BY <4>1
    <3> QED
      BY <3>1, <3>2, <3>3
  <2>3. PICK m \in s : m = Max(s) /\ \A j \in s : m >= j
    BY <2>2 DEF Max
  <2>4. \A k \in s : k <= m
    BY <2>1, <2>3
  <2> QED
    BY <2>1, <2>3, <2>4
<1>2. ASSUME NEW s \in SUBSET D
      PROVE  w[s] = IF s = {} THEN nodes
                    ELSE ApplyField(w[s \ {Max(s)}], operations[Max(s)])
  <2>1. w[s] = Three(s) /\ (s # {} => w[s \ {Max(s)}] = Three(s \ {Max(s)}))
    OBVIOUS
  <2>2. CASE s = {}
    BY <2>1, <2>2
  <2>3. CASE s # {}
    <3>1. /\ s \subseteq {1, 2, 3} /\ Max(s) \in {1, 2, 3} /\ Max(s) \in s
          /\ \A k \in s : k <= Max(s)
      <4>1. s \subseteq {1, 2, 3} /\ Max(s) \in s /\ \A k \in s : k <= Max(s)
        BY <1>1, <2>3
      <4> QED
        BY <4>1
    <3>2. CASE Max(s) = 1
      <4>1. 1 \in s /\ 2 \notin s /\ 3 \notin s
        BY <3>1, <3>2
      <4> QED
        BY <2>1, <2>3, <3>2, <4>1
    <3>3. CASE Max(s) = 2
      <4>1. 2 \in s /\ 3 \notin s
        BY <3>1, <3>3
      <4> QED
        BY <2>1, <2>3, <3>3, <4>1
    <3>4. CASE Max(s) = 3
      <4>1. 3 \in s
        BY <3>1, <3>4
      <4> QED
        BY <2>1, <2>3, <3>4, <4>1
    <3> QED
      BY <3>1, <3>2, <3>3, <3>4
  <2> QED
    BY <2>2, <2>3
<1>3. Fits(w)
  <2>1. w = [s \in SUBSET D |-> w[s]]
    OBVIOUS
  <2> HIDE DEF w
  <2> QED
    BY <1>2, <2>1
<1>4. Fits(F)
  BY <1>3, Zenon
<1>5. FoldLeft(ApplyField, nodes, operations) = F[D]
  BY Zenon DEF FoldLeft, MapThenFoldSet
<1> HIDE DEF F
<1>6. \A s \in SUBSET D : F[s] = IF s = {} THEN nodes
                                 ELSE ApplyField(F[s \ {Max(s)}], operations[Max(s)])
  BY <1>4
<1>7. Max({1}) = 1 /\ Max({1, 2}) = 2 /\ Max({1, 2, 3}) = 3
  BY DEF Max
<1>8. /\ {1} \in SUBSET D /\ {1, 2} \in SUBSET D /\ {} \in SUBSET D
      /\ {1} \ {1} = {} /\ {1, 2} \ {2} = {1} /\ {1, 2, 3} \ {3} = {1, 2}
      /\ n = 2 => D = {1, 2}
      /\ n = 3 => D = {1, 2, 3}
  OBVIOUS
<1> HIDE DEF Fits, D
<1>9. /\ F[{}] = nodes
      /\ F[{1}] = ApplyField(F[{}], operations[1])
      /\ F[{1, 2}] = ApplyField(F[{1}], operations[2])
      /\ n = 3 => F[{1, 2, 3}] = ApplyField(F[{1, 2}], operations[3])
  BY ZenonT(60), <1>6, <1>7, <1>8
<1> QED
  BY <1>5, <1>8, <1>9

-----------------------------------------------------------------------------
(* What is changed of the nodes: retry settings of one of them.             *)

AreNodes(nodes) ==
  /\ IsSequence(nodes)
  /\ \A i \in DOMAIN nodes :
       DOMAIN nodes[i] = {"name", "retry"} /\ DOMAIN nodes[i].retry = Fields

Retried(nodes, t, retry) == [nodes EXCEPT ![t] = [nodes[t] EXCEPT !.retry = retry]]

LEMMA RetriedKeeps ==
  ASSUME NEW nodes, AreNodes(nodes), NEW t \in DOMAIN nodes,
         NEW retry, DOMAIN retry = Fields, NEW after, after = Retried(nodes, t, retry)
  PROVE  /\ DOMAIN after = DOMAIN nodes
         /\ Len(after) = Len(nodes)
         /\ \A i \in DOMAIN nodes \ {t} : after[i] = nodes[i]
         /\ after[t] = [nodes[t] EXCEPT !.retry = retry]
         /\ after[t].name = nodes[t].name
         /\ after[t].retry = retry
         /\ Protected(after[t]) = Protected(nodes[t])
<1>1. DOMAIN nodes = 1 .. Len(nodes) /\ Len(nodes) \in Nat
  BY DEF AreNodes, IsSequence
<1>2. /\ DOMAIN after = DOMAIN nodes
      /\ \A i \in DOMAIN nodes \ {t} : after[i] = nodes[i]
      /\ after[t] = [nodes[t] EXCEPT !.retry = retry]
  BY DEF Retried
<1>3. Len(after) = Len(nodes)
  BY <1>1, <1>2
<1>4. DOMAIN nodes[t] = {"name", "retry"}
  BY DEF AreNodes
<1>5. after[t].name = nodes[t].name /\ after[t].retry = retry
  BY <1>2, <1>4
<1>6. Protected(after[t]) = Protected(nodes[t])
  BY <1>2, <1>4 DEF Protected
<1> QED
  BY <1>2, <1>3, <1>5, <1>6

LEMMA RetriedAreNodes ==
  ASSUME NEW nodes, AreNodes(nodes), NEW t \in DOMAIN nodes,
         NEW retry, DOMAIN retry = Fields
  PROVE  AreNodes(Retried(nodes, t, retry))
<1>0. PICK after : after = Retried(nodes, t, retry)
  OBVIOUS
<1>1. /\ DOMAIN after = DOMAIN nodes
      /\ \A i \in DOMAIN nodes \ {t} : after[i] = nodes[i]
      /\ after[t] = [nodes[t] EXCEPT !.retry = retry]
      /\ after[t].retry = retry
  BY <1>0, RetriedKeeps
<1>2. DOMAIN nodes = 1 .. Len(nodes) /\ Len(nodes) \in Nat
  BY DEF AreNodes, IsSequence
<1>3. after = [i \in 1 .. Len(nodes) |-> after[i]]
  BY <1>0, <1>2 DEF Retried
<1>4. IsSequence(after)
  <2>1. \A i \in 1 .. Len(nodes) : after[i] \in ToSet(after)
    BY <1>1, <1>2 DEF ToSet
  <2> QED
    BY <1>2, <1>3, <2>1 DEF IsSequence
<1>5. \A i \in DOMAIN after :
        DOMAIN after[i] = {"name", "retry"} /\ DOMAIN after[i].retry = Fields
  <2>1. \A i \in DOMAIN nodes :
          DOMAIN nodes[i] = {"name", "retry"} /\ DOMAIN nodes[i].retry = Fields
    BY DEF AreNodes
  <2>2. DOMAIN after[t] = DOMAIN nodes[t]
    BY <1>1
  <2> QED
    BY <1>1, <2>1, <2>2
<1> QED
  BY <1>0, <1>4, <1>5 DEF AreNodes

LEMMA RetriedNames ==
  ASSUME NEW nodes, AreNodes(nodes), NEW t \in DOMAIN nodes,
         NEW retry, DOMAIN retry = Fields, NEW name
  PROVE  NodesNamed(Retried(nodes, t, retry), name) = NodesNamed(nodes, name)
<1>0. PICK after : after = Retried(nodes, t, retry)
  OBVIOUS
<1>1. /\ DOMAIN after = DOMAIN nodes
      /\ Len(after) = Len(nodes)
      /\ \A i \in DOMAIN nodes \ {t} : after[i] = nodes[i]
      /\ after[t] = [nodes[t] EXCEPT !.retry = retry]
      /\ after[t].name = nodes[t].name
      /\ after[t].retry = retry
      /\ Protected(after[t]) = Protected(nodes[t])
  BY <1>0, RetriedKeeps
<1>2. \A i \in DOMAIN nodes : after[i].name = nodes[i].name
  BY <1>1
<1> QED
  BY <1>0, <1>1, <1>2 DEF NodesNamed

LEMMA RetriedTwice ==
  ASSUME NEW nodes, AreNodes(nodes), NEW t \in DOMAIN nodes,
         NEW first, DOMAIN first = Fields, NEW second
  PROVE  Retried(Retried(nodes, t, first), t, second) = Retried(nodes, t, second)
<1>1. DOMAIN nodes[t] = {"name", "retry"}
  BY DEF AreNodes
<1> QED
  BY <1>1 DEF Retried

Setting(retry, operation) == [retry EXCEPT ![operation.field] = operation.value]

LEMMA ApplyRetries ==
  ASSUME NEW nodes, AreNodes(nodes), NEW t \in DOMAIN nodes, NEW operation,
         NodesNamed(nodes, Unescape(operation.segment)) = {t}
  PROVE  ApplyField(nodes, operation)
           = Retried(nodes, t, Setting(nodes[t].retry, operation))
<1>1. TargetOf(nodes, operation) = t
  BY DEF TargetOf
<1> QED
  BY <1>1 DEF ApplyField, Retried, Setting

LEMMA RetryStep ==
  ASSUME NEW nodes, AreNodes(nodes), NEW t \in DOMAIN nodes,
         NEW retry, DOMAIN retry = Fields, NEW operation,
         NodesNamed(nodes, Unescape(operation.segment)) = {t},
         NEW more, more = Setting(retry, operation)
  PROVE  /\ DOMAIN more = Fields
         /\ ApplyField(Retried(nodes, t, retry), operation) = Retried(nodes, t, more)
<1>1. PICK after : after = Retried(nodes, t, retry)
  OBVIOUS
<1>2. AreNodes(after)
  BY <1>1, RetriedAreNodes
<1>3. t \in DOMAIN after /\ after[t].retry = retry
  <2>1. /\ DOMAIN after = DOMAIN nodes
        /\ Len(after) = Len(nodes)
        /\ \A i \in DOMAIN nodes \ {t} : after[i] = nodes[i]
        /\ after[t] = [nodes[t] EXCEPT !.retry = retry]
        /\ after[t].name = nodes[t].name
        /\ after[t].retry = retry
        /\ Protected(after[t]) = Protected(nodes[t])
    BY <1>1, RetriedKeeps
  <2> QED
    BY <2>1
<1>4. NodesNamed(after, Unescape(operation.segment)) = {t}
  BY <1>1, RetriedNames
<1>5. ApplyField(after, operation) = Retried(after, t, more)
  BY <1>2, <1>3, <1>4, ApplyRetries
<1>6. Retried(after, t, more) = Retried(nodes, t, more)
  BY <1>1, RetriedTwice
<1>7. DOMAIN more = Fields
  BY DEF Setting
<1> QED
  BY <1>1, <1>5, <1>6, <1>7

(* What the operations of a proposal are.                                   *)
Planned(operations, n, name) ==
  /\ n \in {2, 3}
  /\ DOMAIN operations = 1 .. n /\ Len(operations) = n
  /\ \A i \in 1 .. n : operations[i].segment = EscapePathSegment(name)
  /\ operations[1].field = "retryOnFail" /\ operations[1].value = TRUE
  /\ operations[2].field = "maxTries" /\ operations[2].value \in {2, 3}
  /\ n = 3 => operations[3].field = "waitBetweenTries" /\ operations[3].value = 2000

LEMMA ProposalIsPlanned ==
  ASSUME NEW name, NEW class, Propose(name, class) # <<>>
  PROVE  name # <<>> /\ \E n : Planned(Propose(name, class), n, name)
<1> DEFINE three == << Add(name, "retryOnFail", TRUE), Add(name, "maxTries", 3),
                       Add(name, "waitBetweenTries", 2000) >>
           two == << Add(name, "retryOnFail", TRUE), Add(name, "maxTries", 2) >>
<1>1. name # <<>> /\ Propose(name, class) \in {two, three}
  BY DEF Propose
<1>2. Planned(three, 3, name)
  BY DEF Planned, Add
<1>3. Planned(two, 2, name)
  BY DEF Planned, Add
<1> HIDE DEF two, three
<1> QED
  BY <1>1, <1>2, <1>3

LEMMA ValidValues ==
  /\ ValidValue("retryOnFail", TRUE)
  /\ \A value \in {2, 3} : ValidValue("maxTries", value)
  /\ ValidValue("waitBetweenTries", 2000)
<1>1. ValidValue("retryOnFail", TRUE)
  BY DEF ValidValue
<1>2. \A value \in {2, 3} : ValidValue("maxTries", value)
  BY DEF ValidValue
<1>3. ValidValue("waitBetweenTries", 2000)
  <2>1. "waitBetweenTries" # "maxTries" /\ "waitBetweenTries" # "retryOnFail"
    OBVIOUS
  <2>2. 2000 \in Waits
    BY DEF Waits
  <2>3. PICK value : value = 2000
    OBVIOUS
  <2>4. ValidValue("waitBetweenTries", value) <=> value \in Waits
    BY <2>1, SMT DEF ValidValue
  <2> QED
    BY <2>2, <2>3, <2>4
<1> QED
  BY ZenonT(60), <1>1, <1>2, <1>3

(* The validator accepts every proposal, but for the limit.                 *)
LEMMA PlannedIsValid ==
  ASSUME NEW operations, NEW n, NEW name, Planned(operations, n, name),
         IsSequence(name), name # <<>>, NEW max \in Nat, max >= 3
  PROVE  Valid(operations, max)
<1>1. PICK segment : segment = EscapePathSegment(name)
  OBVIOUS
<1>2. segment # <<>> /\ "/" \notin ToSet(segment)
  BY <1>1, EscapeRoundTrip DEF IsSequence
<1>3. \A i \in DOMAIN operations : ValidOperation(operations[i])
  <2>1. ASSUME NEW i \in {1, 2, 3}, i \in DOMAIN operations
        PROVE  ValidOperation(operations[i])
    <3>1. operations[i].segment = segment
      BY <1>1, <2>1 DEF Planned
    <3>2. /\ operations[i].field \in Fields
          /\ ValidValue(operations[i].field, operations[i].value)
      <4>1. CASE i = 1
        <5>1. operations[i].field = "retryOnFail" /\ operations[i].value = TRUE
          BY <4>1 DEF Planned
        <5> QED
          BY ZenonT(60), <5>1, ValidValues DEF Fields
      <4>2. CASE i = 2
        <5>1. operations[i].field = "maxTries" /\ operations[i].value \in {2, 3}
          BY <4>2 DEF Planned
        <5> QED
          BY <5>1, ValidValues DEF Fields
      <4>3. CASE i = 3
        <5>1. operations[i].field = "waitBetweenTries" /\ operations[i].value = 2000
          BY <2>1, <4>3 DEF Planned
        <5> QED
          BY <5>1, ValidValues DEF Fields
      <4> QED
        BY <4>1, <4>2, <4>3
    <3> QED
      BY <1>2, <3>1, <3>2 DEF ValidOperation
  <2>2. DOMAIN operations \subseteq {1, 2, 3}
    BY DEF Planned
  <2> QED
    BY <2>1, <2>2
<1>4. Len(operations) <= max /\ operations # <<>>
  BY DEF Planned
<1>5. \A i, j \in DOMAIN operations : operations[i].segment = operations[j].segment
  BY DEF Planned
<1> QED
  BY <1>3, <1>4, <1>5 DEF Valid

Applied(nodes, operations) == FoldLeft(ApplyField, nodes, operations)

(* What a patch makes of the retry settings of a node.                      *)
Bounded(before, after) ==
  /\ DOMAIN after = Fields
  /\ after["retryOnFail"] = TRUE
  /\ after["maxTries"] \in 1..5
  /\ \/ after["waitBetweenTries"] = before["waitBetweenTries"]
     \/ after["waitBetweenTries"] \in Waits

(* Where one node has the name, its retry settings are all that changes.    *)
LEMMA PlannedRetries ==
  ASSUME NEW operations, NEW n, NEW name, Planned(operations, n, name),
         IsSequence(name), name # <<>>,
         NEW nodes, AreNodes(nodes), NEW t, NodesNamed(nodes, name) = {t}
  PROVE  /\ t \in DOMAIN nodes
         /\ \A i \in DOMAIN operations :
              /\ WellEscaped(operations[i].segment)
              /\ Unescape(operations[i].segment) = name
              /\ TargetOf(nodes, operations[i]) = t
         /\ \E retry : /\ Applied(nodes, operations) = Retried(nodes, t, retry)
                      /\ Bounded(nodes[t].retry, retry)
<1>1. t \in DOMAIN nodes
  BY DEF NodesNamed
<1>2. PICK segment : segment = EscapePathSegment(name)
  OBVIOUS
<1>3. WellEscaped(segment) /\ Unescape(segment) = name
  BY <1>2, EscapeRoundTrip DEF IsSequence
<1>4. \A i \in DOMAIN operations :
        /\ operations[i].segment = segment
        /\ WellEscaped(operations[i].segment)
        /\ Unescape(operations[i].segment) = name
        /\ NodesNamed(nodes, Unescape(operations[i].segment)) = {t}
        /\ TargetOf(nodes, operations[i]) = t
  <2>1. \A i \in DOMAIN operations : operations[i].segment = segment
    BY <1>2 DEF Planned
  <2> QED
    BY <1>3, <2>1 DEF TargetOf
<1>5. 1 \in DOMAIN operations /\ 2 \in DOMAIN operations
  BY DEF Planned
<1>6. PICK retry0 : retry0 = nodes[t].retry
  OBVIOUS
<1>7. DOMAIN retry0 = Fields
  BY <1>1, <1>6 DEF AreNodes
<1>8. PICK retry1 : retry1 = [retry0 EXCEPT !["retryOnFail"] = TRUE]
  OBVIOUS
<1>9. PICK retry2 : retry2 = [retry1 EXCEPT !["maxTries"] = operations[2].value]
  OBVIOUS
<1>10. ApplyField(nodes, operations[1]) = Retried(nodes, t, retry1) /\ DOMAIN retry1 = Fields
  <2>1. operations[1].field = "retryOnFail" /\ operations[1].value = TRUE
    BY DEF Planned
  <2>2. NodesNamed(nodes, Unescape(operations[1].segment)) = {t}
    BY <1>4, <1>5
  <2>3. retry1 = Setting(nodes[t].retry, operations[1])
    BY <1>6, <1>8, <2>1 DEF Setting
  <2>4. ApplyField(nodes, operations[1]) = Retried(nodes, t, retry1)
    BY <1>1, <2>2, <2>3, ApplyRetries
  <2>5. DOMAIN retry1 = Fields
    BY <1>7, <1>8
  <2> QED
    BY <2>4, <2>5
<1>11. /\ ApplyField(ApplyField(nodes, operations[1]), operations[2]) = Retried(nodes, t, retry2)
       /\ DOMAIN retry2 = Fields
  <2>1. operations[2].field = "maxTries"
    BY DEF Planned
  <2>2. NodesNamed(nodes, Unescape(operations[2].segment)) = {t}
    BY <1>4, <1>5
  <2>3. retry2 = Setting(retry1, operations[2])
    BY <1>9, <2>1 DEF Setting
  <2>4. /\ DOMAIN retry2 = Fields
        /\ ApplyField(Retried(nodes, t, retry1), operations[2]) = Retried(nodes, t, retry2)
    BY <1>1, <1>10, <2>2, <2>3, RetryStep
  <2> QED
    BY <1>10, <2>4
<1>12. /\ retry2["retryOnFail"] = TRUE /\ retry2["maxTries"] \in 1..5
       /\ retry2["waitBetweenTries"] = retry0["waitBetweenTries"]
  <2>1. operations[2].value \in 1..5
    BY DEF Planned
  <2> QED
    BY <1>7, <1>8, <1>9, <1>10, <2>1 DEF Fields
<1>13. CASE n = 2
  <2>1. FoldLeft(ApplyField, nodes, operations) = Retried(nodes, t, retry2)
    <3>1. n \in {2, 3} /\ DOMAIN operations = 1 .. n
      BY DEF Planned
    <3>2. FoldLeft(ApplyField, nodes, operations)
            = ApplyField(ApplyField(nodes, operations[1]), operations[2])
      BY <1>13, <3>1, FoldOfThree
    <3> QED
      BY <1>11, <3>2
  <2>2. \E retry : /\ Applied(nodes, operations) = Retried(nodes, t, retry)
                  /\ Bounded(nodes[t].retry, retry)
    <3>1. Applied(nodes, operations) = Retried(nodes, t, retry2)
      BY <2>1 DEF Applied
    <3>2. Bounded(nodes[t].retry, retry2)
      BY <1>6, <1>11, <1>12 DEF Bounded
    <3> QED
      BY <3>1, <3>2
  <2> QED
    BY <1>1, <1>4, <2>2
<1>14. CASE n = 3
  <2>1. PICK retry3 : retry3 = [retry2 EXCEPT !["waitBetweenTries"] = operations[3].value]
    OBVIOUS
  <2>2. 3 \in DOMAIN operations /\ operations[3].field = "waitBetweenTries"
        /\ operations[3].value = 2000
    BY <1>14 DEF Planned
  <2>3. NodesNamed(nodes, Unescape(operations[3].segment)) = {t}
    BY <1>4, <2>2
  <2>4. /\ DOMAIN retry3 = Fields
        /\ ApplyField(Retried(nodes, t, retry2), operations[3]) = Retried(nodes, t, retry3)
    <3>1. retry3 = Setting(retry2, operations[3])
      BY <2>1, <2>2 DEF Setting
    <3>2. DOMAIN retry2 = Fields
      BY <1>11
    <3> QED
      BY <1>1, <2>3, <3>1, <3>2, RetryStep
  <2>5. FoldLeft(ApplyField, nodes, operations) = Retried(nodes, t, retry3)
    <3>1. n \in {2, 3} /\ DOMAIN operations = 1 .. n
      BY DEF Planned
    <3>2. FoldLeft(ApplyField, nodes, operations)
            = ApplyField(ApplyField(ApplyField(nodes, operations[1]), operations[2]),
                         operations[3])
      BY <1>14, <3>1, FoldOfThree
    <3> QED
      BY <1>11, <2>4, <3>2
  <2>6. /\ DOMAIN retry3 = Fields
        /\ retry3["retryOnFail"] = TRUE /\ retry3["maxTries"] \in 1..5
        /\ retry3["waitBetweenTries"] \in Waits
    BY <1>11, <1>12, <2>1, <2>2 DEF Fields, Waits
  <2>7. \E retry : /\ Applied(nodes, operations) = Retried(nodes, t, retry)
                  /\ Bounded(nodes[t].retry, retry)
    <3>1. Applied(nodes, operations) = Retried(nodes, t, retry3)
      BY <2>5 DEF Applied
    <3>2. Bounded(nodes[t].retry, retry3)
      BY <2>6 DEF Bounded
    <3> QED
      BY <3>1, <3>2
  <2> QED
    BY <1>1, <1>4, <2>7
<1>15. n = 2 \/ n = 3
  BY DEF Planned
<1> QED
  BY <1>13, <1>14, <1>15

-----------------------------------------------------------------------------
(* The diagnosis and what is proposed for it.                               *)

(* The rules always decide: the last one matches everything. *)
LEMMA OneRuleMatches ==
  ASSUME NEW f
  PROVE  /\ FirstMatch(Rules(f)) \in 1..11
         /\ Rules(f)[FirstMatch(Rules(f))].matches
<1> DEFINE rules == Rules(f)
           hits  == {i \in 1..11 : rules[i].matches}
<1>1. DOMAIN rules = 1..11
  BY DEF Rules
<1>2. rules[11].matches
  BY DEF Rules, Rule
<1> HIDE DEF rules
<1>3. PICK i \in hits : \A j \in hits : i <= j
  BY <1>2, LeastExists
<1>4. i \in DOMAIN rules /\ rules[i].matches /\ \A j \in 1..(i - 1) : ~rules[j].matches
  BY <1>1, <1>3
<1>5. /\ FirstMatch(rules) \in DOMAIN rules
      /\ rules[FirstMatch(rules)].matches
  BY <1>4 DEF FirstMatch
<1> QED
  BY <1>1, <1>5 DEF rules

RetryClasses == {"rate_limit", "timeout", "network"}

LEMMA DiagnosisFits ==
  ASSUME NEW f
  PROVE  LET d == Diagnose(f) IN
           /\ d.retrySafe \in BOOLEAN
           /\ d.retrySafe <=> d.class \in RetryClasses
           /\ d.insight = None
<1> DEFINE i == FirstMatch(Rules(f))
           rule == Rules(f)[i]
<1>1. i \in 1..11
  BY OneRuleMatches
<1>2. rule.retrySafe \in BOOLEAN /\ (rule.retrySafe <=> rule.class \in RetryClasses)
  <2>1. \A k \in {2, 3, 5, 6, 7} :
          Rules(f)[k].retrySafe = TRUE /\ Rules(f)[k].class \in RetryClasses
    BY DEF Rules, Rule, RetryClasses
  <2>2. \A k \in {1, 4, 8, 9, 10, 11} :
          Rules(f)[k].retrySafe = FALSE /\ Rules(f)[k].class \notin RetryClasses
    BY DEF Rules, Rule, RetryClasses
  <2>3. PICK k \in 1..11 : rule = Rules(f)[k]
    BY <1>1
  <2>4. k \in {2, 3, 5, 6, 7} \/ k \in {1, 4, 8, 9, 10, 11}
    BY <2>3
  <2> HIDE DEF rule
  <2> QED
    BY <2>1, <2>2, <2>3, <2>4
<1> HIDE DEF rule
<1> QED
  BY <1>2 DEF Diagnose, rule

LEMMA GuardFits ==
  ASSUME NEW f, NEW r
  PROVE  LET d == GuardedDiagnosis(f, r) IN
           /\ d.retrySafe <=> d.class \in RetryClasses
           /\ d.insight # None => d.insight = Insight(r)
  BY DiagnosisFits DEF GuardedDiagnosis, Diagnose

LEMMA ProposeIffRetry ==
  ASSUME NEW name, NEW class
  PROVE  Propose(name, class) # <<>> <=> (name # <<>> /\ class \in RetryClasses)
  BY DEF Propose, RetryClasses

-----------------------------------------------------------------------------
(* The only object of an answer, wherever the fences are.                   *)

LEMMA OnlyBracketsAreOneObject ==
  ASSUME NEW lines, DOMAIN lines \subseteq Nat, NEW i \in Brackets(lines),
         lines[i] \in Classes
  PROVE  i \in DOMAIN lines /\ \A j \in DOMAIN lines \ {i} : lines[j] \notin Objects
<1> DEFINE opens  == {j \in DOMAIN lines : lines[j] \in Objects \cup {"{"}}
           closes == {j \in DOMAIN lines : lines[j] \in Objects \cup {"}"}}
<1>1. /\ i \in opens \cap closes
      /\ \A j \in opens : i <= j
      /\ \A j \in closes : j <= i
  BY DEF Brackets
<1>2. i \in Nat /\ i \in DOMAIN lines
  BY <1>1
<1>3. ASSUME NEW j \in DOMAIN lines, lines[j] \in Objects
      PROVE  j = i
  <2>1. j \in opens /\ j \in closes
    BY <1>3
  <2> HIDE DEF opens, closes
  <2> QED
    BY <1>1, <1>2, <1>3, <2>1
<1> QED
  BY <1>2, <1>3

LEMMA AdviceIsInAnswer ==
  ASSUME NEW lines, IsSequence(lines), Insight(lines) # None
  PROVE  \E i \in DOMAIN lines :
           /\ lines[i] = Insight(lines)
           /\ \A j \in DOMAIN lines \ {i} :
                lines[j] \in Objects => lines[1] = "fence" /\ j = Len(lines) /\ i < j
<1> DEFINE inner == Unfenced(lines)
           found == {inner[i] : i \in Brackets(inner)} \cap Classes
<1>1. DOMAIN lines = 1..Len(lines) /\ Len(lines) \in Nat
  BY DEF IsSequence
<1>2. found # {} /\ Insight(lines) \in found
  BY DEF Insight
<1>3. PICK k \in Brackets(inner) : inner[k] = Insight(lines) /\ inner[k] \in Classes
  BY <1>2
<1>4. CASE Len(lines) >= 3 /\ lines[1] = "fence"
  <2>1. inner = [i \in 1..(Len(lines) - 2) |-> lines[i + 1]]
    BY <1>1, <1>4 DEF Unfenced, IsSequence
  <2>2. DOMAIN inner = 1..(Len(lines) - 2) /\ DOMAIN inner \subseteq Nat
    BY <1>1, <2>1
  <2>3. k \in DOMAIN inner /\ \A j \in DOMAIN inner \ {k} : inner[j] \notin Objects
    BY <1>3, <2>2, OnlyBracketsAreOneObject
  <2> HIDE DEF inner
  <2>4. k + 1 \in DOMAIN lines /\ k + 1 < Len(lines) /\ lines[k + 1] = Insight(lines)
    BY <1>1, <1>3, <2>1, <2>2, <2>3
  <2>5. lines[1] \notin Objects
    BY <1>4 DEF Objects, Classes, Phrases
  <2>6. ASSUME NEW j \in DOMAIN lines \ {k + 1}, lines[j] \in Objects
        PROVE  j = Len(lines)
    <3>1. CASE j = 1
      BY <2>5, <2>6, <3>1
    <3>2. CASE j # 1 /\ j # Len(lines)
      <4>1. j - 1 \in DOMAIN inner \ {k} /\ inner[j - 1] = lines[j]
        BY <1>1, <2>1, <2>2, <2>3, <2>6, <3>2
      <4> QED
        BY <2>3, <2>6, <4>1
    <3> QED
      BY <3>1, <3>2
  <2> QED
    BY <1>4, <2>4, <2>6
<1>5. CASE ~(Len(lines) >= 3 /\ lines[1] = "fence")
  <2>1. inner = lines
    BY <1>5 DEF Unfenced
  <2> QED
    BY <1>1, <1>3, <2>1, OnlyBracketsAreOneObject
<1> QED
  BY <1>4, <1>5

-----------------------------------------------------------------------------

(* The first of some values that is given.                                  *)
LEMMA LeastIsMin ==
  ASSUME NEW S, S \subseteq Nat, NEW i \in S, \A j \in S : i <= j
  PROVE  Min(S) = i
<1>1. PICK m \in S : m = Min(S) /\ m <= i
  BY MinIsLeast
<1>2. i <= m /\ i \in Nat /\ m \in Nat
  BY <1>1
<1> QED
  BY <1>1, <1>2

LEMMA GivenFirst ==
  ASSUME NEW s, NEW missing, IsSequence(s), NEW i \in DOMAIN s, s[i] # missing,
         \A j \in 1..(i - 1) : s[j] = missing
  PROVE  Given(s, missing) = s[i]
<1> DEFINE I == {j \in 1..Len(s) : s[j] # missing}
<1>1. DOMAIN s = 1..Len(s) /\ Len(s) \in Nat
  BY DEF IsSequence
<1>2. i \in I /\ I \subseteq Nat /\ \A j \in I : i <= j
  BY <1>1
<1>3. Min(I) = i
  BY <1>2, LeastIsMin
<1>4. SelectInSeq(s, LAMBDA v : v # missing) = i
  BY <1>2, <1>3 DEF SelectInSeq
<1> QED
  BY <1>1, <1>4 DEF Given

LEMMA GivenNothing ==
  ASSUME NEW s, NEW missing, \A j \in 1..Len(s) : s[j] = missing
  PROVE  Given(s, missing) = missing
<1>1. SelectInSeq(s, LAMBDA v : v # missing) = 0
  BY DEF SelectInSeq
<1> QED
  BY <1>1 DEF Given

LEMMA OneOfTwo ==
  ASSUME NEW a, NEW b, NEW missing
  PROVE  Given(<<a, b>>, missing) = IF a # missing THEN a ELSE b
<1> DEFINE s == <<a, b>>
<1>1. IsSequence(s) /\ DOMAIN s = 1..2 /\ Len(s) = 2 /\ s[1] = a /\ s[2] = b
  BY DEF IsSequence, ToSet
<1> HIDE DEF s
<1>2. CASE a # missing
  <2>1. \A j \in 1..(1 - 1) : s[j] = missing
    OBVIOUS
  <2> QED
    BY <1>1, <1>2, <2>1, GivenFirst DEF s
<1>3. CASE a = missing /\ b # missing
  <2>1. \A j \in 1..(2 - 1) : s[j] = missing
    BY <1>1, <1>3
  <2> QED
    BY <1>1, <1>3, <2>1, GivenFirst DEF s
<1>4. CASE a = missing /\ b = missing
  <2>1. \A j \in 1..Len(s) : s[j] = missing
    BY <1>1, <1>4
  <2> QED
    BY <1>4, <2>1, GivenNothing DEF s
<1> QED
  BY <1>2, <1>3, <1>4

LEMMA FirstOfThree ==
  ASSUME NEW a, NEW b, NEW c, NEW missing, a # missing
  PROVE  Given(<<a, b, c>>, missing) = a
<1> DEFINE s == <<a, b, c>>
<1>1. IsSequence(s) /\ 1 \in DOMAIN s /\ s[1] = a /\ \A j \in 1..(1 - 1) : s[j] = missing
  BY DEF IsSequence, ToSet
<1> HIDE DEF s
<1> QED
  BY <1>1, GivenFirst DEF s

LEMMA FirstOfFour ==
  ASSUME NEW a, NEW b, NEW c, NEW d, NEW missing, a # missing
  PROVE  Given(<<a, b, c, d>>, missing) = a
<1> DEFINE s == <<a, b, c, d>>
<1>1. IsSequence(s) /\ 1 \in DOMAIN s /\ s[1] = a /\ \A j \in 1..(1 - 1) : s[j] = missing
  BY DEF IsSequence, ToSet
<1> HIDE DEF s
<1> QED
  BY <1>1, GivenFirst DEF s

-----------------------------------------------------------------------------
(* The error of the latest failed run of the node that ran last.            *)

LEMMA LatestFailure ==
  ASSUME NEW s, IsSequence(s), NEW i \in DOMAIN s, s[i] # NoError,
         \A j \in DOMAIN s : j > i => s[j] = NoError
  PROVE  LastFailedRun(s) = i
<1> DEFINE failed == {k \in DOMAIN s : s[k] # NoError}
<1>1. failed \subseteq Nat /\ i \in failed
  BY DEF IsSequence
<1>2. \A j \in failed : j <= i
  BY <1>1
<1>3. PICK k \in failed : k = LastFailedRun(s) /\ \A j \in failed : j <= k
  BY <1>1, <1>2 DEF LastFailedRun
<1> QED
  BY <1>1, <1>2, <1>3

(* x failed, and tells its error only in the run i of the node n, which ran *)
(* last.                                                                    *)
ToldByRun(x, n, i) ==
  /\ Failed(x) /\ x.ids
  /\ x.error = NoError
  /\ n \in DOMAIN x.runData
  /\ x.runData[n].node = x.last /\ x.last # <<>>
  /\ i \in DOMAIN x.runData[n].runs
  /\ x.runData[n].runs[i] # NoError
  /\ \A j \in DOMAIN x.runData[n].runs : j > i => x.runData[n].runs[j] = NoError

LEMMA LastRunIsBelieved ==
  ASSUME NEW x \in Executions, NEW n, NEW i, ToldByRun(x, n, i)
  PROVE  LastNode(x) = x.last /\ ErrorOf(x) = x.runData[n].runs[i]
<1> DEFINE data == x.runData
           Failing(entry) == /\ entry.node # <<>> /\ LastNode(x) \in {<<>>, entry.node}
                             /\ \E k \in DOMAIN entry.runs : entry.runs[k] # NoError
           I == {j \in 1..Len(data) : Failing(data[j])}
<1>1. LastNode(x) = x.last
  BY FirstOfThree DEF LastNode, ToldByRun
<1>2. /\ DOMAIN data = 1..Len(data) /\ Len(data) \in Nat
      /\ \A k \in DOMAIN data : data[k].node = data[n].node => k = n
      /\ IsSequence(data[n].runs)
  BY AnalysisAssumption DEF IsSequence, ToldByRun
<1>3. n \in I /\ I \subseteq Nat
  BY <1>1, <1>2 DEF ToldByRun
<1>4. n \in Nat /\ \A j \in I : j = n
  BY <1>1, <1>2 DEF ToldByRun
<1> HIDE DEF I
<1>5. Min(I) = n
  <2>1. \A j \in I : n <= j
    BY <1>4
  <2> QED
    BY <1>3, <2>1, LeastIsMin
<1>6. n # 0
  BY <1>2 DEF ToldByRun
<1>7. LastFailedRun(data[n].runs) = i
  BY <1>2, LatestFailure DEF ToldByRun
<1>8. RunError(x) = data[n].runs[i]
  <2>1. SelectInSeq(data, LAMBDA entry : Failing(entry)) = n
    BY <1>3, <1>5 DEF SelectInSeq, I
  <2> QED
    BY <1>6, <1>7, <2>1 DEF RunError
<1> QED
  BY <1>1, <1>8 DEF ErrorOf, ToldByRun

(* What EvidenceOfLastRun says of what is made of it.                       *)
TellsOf(f, x, run) ==
  /\ f.node = x.last
  /\ (run.code # None /\ run.code.status \in 100..599) => f.status = run.code.status
  /\ Texts(run) \subseteq f.phrases
  /\ f.phrases \subseteq Texts(run) \cup Texts(x)

LEMMA LastRunIsReported ==
  ASSUME NEW x \in Executions, NEW n, NEW i, ToldByRun(x, n, i),
         NEW run, run = x.runData[n].runs[i], NEW f, f = Normalized(x),
         run.message # None
  PROVE  Normalizable(x) /\ TellsOf(f, x, run)
<1>1. LastNode(x) = x.last /\ ErrorOf(x) = run /\ x.last # <<>>
  BY LastRunIsBelieved DEF ToldByRun
<1>2. MessageOf(x) = run.message /\ run.message # None
  BY <1>1, FirstOfFour DEF MessageOf
<1>3. CodeOf(x) = IF run.code # None THEN run.code ELSE x.code
  BY <1>1, OneOfTwo DEF CodeOf
<1>4. FailedNode(x) = x.last
  BY <1>1, OneOfTwo DEF FailedNode
<1>5. Words(run.message) = run.message
  BY <1>2 DEF Words
<1>6. /\ f.node = x.last /\ f.status = StatusCode(x)
      /\ f.phrases = run.message \cup Words(run.description) \cup Words(x.description)
                       \cup run.stack \cup x.stack
                       \cup (IF CodeOf(x) = None THEN {} ELSE CodeOf(x).phrases)
  BY <1>1, <1>2, <1>4 DEF Normalized
<1>7. Normalizable(x)
  BY <1>2 DEF Normalizable, ToldByRun
<1>8. (run.code # None /\ run.code.status \in 100..599) => f.status = run.code.status
  BY <1>3, <1>6 DEF StatusCode
<1>9. Texts(run) \subseteq f.phrases /\ f.phrases \subseteq Texts(run) \cup Texts(x)
  BY <1>3, <1>5, <1>6 DEF Texts
<1> QED
  BY <1>6, <1>7, <1>8, <1>9 DEF TellsOf

-----------------------------------------------------------------------------
(* Nothing is diagnosed while a request is in progress or before there was  *)
(* one, and what is in progress is what was ingested.                       *)

RequestInv ==
  /\ (outcome = "new" \/ report # None \/ execution # None) =>
       diagnosis = None /\ patch = <<>> /\ preview = <<>>
  /\ outcome = "new" => execution = None /\ report = None

IngestInv ==
  execution # None =>
    /\ execution \in Executions
    /\ Normalizable(execution) =>
         outcome = "reported" /\ report = Normalized(execution)

AnalysisInv ==
  /\ RequestInv
  /\ IngestInv
  /\ PatchIffRetrySafe
  /\ AdviceIsTheOnlyObject

LEMMA AnalysisInit == Init => AnalysisInv
BY DEF Init, AnalysisInv, RequestInv, IngestInv, PatchIffRetrySafe, AdviceIsTheOnlyObject

(* A proposal is a sequence, and nothing is appended to it.                 *)
LEMMA ProposalAlone ==
  ASSUME NEW name, NEW class
  PROVE  LET operations == Propose(name, class) IN
           /\ operations \o <<>> # <<>> <=> operations # <<>>
           /\ <<>> \o operations # <<>> <=> operations # <<>>
<1>1. CASE Propose(name, class) = <<>>
  BY <1>1
<1>2. CASE Propose(name, class) # <<>>
  BY <1>2 DEF Propose
<1> QED
  BY <1>1, <1>2

LEMMA AnswersAreSequences ==
  ASSUME NEW r, r \in Answers
  PROVE  IsSequence(r)
<1>1. r \in Replies \cup {<<>>}
  BY DEF Answers
<1>2. IsSequence(<<>>)
  BY DEF IsSequence
<1> QED
  BY <1>1, <1>2, AnalysisAssumption

(* What a diagnosis leaves, with or without a store.                        *)
LEMMA DiagnosedRight ==
  ASSUME NEW f, NEW r, IsSequence(r)
  PROVE  LET d          == GuardedDiagnosis(f, r)
             operations == Propose(f.node, d.class)
         IN  /\ operations # <<>> <=> d.retrySafe /\ f.node # <<>>
             /\ (d.insight # None /\ r # <<>>) =>
                  \E i \in DOMAIN r :
                    /\ r[i] = d.insight
                    /\ \A j \in DOMAIN r \ {i} :
                         r[j] \in Objects => r[1] = "fence" /\ j = Len(r) /\ i < j
<1> DEFINE d == GuardedDiagnosis(f, r)
<1>1. /\ d.retrySafe <=> d.class \in RetryClasses
      /\ d.insight # None => d.insight = Insight(r)
  BY GuardFits
<1> HIDE DEF d
<1>2. Propose(f.node, d.class) # <<>> <=> (f.node # <<>> /\ d.class \in RetryClasses)
  BY ProposeIffRetry
<1>3. ASSUME d.insight # None
      PROVE  \E i \in DOMAIN r :
               /\ r[i] = d.insight
               /\ \A j \in DOMAIN r \ {i} :
                    r[j] \in Objects => r[1] = "fence" /\ j = Len(r) /\ i < j
  BY <1>1, <1>3, AdviceIsInAnswer
<1> QED
  BY <1>1, <1>2, <1>3 DEF d

LEMMA AnalysisStep ==
  ASSUME AnalysisInv, [Next]_vars
  PROVE  AnalysisInv'
<1> USE DEF AnalysisInv
<1>1. CASE UNCHANGED vars
  BY <1>1 DEF vars, requestVars, analysisVars, dryRunVars, RequestInv, IngestInv,
              PatchIffRetrySafe, AdviceIsTheOnlyObject
<1>2. ASSUME NEW x \in Executions, Ingest(x)
      PROVE  AnalysisInv'
  BY <1>2 DEF Ingest, analysisVars, RequestInv, IngestInv,
              PatchIffRetrySafe, AdviceIsTheOnlyObject
<1>3. ASSUME NEW f \in Failures, Submit(f)
      PROVE  AnalysisInv'
  BY <1>3 DEF Submit, analysisVars, RequestInv, IngestInv,
              PatchIffRetrySafe, AdviceIsTheOnlyObject
<1>4. CASE Analyze
  <2>1. /\ diagnosis = None /\ patch = <<>> /\ preview = <<>> /\ preview' = preview
        /\ execution' = None /\ report' = None /\ outcome' # "new"
        /\ node' = report.node
    BY <1>4 DEF Analyze, Closed, RequestInv
  <2>2. RequestInv' /\ IngestInv'
    BY <2>1 DEF RequestInv, IngestInv
  <2>3. PICK f, r : f = report /\ r = reply' /\ r \in Answers
    BY <1>4 DEF Analyze
  <2>4. IsSequence(r)
    BY <2>3, AnswersAreSequences
  <2>5. CASE diagnosis' = diagnosis
    BY <2>1, <2>2, <2>5 DEF PatchIffRetrySafe, AdviceIsTheOnlyObject
  <2>6. CASE /\ diagnosis' = GuardedDiagnosis(f, r)
             /\ patch' = Propose(f.node, diagnosis'.class)
    <3>1. PICK d : d = GuardedDiagnosis(f, r)
      OBVIOUS
    <3>2. PICK operations : operations = Propose(f.node, d.class)
      OBVIOUS
    <3>3. diagnosis' = d /\ patch' = operations /\ preview' = <<>>
      BY <2>1, <2>6, <3>1, <3>2
    <3>4. operations \o <<>> # <<>> <=> d.retrySafe /\ f.node # <<>>
      BY <2>4, <3>1, <3>2, DiagnosedRight, ProposalAlone
    <3>5. PatchIffRetrySafe'
      BY <2>1, <2>3, <3>3, <3>4 DEF PatchIffRetrySafe
    <3>6. AdviceIsTheOnlyObject'
      BY <2>3, <2>4, <3>1, <3>3, DiagnosedRight DEF AdviceIsTheOnlyObject
    <3> QED
      BY <2>2, <3>5, <3>6
  <2> QED
    BY <1>4, <2>2, <2>3, <2>5, <2>6 DEF Analyze
<1>5. CASE DemoAnalyze
  <2>1. /\ patch = <<>> /\ patch' = patch
        /\ execution' = None /\ report' = None /\ outcome' # "new"
        /\ node' = report.node
    BY <1>5 DEF DemoAnalyze, Closed, RequestInv
  <2>2. RequestInv' /\ IngestInv'
    BY <2>1 DEF RequestInv, IngestInv
  <2>3. PICK f, r : f = report /\ r = reply' /\ r \in Answers
    BY <1>5 DEF DemoAnalyze
  <2>4. IsSequence(r)
    BY <2>3, AnswersAreSequences
  <2>5. PICK d : d = GuardedDiagnosis(f, r)
    OBVIOUS
  <2>6. PICK operations : operations = Propose(f.node, d.class)
    OBVIOUS
  <2>7. diagnosis' = d /\ preview' = operations /\ patch' = <<>>
    BY <1>5, <2>1, <2>3, <2>5, <2>6 DEF DemoAnalyze
  <2>8. <<>> \o operations # <<>> <=> d.retrySafe /\ f.node # <<>>
    BY <2>4, <2>5, <2>6, DiagnosedRight, ProposalAlone
  <2>9. PatchIffRetrySafe'
    BY <2>1, <2>3, <2>7, <2>8 DEF PatchIffRetrySafe
  <2>10. AdviceIsTheOnlyObject'
    BY <2>3, <2>4, <2>5, <2>7, DiagnosedRight DEF AdviceIsTheOnlyObject
  <2> QED
    BY <2>2, <2>9, <2>10
<1>6. ASSUME NEW w \in Workflows, RequestDryRun(w)
      PROVE  AnalysisInv'
  <2>1. /\ outcome # "new" /\ report = None /\ execution = None
        /\ UNCHANGED <<execution, report, node, diagnosis, patch, preview>>
        /\ outcome' # "new" /\ reply' = <<>>
    BY <1>6 DEF RequestDryRun, requestVars, analysisVars, RequestInv
  <2> QED
    BY <2>1 DEF RequestInv, IngestInv, PatchIffRetrySafe, AdviceIsTheOnlyObject
<1>7. CASE Restart
  BY <1>7 DEF Restart, Closed, analysisVars, RequestInv, IngestInv,
              PatchIffRetrySafe, AdviceIsTheOnlyObject
<1> QED
  BY <1>1, <1>2, <1>3, <1>4, <1>5, <1>6, <1>7 DEF Next

(* While a request is in progress nothing is stored for it yet, and it is   *)
(* about what was ingested (routes.py:113-148, incidents.py:72-106).        *)
THEOREM AnalysisInvariant == Spec => []AnalysisInv
<1>1. Init => AnalysisInv
  BY AnalysisInit
<1>2. AnalysisInv /\ [Next]_vars => AnalysisInv'
  BY AnalysisStep
<1> QED
  BY <1>1, <1>2, PTL DEF Spec

(* The provider cannot decide what is retried (ai_diagnoser.py:216-220,     *)
(* patcher.py:31-69): a proposal exactly where the rules call it safe.      *)
THEOREM PatchIffRetrySafeHolds == Spec => []PatchIffRetrySafe
<1>1. AnalysisInv => PatchIffRetrySafe
  BY DEF AnalysisInv
<1> QED
  BY <1>1, AnalysisInvariant, PTL

(* An answer of any length gives advice only if its object stands alone     *)
(* (ai_diagnoser.py:168-190).                                               *)
THEOREM AdviceIsTheOnlyObjectHolds == Spec => []AdviceIsTheOnlyObject
<1>1. AnalysisInv => AdviceIsTheOnlyObject
  BY DEF AnalysisInv
<1> QED
  BY <1>1, AnalysisInvariant, PTL

(* Whatever the other nodes and runs of an execution tell, the latest       *)
(* failed run of its last node is believed (n8n_normalizer.py:103-117).     *)
THEOREM EvidenceOfLastRunHolds == Spec => []EvidenceOfLastRun
<1>1. AnalysisInv => EvidenceOfLastRun
  <2> SUFFICES
        ASSUME IngestInv, NEW x, x = execution, x # None, x.error = NoError,
               NEW n, n \in DOMAIN x.runData,
               NEW i, i \in DOMAIN x.runData[n].runs,
               x.runData[n].node = x.last, x.runData[n].node # <<>>,
               x.runData[n].runs[i] # NoError, x.runData[n].runs[i].message # None,
               \A j \in DOMAIN x.runData[n].runs : j > i => x.runData[n].runs[j] = NoError,
               Failed(x), x.ids
        PROVE  LET run == x.runData[n].runs[i] IN
                 /\ outcome = "reported"
                 /\ report.node = x.runData[n].node
                 /\ (run.code # None /\ run.code.status \in 100..599) =>
                      report.status = run.code.status
                 /\ Texts(run) \subseteq report.phrases
                 /\ report.phrases \subseteq Texts(run) \cup Texts(x)
    BY DEF AnalysisInv, EvidenceOfLastRun
  <2>1. x \in Executions /\ ToldByRun(x, n, i)
    BY DEF IngestInv, ToldByRun
  <2>2. PICK run, f : run = x.runData[n].runs[i] /\ f = Normalized(x)
    OBVIOUS
  <2>3. run.message # None /\ x.runData[n].node = x.last
    BY <2>2
  <2>4. Normalizable(x) /\ TellsOf(f, x, run)
    BY <2>1, <2>2, <2>3, LastRunIsReported
  <2>5. outcome = "reported" /\ report = f
    BY <2>2, <2>4 DEF IngestInv
  <2> QED
    BY <2>2, <2>3, <2>4, <2>5 DEF TellsOf
<1> QED
  BY <1>1, AnalysisInvariant, PTL

-----------------------------------------------------------------------------
(* The node of a report is a name.                                          *)

LEMMA GreatestExists ==
  ASSUME NEW n \in Nat, NEW S, S \subseteq 1 .. n, S # {}
  PROVE  \E i \in S : \A j \in S : j <= i
<1> DEFINE T == {n - i : i \in S}
<1>1. T \subseteq Nat /\ T # {}
  <2>1. \A i \in S : n - i \in Nat
    OBVIOUS
  <2>2. PICK i : i \in S
    OBVIOUS
  <2>3. n - i \in T
    BY <2>2
  <2> QED
    BY <2>1, <2>3
<1>2. PICK m \in T : \A k \in T : m <= k
  BY <1>1, LeastExists
<1>3. PICK i \in S : m = n - i
  BY <1>2
<1>4. \A j \in S : m <= n - j
  BY <1>2
<1> QED
  BY <1>3, <1>4

LEMMA SelectedFits ==
  ASSUME NEW S, S \subseteq Nat \ {0}, NEW i, i = IF S # {} THEN Min(S) ELSE 0
  PROVE  i # 0 => i \in S
  BY MinIsLeast

LEMMA GivenIsName ==
  ASSUME NEW s, IsSequence(s), \A i \in DOMAIN s : IsSequence(s[i])
  PROVE  IsSequence(Given(s, <<>>))
<1> DEFINE I == {j \in 1 .. Len(s) : s[j] # <<>>}
           i == SelectInSeq(s, LAMBDA v : v # <<>>)
<1>1. DOMAIN s = 1 .. Len(s) /\ Len(s) \in Nat
  BY DEF IsSequence
<1>2. i = IF I # {} THEN Min(I) ELSE 0
  BY DEF SelectInSeq
<1>3. I \subseteq Nat \ {0}
  BY <1>1
<1>4. i # 0 => i \in I
  BY <1>2, <1>3, SelectedFits
<1>5. i # 0 => i \in DOMAIN s
  BY <1>1, <1>4
<1>6. Given(s, <<>>) = IF i = 0 THEN <<>> ELSE s[i]
  BY DEF Given
<1>7. IsSequence(<<>>)
  BY DEF IsSequence
<1> HIDE DEF i
<1> QED
  BY <1>5, <1>6, <1>7

LEMMA RunErrorIsTold ==
  ASSUME NEW x \in Executions
  PROVE  IsSequence(RunError(x).node)
<1> DEFINE data == x.runData
           Failing(entry) == /\ entry.node # <<>> /\ LastNode(x) \in {<<>>, entry.node}
                             /\ \E k \in DOMAIN entry.runs : entry.runs[k] # NoError
           I == {j \in 1 .. Len(data) : Failing(data[j])}
           n == SelectInSeq(data, LAMBDA entry : Failing(entry))
<1>1. /\ DOMAIN data = 1 .. Len(data) /\ Len(data) \in Nat
      /\ \A j \in DOMAIN data :
           /\ IsSequence(data[j].runs)
           /\ \A i \in DOMAIN data[j].runs : IsSequence(data[j].runs[i].node)
  BY AnalysisAssumption DEF IsSequence
<1>2. n = IF I # {} THEN Min(I) ELSE 0
  BY DEF SelectInSeq
<1>3. n # 0 => n \in I
  <2>1. I \subseteq Nat \ {0}
    BY <1>1
  <2> HIDE DEF I, n
  <2> QED
    BY <1>2, <2>1, SelectedFits
<1>4. RunError(x) = IF n = 0 THEN NoError ELSE data[n].runs[LastFailedRun(data[n].runs)]
  BY DEF RunError
<1> HIDE DEF n
<1>5. CASE n = 0
  BY <1>4, <1>5 DEF NoError, IsSequence
<1>6. CASE n # 0
  <2>1. PICK runs : runs = data[n].runs
    OBVIOUS
  <2>2. /\ IsSequence(runs) /\ \A i \in DOMAIN runs : IsSequence(runs[i].node)
        /\ \E k \in DOMAIN runs : runs[k] # NoError
    BY <1>1, <1>3, <1>6, <2>1
  <2> DEFINE failed == {k \in DOMAIN runs : runs[k] # NoError}
  <2>3. DOMAIN runs = 1 .. Len(runs) /\ Len(runs) \in Nat
    BY <2>2 DEF IsSequence
  <2>4. failed \subseteq 1 .. Len(runs) /\ failed # {}
    BY <2>2, <2>3
  <2>5. PICK k \in failed : \A j \in failed : j <= k
    BY <2>3, <2>4, GreatestExists
  <2>6. LastFailedRun(runs) \in failed
    BY <2>5 DEF LastFailedRun
  <2> QED
    BY <1>4, <1>6, <2>1, <2>2, <2>6
<1> QED
  BY <1>5, <1>6

LEMMA ReportedNodeIsName ==
  ASSUME NEW x \in Executions
  PROVE  IsSequence(Normalized(x).node)
<1>1. /\ IsSequence(x.last) /\ IsSequence(x.error.node) /\ IsSequence(x.details.node)
  BY AnalysisAssumption
<1>2. IsSequence(LastNode(x))
  <2> DEFINE s == <<x.last, x.error.node, x.details.node>>
  <2>1. IsSequence(s) /\ \A i \in DOMAIN s : IsSequence(s[i])
    <3>1. DOMAIN s = 1 .. 3 /\ s[1] = x.last /\ s[2] = x.error.node /\ s[3] = x.details.node
      OBVIOUS
    <3>2. IsSequence(s)
      BY DEF IsSequence, ToSet
    <3> HIDE DEF s
    <3> QED
      BY <1>1, <3>1, <3>2
  <2> HIDE DEF s
  <2>2. IsSequence(Given(s, <<>>))
    BY <2>1, GivenIsName
  <2> QED
    BY <2>2 DEF LastNode, s
<1>3. IsSequence(ErrorOf(x).node)
  BY <1>1, RunErrorIsTold DEF ErrorOf
<1>4. IsSequence(FailedNode(x))
  BY <1>2, <1>3, OneOfTwo DEF FailedNode
<1> QED
  BY <1>4 DEF Normalized

-----------------------------------------------------------------------------
(* The stored patch is the planner's for the failed node, and a dry run     *)
(* that passes has made of the snapshot what the patch says.                *)

PatchInv ==
  /\ limit \in Limits
  /\ report # None => IsSequence(report.node)
  /\ patch # <<>> => IsSequence(node) /\ \E class : patch = Propose(node, class)

DryRunInv ==
  /\ outcome = "workflow_error" =>
       patch # <<>> /\ workflow \in Workflows /\ ~DryRunPasses(workflow, patch)
  /\ result # NoResult =>
       /\ patch # <<>> /\ workflow \in Workflows
       /\ DryRunPasses(workflow, patch)
       /\ result = DryRunResult(workflow, patch)

LEMMA PatchStep ==
  ASSUME PatchInv, RequestInv, [Next]_vars
  PROVE  PatchInv'
<1> USE DEF PatchInv
<1>1. CASE UNCHANGED vars
  BY <1>1 DEF vars, requestVars, analysisVars, dryRunVars
<1>2. ASSUME NEW x \in Executions, Ingest(x)
      PROVE  PatchInv'
  <2>1. report' = report \/ report' = Normalized(x)
    BY <1>2 DEF Ingest
  <2>2. IsSequence(Normalized(x).node)
    BY ReportedNodeIsName
  <2>3. UNCHANGED <<limit, node, patch>>
    BY <1>2 DEF Ingest, analysisVars
  <2> QED
    BY <2>1, <2>2, <2>3
<1>3. ASSUME NEW f \in Failures, Submit(f)
      PROVE  PatchInv'
  <2>1. IsSequence(f.node)
    BY AnalysisAssumption
  <2> QED
    BY <1>3, <2>1 DEF Submit, analysisVars
<1>4. CASE Analyze
  <2>1. patch = <<>> /\ report' = None /\ limit' = limit /\ node' = report.node
        /\ IsSequence(report.node)
    BY <1>4 DEF Analyze, Closed, RequestInv
  <2>2. PICK f, r : f = report /\ r = reply'
    OBVIOUS
  <2>3. patch' = patch \/ patch' = Propose(f.node, GuardedDiagnosis(f, r).class)
    BY <1>4, <2>2 DEF Analyze
  <2> QED
    BY <2>1, <2>2, <2>3
<1>5. CASE DemoAnalyze
  BY <1>5 DEF DemoAnalyze, Closed, RequestInv
<1>6. ASSUME NEW w \in Workflows, RequestDryRun(w)
      PROVE  PatchInv'
  BY <1>6 DEF RequestDryRun, requestVars, analysisVars
<1>7. CASE Restart
  BY <1>7 DEF Restart, Closed, analysisVars
<1> QED
  BY <1>1, <1>2, <1>3, <1>4, <1>5, <1>6, <1>7 DEF Next

LEMMA DryRunStep ==
  ASSUME DryRunInv, RequestInv, [Next]_vars
  PROVE  DryRunInv'
<1> USE DEF DryRunInv
<1>1. CASE UNCHANGED vars
  BY <1>1 DEF vars, analysisVars, dryRunVars
<1>2. ASSUME NEW x \in Executions, Ingest(x)
      PROVE  DryRunInv'
  BY <1>2 DEF Ingest, analysisVars, dryRunVars, RequestInv
<1>3. ASSUME NEW f \in Failures, Submit(f)
      PROVE  DryRunInv'
  BY <1>3 DEF Submit, analysisVars, dryRunVars, RequestInv
<1>4. CASE Analyze
  <2>1. result' = NoResult /\ outcome' # "workflow_error"
    BY <1>4 DEF Analyze, dryRunVars, RequestInv
  <2> QED
    BY <2>1
<1>5. CASE DemoAnalyze
  <2>1. result' = NoResult /\ outcome' # "workflow_error"
    BY <1>5 DEF DemoAnalyze, dryRunVars, RequestInv
  <2> QED
    BY <2>1
<1>6. ASSUME NEW w \in Workflows, RequestDryRun(w)
      PROVE  DryRunInv'
  <2>1. patch # <<>> /\ patch' = patch /\ workflow' = w
    BY <1>6 DEF RequestDryRun, analysisVars
  <2>2. CASE result' = NoResult /\ outcome' = "patch_error"
    BY <2>2
  <2>3. CASE /\ result' = IF DryRunPasses(w, patch) THEN DryRunResult(w, patch) ELSE NoResult
             /\ outcome' = IF DryRunPasses(w, patch) THEN "passed" ELSE "workflow_error"
    BY <2>1, <2>3
  <2> QED
    BY <1>6, <2>2, <2>3 DEF RequestDryRun
<1>7. CASE Restart
  BY <1>7 DEF Restart, analysisVars, dryRunVars, RequestInv
<1> QED
  BY <1>1, <1>2, <1>3, <1>4, <1>5, <1>6, <1>7 DEF Next

(* A stored patch is what the planner made for the failed node, and a dry   *)
(* run that passed shows the snapshot with that patch (patcher.py:23-87,    *)
(* workflow_dry_run.py:30-96).                                              *)
THEOREM DryRunInvariant == Spec => [](PatchInv /\ DryRunInv)
<1>1. Init => PatchInv /\ DryRunInv
  BY DEF Init, PatchInv, DryRunInv
<1>2. AnalysisInv => RequestInv
  BY DEF AnalysisInv
<1>3. PatchInv /\ DryRunInv /\ RequestInv /\ [Next]_vars => (PatchInv /\ DryRunInv)'
  BY PatchStep, DryRunStep
<1> QED
  BY <1>1, <1>2, <1>3, AnalysisInvariant, PTL DEF Spec

-----------------------------------------------------------------------------
(* The planner, the validator and the dry-run engine agree.                 *)

LEMMA OneNamed ==
  ASSUME NEW w \in Workflows, NEW name
  PROVE  /\ AreNodes(w.nodes)
         /\ Cardinality(NodesNamed(w.nodes, name)) = 1 <=>
              \E t : NodesNamed(w.nodes, name) = {t}
<1>1. AreNodes(w.nodes)
  BY AnalysisAssumption DEF AreNodes
<1>2. DOMAIN w.nodes = 1 .. Len(w.nodes) /\ Len(w.nodes) \in Nat
  BY <1>1 DEF AreNodes, IsSequence
<1>3. IsFiniteSet(DOMAIN w.nodes)
  BY <1>2, FS_Interval
<1>4. IsFiniteSet(NodesNamed(w.nodes, name))
  <2>1. NodesNamed(w.nodes, name) \in SUBSET (DOMAIN w.nodes)
    BY DEF NodesNamed
  <2> QED
    BY <1>3, <2>1, FS_Subset
<1> QED
  BY <1>1, <1>4, FS_Singleton

(* Neither when a patch is made nor later does the validator refuse it for  *)
(* anything but the limit (incidents.py:77, workflow_dry_run.py:35).        *)
THEOREM OnlyTheLimitRefusesHolds == Spec => OnlyTheLimitRefuses
<1>1. ASSUME PatchInv, [Next]_vars, outcome' = "patch_error", outcome # "patch_error"
      PROVE  limit < 3
  <2>1. limit \in Nat
    BY <1>1, AnalysisAssumption DEF PatchInv
  <2>2. ASSUME NEW name, NEW class, IsSequence(name), Propose(name, class) # <<>>,
               ~Valid(Propose(name, class), limit)
        PROVE  limit < 3
    <3>1. PICK n, operations : /\ operations = Propose(name, class)
                               /\ Planned(operations, n, name)
                               /\ name # <<>>
      BY <2>2, ProposalIsPlanned
    <3>2. PICK max : max = limit
      OBVIOUS
    <3>3. max >= 3 => Valid(operations, max)
      BY <2>1, <2>2, <3>1, <3>2, PlannedIsValid
    <3> QED
      BY <2>1, <2>2, <3>1, <3>2, <3>3
  <2>3. CASE Analyze
    <3>1. PICK f, r : f = report /\ r = reply'
      OBVIOUS
    <3>2. PICK class : class = GuardedDiagnosis(f, r).class
      OBVIOUS
    <3>3. Propose(f.node, class) # <<>> /\ ~Valid(Propose(f.node, class), limit)
      BY <1>1, <2>3, <3>1, <3>2 DEF Analyze
    <3>4. IsSequence(f.node)
      BY <1>1, <2>3, <3>1 DEF Analyze, PatchInv
    <3> QED
      BY <2>2, <3>3, <3>4
  <2>4. ASSUME NEW w \in Workflows, RequestDryRun(w)
        PROVE  limit < 3
    <3>1. patch # <<>> /\ ~Valid(patch, limit)
      BY <1>1, <2>4 DEF RequestDryRun
    <3> QED
      BY <1>1, <2>2, <3>1 DEF PatchInv
  <2>5. \/ Analyze
        \/ \E w \in Workflows : RequestDryRun(w)
    BY <1>1 DEF Next, vars, Ingest, Submit, DemoAnalyze, Restart
  <2> QED
    BY <2>3, <2>4, <2>5
<1>2. PatchInv /\ [Next]_vars =>
        [outcome' = "patch_error" /\ outcome # "patch_error" => limit < 3]_vars
  BY <1>1
<1> QED
  BY <1>2, DryRunInvariant, PTL DEF Spec, OnlyTheLimitRefuses

LEMMA GoodPasses ==
  ASSUME NEW w \in Workflows, NEW operations, NEW n, NEW name,
         Planned(operations, n, name), IsSequence(name), name # <<>>,
         w.id \in {NoId, WorkflowId}, w.objects,
         \A i \in DOMAIN w.nodes : w.nodes[i].name # <<>>,
         Cardinality(NodesNamed(w.nodes, name)) = 1
  PROVE  DryRunPasses(w, operations)
<1>1. PICK nodes : nodes = w.nodes
  OBVIOUS
<1>2. AreNodes(nodes) /\ \E t : NodesNamed(nodes, name) = {t}
  BY <1>1, OneNamed
<1>3. PICK t : NodesNamed(nodes, name) = {t}
  BY <1>2
<1>4. /\ t \in DOMAIN nodes
      /\ \A i \in DOMAIN operations :
           /\ WellEscaped(operations[i].segment)
           /\ Unescape(operations[i].segment) = name
           /\ TargetOf(nodes, operations[i]) = t
      /\ \E retry : /\ Applied(nodes, operations) = Retried(nodes, t, retry)
                    /\ Bounded(nodes[t].retry, retry)
  <2>1. /\ t \in DOMAIN nodes
        /\ \E retry : /\ Applied(nodes, operations) = Retried(nodes, t, retry)
                      /\ Bounded(nodes[t].retry, retry)
    BY <1>2, <1>3, PlannedRetries
  <2>2. \A i \in DOMAIN operations :
           /\ WellEscaped(operations[i].segment)
           /\ Unescape(operations[i].segment) = name
           /\ TargetOf(nodes, operations[i]) = t
    BY SMTT(30), <1>2, <1>3, PlannedRetries
  <2> QED
    BY <2>1, <2>2
<1>5. PICK retry : /\ Applied(nodes, operations) = Retried(nodes, t, retry)
                   /\ Bounded(nodes[t].retry, retry)
  BY <1>4
<1>6. DOMAIN retry = Fields
  BY <1>5 DEF Bounded
<1>7. PICK after : after = Retried(nodes, t, retry)
  OBVIOUS
<1>8. DryRunResult(w, operations).nodes = after
  <2>1. DOMAIN w = {"id", "nodes", "objects"}
    BY AnalysisAssumption
  <2>2. Applied(w.nodes, operations) = after
    BY <1>1, <1>5, <1>7
  <2> QED
    BY <2>1, <2>2 DEF DryRunResult, Applied
<1>9. /\ DOMAIN after = DOMAIN nodes
      /\ Len(after) = Len(nodes)
      /\ \A i \in DOMAIN nodes \ {t} : after[i] = nodes[i]
      /\ after[t] = [nodes[t] EXCEPT !.retry = retry]
      /\ after[t].name = nodes[t].name
      /\ after[t].retry = retry
      /\ Protected(after[t]) = Protected(nodes[t])
  BY <1>2, <1>4, <1>6, <1>7, RetriedKeeps
<1>10. {TargetOf(nodes, operations[i]) : i \in DOMAIN operations} = {t}
  <2>1. 1 \in DOMAIN operations
    BY DEF Planned
  <2> QED
    BY <1>4, <2>1
<1>11. ProtectedUnchanged(nodes, after, {t})
  BY <1>9 DEF ProtectedUnchanged
<1>12. \A i \in DOMAIN operations : Resolves(nodes, operations[i])
  BY <1>1, <1>4 DEF Resolves
<1>13. WellFormed(w)
  <2>1. nodes # <<>>
    BY <1>4
  <2> QED
    BY <1>1, <2>1 DEF WellFormed
<1> QED
  BY <1>1, <1>8, <1>10, <1>11, <1>12, <1>13 DEF DryRunPasses

RetriedIn(w, i, retry) == [w EXCEPT !.nodes[i].retry = retry]

(* What OnlyFailedNodeChanges says of a snapshot and its patched copy.      *)
OnlyRetries(w, after, name) ==
  \E i \in DOMAIN w.nodes :
    /\ NodesNamed(w.nodes, name) = {i}
    /\ after = RetriedIn(w, i, after.nodes[i].retry)
    /\ Bounded(w.nodes[i].retry, after.nodes[i].retry)

LEMMA PassedChanges ==
  ASSUME NEW w \in Workflows, NEW operations, NEW n, NEW name,
         Planned(operations, n, name), IsSequence(name), name # <<>>,
         DryRunPasses(w, operations)
  PROVE  OnlyRetries(w, DryRunResult(w, operations), name)
<1>1. PICK nodes, copy : nodes = w.nodes /\ copy = DryRunResult(w, operations)
  OBVIOUS
<1>2. PICK segment : segment = EscapePathSegment(name)
  OBVIOUS
<1>3. Unescape(segment) = name
  BY <1>2, EscapeRoundTrip DEF IsSequence
<1>4. Cardinality(NodesNamed(nodes, name)) = 1
  <2>1. 1 \in DOMAIN operations /\ operations[1].segment = segment
    BY <1>2 DEF Planned
  <2>2. Resolves(nodes, operations[1])
    BY <1>1, <2>1 DEF DryRunPasses
  <2> QED
    BY <1>3, <2>1, <2>2 DEF Resolves
<1>5. AreNodes(nodes) /\ \E t : NodesNamed(nodes, name) = {t}
  BY <1>1, <1>4, OneNamed
<1>6. PICK t : NodesNamed(nodes, name) = {t}
  BY <1>5
<1>7. /\ t \in DOMAIN nodes
      /\ \E retry : /\ Applied(nodes, operations) = Retried(nodes, t, retry)
                    /\ Bounded(nodes[t].retry, retry)
  BY <1>5, <1>6, PlannedRetries
<1>8. PICK retry : /\ Applied(nodes, operations) = Retried(nodes, t, retry)
                   /\ Bounded(nodes[t].retry, retry)
  BY <1>7
<1>9. PICK after : after = Retried(nodes, t, retry)
  OBVIOUS
<1>10. DOMAIN w = {"id", "nodes", "objects"}
  BY AnalysisAssumption
<1>11. copy = [w EXCEPT !.nodes = after] /\ copy.nodes = after
  <2>1. FoldLeft(ApplyField, w.nodes, operations) = after
    BY <1>1, <1>8, <1>9 DEF Applied
  <2>2. copy = [w EXCEPT !.nodes = after]
    BY <1>1, <2>1 DEF DryRunResult
  <2> QED
    BY <1>10, <2>2
<1>12. after[t].retry = retry
  <2>1. DOMAIN nodes[t] = {"name", "retry"}
    BY <1>5, <1>7 DEF AreNodes
  <2> QED
    BY <1>7, <1>9, <2>1 DEF Retried
<1>13. copy = RetriedIn(w, t, copy.nodes[t].retry)
  <2>1. copy.nodes[t].retry = retry
    BY <1>11, <1>12
  <2>2. RetriedIn(w, t, retry) = [w EXCEPT !.nodes = Retried(nodes, t, retry)]
    BY <1>1 DEF Retried, RetriedIn
  <2> QED
    BY <1>9, <1>11, <2>1, <2>2
<1>14. Bounded(nodes[t].retry, copy.nodes[t].retry)
  BY <1>8, <1>11, <1>12
<1> QED
  BY <1>1, <1>6, <1>7, <1>13, <1>14 DEF OnlyRetries

(* A dry run that passes has changed the retry settings of the one node of  *)
(* that name, whatever characters it has, and nothing else (patcher.py:15,  *)
(* workflow_dry_run.py:135-211).                                            *)
THEOREM OnlyFailedNodeChangesHolds == Spec => []OnlyFailedNodeChanges
<1>1. PatchInv /\ DryRunInv => OnlyFailedNodeChanges
  <2> SUFFICES ASSUME PatchInv, DryRunInv, result # NoResult
               PROVE  OnlyFailedNodeChanges
    BY DEF OnlyFailedNodeChanges
  <2>1. /\ patch # <<>> /\ workflow \in Workflows
        /\ DryRunPasses(workflow, patch) /\ result = DryRunResult(workflow, patch)
    BY DEF DryRunInv
  <2>2. PICK class : IsSequence(node) /\ patch = Propose(node, class)
    BY <2>1 DEF PatchInv
  <2>3. PICK n : Planned(patch, n, node) /\ node # <<>>
    BY <2>1, <2>2, ProposalIsPlanned
  <2>4. OnlyRetries(workflow, result, node)
    BY <2>1, <2>2, <2>3, PassedChanges
  <2>5. PICK i \in DOMAIN workflow.nodes :
          /\ NodesNamed(workflow.nodes, node) = {i}
          /\ result = RetriedIn(workflow, i, result.nodes[i].retry)
          /\ Bounded(workflow.nodes[i].retry, result.nodes[i].retry)
    BY <2>4 DEF OnlyRetries
  <2>6. result = [workflow EXCEPT !.nodes[i].retry = result.nodes[i].retry]
    BY <2>5 DEF RetriedIn
  <2>7. PICK before, after : /\ before = workflow.nodes[i].retry
                             /\ after = result.nodes[i].retry
    OBVIOUS
  <2>8. /\ after["retryOnFail"] = TRUE
        /\ after["maxTries"] \in 1..5
        /\ \/ after["waitBetweenTries"] = before["waitBetweenTries"]
           \/ after["waitBetweenTries"] \in Waits
    BY <2>5, <2>7 DEF Bounded
  <2> QED
    BY <2>5, <2>6, <2>7, <2>8 DEF OnlyFailedNodeChanges
<1> QED
  BY <1>1, DryRunInvariant, PTL

(* No check of the engine refuses a workflow that is the right one, well    *)
(* formed, and has one node of the failed name (workflow_dry_run.py:114).   *)
THEOREM GoodWorkflowPassesHolds == Spec => []GoodWorkflowPasses
<1>1. PatchInv /\ DryRunInv => GoodWorkflowPasses
  <2> SUFFICES ASSUME PatchInv, DryRunInv, outcome = "workflow_error",
                      workflow.id \in {NoId, WorkflowId}, workflow.objects,
                      \A i \in DOMAIN workflow.nodes : workflow.nodes[i].name # <<>>,
                      Cardinality(NodesNamed(workflow.nodes, node)) = 1
               PROVE  FALSE
    BY DEF GoodWorkflowPasses, NodesNamed
  <2>1. patch # <<>> /\ workflow \in Workflows /\ ~DryRunPasses(workflow, patch)
    BY DEF DryRunInv
  <2>2. PICK class : IsSequence(node) /\ patch = Propose(node, class)
    BY <2>1 DEF PatchInv
  <2>3. PICK n : Planned(patch, n, node) /\ node # <<>>
    BY <2>1, <2>2, ProposalIsPlanned
  <2> QED
    BY <2>1, <2>2, <2>3, GoodPasses
<1> QED
  BY <1>1, DryRunInvariant, PTL
=============================================================================
