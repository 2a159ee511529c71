-------------------------- MODULE TranscriptProofs --------------------------
(***************************************************************************)
(* Theorems about validate_transcript and repair_tool_history, for every   *)
(* set of tool calls and histories of any length.                          *)
(***************************************************************************)
EXTENDS MCTranscript, SequenceTheorems, FiniteSetTheorems, NaturalsInduction, TLAPS

\* The messages a history is made of.
Written == {UserMessage, TextMessage, EmptyMessage}
             \cup {ToolUseMessage(c) : c \in ToolCalls}
             \cup {ToolResultMessage(c, "recorded") : c \in ToolCalls}

-----------------------------------------------------------------------------
(***************************************************************************)
(* Induction over the positions of a sequence, and the walk of             *)
(* validate_transcript.                                                    *)
(***************************************************************************)
LEMMA LeastOf ==
    ASSUME NEW S \in SUBSET Nat, S # {}
    PROVE  \E m \in S : \A k \in S : m <= k
<1> DEFINE R == OpToRel(<, Nat)
<1>1. IsWellFoundedOn(R, Nat)
  BY NatLessThanWellFounded
<1>2. \A x, y \in Nat : <<y, x>> \in R <=> y < x
  BY DEF OpToRel
<1> HIDE DEF R
<1>3. PICK x \in S : \A y \in S : ~(<<y, x>> \in R)
  BY <1>1, WFMin, Zenon
<1>4. \A y \in S : ~(y < x)
  BY <1>2, <1>3
<1>5. \A y \in S : x <= y
  BY <1>4
<1> QED BY <1>5

LEMMA UpToEnd ==
    ASSUME NEW n \in Nat, NEW S, 0 \in S, \A i \in 0..n : i < n /\ i \in S => i + 1 \in S
    PROVE  0..n \subseteq S
<1> DEFINE Bad == {i \in 0..n : i \notin S}
<1> SUFFICES ASSUME Bad # {} PROVE FALSE
  OBVIOUS
<1>1. Bad \in SUBSET Nat
  OBVIOUS
<1>2. PICK m \in Bad : \A k \in Bad : m <= k
  BY <1>1, LeastOf
<1>3. m \in 0..n /\ m \notin S /\ m # 0
  OBVIOUS
<1>4. m - 1 \in 0..n /\ m - 1 < n /\ ~(m <= m - 1) /\ (m - 1) + 1 = m
  BY <1>3
<1>5. m - 1 \in S
  BY <1>2, <1>4
<1> QED BY <1>3, <1>4, <1>5

Nothing == [pending |-> <<>>, error |-> "None"]

WalkOf(m, walk) ==
    walk = [i \in 0..Len(m) |-> IF i = 0 THEN Nothing ELSE ValidateStep(m, walk[i - 1], i)]

\* The recursion of validate_transcript has a solution.
LEMMA WalkExists ==
    ASSUME NEW m \in Seq(Messages)
    PROVE  \E walk : WalkOf(m, walk)
<1> DEFINE Upto(k, f) == f = [i \in 0..k |-> IF i = 0 THEN Nothing ELSE ValidateStep(m, f[i - 1], i)]
           n == Len(m)
           S == {k \in 0..n : \E f : Upto(k, f)}
<1>1. n \in Nat
  OBVIOUS
<1>2. 0 \in S
  <2>1. Upto(0, [i \in 0..0 |-> Nothing])
    OBVIOUS
  <2>2. \E f : Upto(0, f)
    BY <2>1, Zenon
  <2>3. 0 \in 0..n
    BY <1>1
  <2> QED BY <2>2, <2>3
<1>3. ASSUME NEW k \in 0..n, k < n, k \in S
      PROVE  k + 1 \in S
  <2>1. PICK f : Upto(k, f)
    BY <1>3
  <2> DEFINE g == [i \in 0..(k + 1) |-> IF i = k + 1 THEN ValidateStep(m, f[k], k + 1) ELSE f[i]]
  <2>2. \A i \in 0..k : f[i] = IF i = 0 THEN Nothing ELSE ValidateStep(m, f[i - 1], i)
    BY <2>1
  <2> HIDE DEF Upto
  <2>3. \A i \in 0..(k + 1) : g[i] = IF i = 0 THEN Nothing ELSE ValidateStep(m, g[i - 1], i)
    <3> TAKE i \in 0..(k + 1)
    <3>1. CASE i = k + 1
      <4>1. i # 0 /\ i - 1 = k /\ k \in 0..(k + 1) /\ k # k + 1
        BY <3>1, <1>1
      <4>2. g[i] = ValidateStep(m, f[k], k + 1) /\ g[i - 1] = f[k]
        BY <3>1, <4>1
      <4> QED BY <3>1, <4>1, <4>2
    <3>2. CASE i # k + 1
      <4>1. i \in 0..k /\ (i # 0 => i - 1 \in 0..k)
        BY <3>2, <1>1
      <4>2. g[i] = f[i] /\ (i # 0 => g[i - 1] = f[i - 1])
        BY <3>2, <4>1, <1>1
      <4> QED BY <2>2, <4>1, <4>2
    <3> QED BY <3>1, <3>2
  <2>4. Upto(k + 1, g)
    <3>1. g = [i \in 0..(k + 1) |-> g[i]]
      OBVIOUS
    <3> HIDE DEF g
    <3> QED BY <2>3, <3>1 DEF Upto
  <2>5. k + 1 \in 0..n
    BY <1>1, <1>3
  <2> HIDE DEF g
  <2> QED BY <2>4, <2>5
<1>4. n \in S
  <2> HIDE DEF S
  <2>1. 0..n \subseteq S
    BY <1>1, <1>2, <1>3, UpToEnd
  <2> QED BY <2>1, <1>1
<1> QED BY <1>4 DEF WalkOf

LEMMA ValidateWalks ==
    ASSUME NEW m \in Seq(Messages)
    PROVE  \E walk : /\ WalkOf(m, walk)
                     /\ validate_transcript(m) =
                          IF walk[Len(m)].error = "None" /\ walk[Len(m)].pending # <<>>
                          THEN "UnresolvedToolCall" ELSE walk[Len(m)].error
<1> DEFINE walk[i \in 0..Len(m)] ==
             IF i = 0 THEN [pending |-> <<>>, error |-> "None"] ELSE ValidateStep(m, walk[i - 1], i)
<1>1. \E f : f = [i \in 0..Len(m) |-> IF i = 0 THEN [pending |-> <<>>, error |-> "None"]
                                      ELSE ValidateStep(m, f[i - 1], i)]
  BY WalkExists, Zenon DEF WalkOf, Nothing
<1>2. walk = [i \in 0..Len(m) |-> IF i = 0 THEN [pending |-> <<>>, error |-> "None"]
                                  ELSE ValidateStep(m, walk[i - 1], i)]
  BY <1>1, Zenon
<1>3. validate_transcript(m) = IF walk[Len(m)].error = "None" /\ walk[Len(m)].pending # <<>>
                               THEN "UnresolvedToolCall" ELSE walk[Len(m)].error
  BY Zenon DEF validate_transcript
<1> HIDE DEF walk
<1>4. WalkOf(m, walk)
  BY <1>2, Zenon DEF WalkOf, Nothing
<1> QED BY <1>3, <1>4

-----------------------------------------------------------------------------
(***************************************************************************)
(* The repaired copy: a call and its reply stand together, and no reply    *)
(* stands alone.                                                           *)
(***************************************************************************)
Paired(r) ==
    /\ r \in Seq(Messages)
    /\ \A i \in 1..Len(r) :
         /\ r[i].block = "ToolUse" =>
              /\ r[i].role = "Assistant" /\ i + 1 \in 1..Len(r)
              /\ r[i + 1].block = "ToolResult"
         /\ r[i].block = "ToolResult" =>
              /\ r[i].role = "Tool" /\ i - 1 \in 1..Len(r)
              /\ r[i - 1].block = "ToolUse" /\ r[i - 1].call = r[i].call

LEMMA PairedJoin ==
    ASSUME NEW p, NEW q, Paired(p), Paired(q)
    PROVE  Paired(p \o q)
<1> DEFINE r == p \o q
           n == Len(p)
           l == Len(q)
<1>1. p \in Seq(Messages) /\ q \in Seq(Messages) /\ n \in Nat /\ l \in Nat
  BY DEF Paired
<1>2. /\ r \in Seq(Messages) /\ Len(r) = n + l
      /\ \A i \in 1..n : r[i] = p[i]
      /\ \A i \in (n + 1)..(n + l) : r[i] = q[i - n]
  BY <1>1
<1> HIDE DEF r, n, l
<1> SUFFICES ASSUME NEW i \in 1..(n + l)
             PROVE  /\ r[i].block = "ToolUse" =>
                         /\ r[i].role = "Assistant" /\ i + 1 \in 1..(n + l)
                         /\ r[i + 1].block = "ToolResult"
                    /\ r[i].block = "ToolResult" =>
                         /\ r[i].role = "Tool" /\ i - 1 \in 1..(n + l)
                         /\ r[i - 1].block = "ToolUse" /\ r[i - 1].call = r[i].call
  BY <1>2 DEF Paired, r
<1>3. CASE i \in 1..n
  <2>1. /\ p[i].block = "ToolUse" =>
             /\ p[i].role = "Assistant" /\ i + 1 \in 1..n
             /\ p[i + 1].block = "ToolResult"
        /\ p[i].block = "ToolResult" =>
             /\ p[i].role = "Tool" /\ i - 1 \in 1..n
             /\ p[i - 1].block = "ToolUse" /\ p[i - 1].call = p[i].call
    BY <1>3 DEF Paired, n
  <2>2. \A k \in 1..n : k \in 1..(n + l)
    BY <1>1
  <2> QED BY <1>2, <1>3, <2>1, <2>2
<1>4. CASE i \notin 1..n
  <2> DEFINE k == i - n
  <2>1. k \in 1..l /\ i \in (n + 1)..(n + l) /\ r[i] = q[k]
    BY <1>1, <1>2, <1>4
  <2>2. /\ q[k].block = "ToolUse" =>
             /\ q[k].role = "Assistant" /\ k + 1 \in 1..l
             /\ q[k + 1].block = "ToolResult"
        /\ q[k].block = "ToolResult" =>
             /\ q[k].role = "Tool" /\ k - 1 \in 1..l
             /\ q[k - 1].block = "ToolUse" /\ q[k - 1].call = q[k].call
    BY <2>1 DEF Paired, l
  <2>3. k + 1 \in 1..l => i + 1 \in (n + 1)..(n + l) /\ (i + 1) - n = k + 1
    BY <1>1, <2>1
  <2>4. k - 1 \in 1..l => i - 1 \in (n + 1)..(n + l) /\ (i - 1) - n = k - 1
    BY <1>1, <2>1
  <2>5. k + 1 \in 1..l => r[i + 1] = q[k + 1] /\ i + 1 \in 1..(n + l)
    BY <1>1, <1>2, <2>3
  <2>6. k - 1 \in 1..l => r[i - 1] = q[k - 1] /\ i - 1 \in 1..(n + l)
    BY <1>1, <1>2, <2>4
  <2> HIDE DEF k
  <2> QED BY <2>1, <2>2, <2>5, <2>6
<1> QED BY <1>3, <1>4

\* The walk over such a copy has at most the call it just passed in hand.
LEMMA PairedIsValid ==
    ASSUME NEW r, Paired(r)
    PROVE  ValidTranscript(r)
<1> DEFINE n == Len(r)
           Hand(k) == IF k > 0 /\ r[k].block = "ToolUse" THEN <<r[k].call>> ELSE <<>>
<1>1. r \in Seq(Messages) /\ n \in Nat
  BY DEF Paired
<1>2. PICK walk : /\ WalkOf(r, walk)
                  /\ validate_transcript(r) =
                       IF walk[n].error = "None" /\ walk[n].pending # <<>>
                       THEN "UnresolvedToolCall" ELSE walk[n].error
  BY <1>1, ValidateWalks
<1> DEFINE S == {k \in 0..n : walk[k] = [pending |-> Hand(k), error |-> "None"]}
<1>3. \A i \in 0..n : walk[i] = IF i = 0 THEN Nothing ELSE ValidateStep(r, walk[i - 1], i)
  BY <1>2 DEF WalkOf
<1>4. 0 \in S
  BY <1>1, <1>3 DEF Nothing
<1>5. ASSUME NEW k \in 0..n, k < n, k \in S
      PROVE  k + 1 \in S
  <2> DEFINE j == k + 1
             acc == walk[k]
             msg == r[j]
  <2>1. j \in 0..n /\ j # 0 /\ j - 1 = k /\ j \in 1..n /\ j > 0 /\ k \in Nat
    BY <1>1, <1>5
  <2>2. walk[j] = ValidateStep(r, acc, j)
    BY <1>3, <2>1
  <2>3. acc = [pending |-> Hand(k), error |-> "None"]
    BY <1>5
  <2>4. /\ msg.block = "ToolUse" => msg.role = "Assistant"
        /\ msg.block = "ToolResult" => /\ msg.role = "Tool" /\ k \in 1..n
                                       /\ r[k].block = "ToolUse" /\ r[k].call = msg.call
    BY <2>1 DEF Paired
  <2>5. k > 0 /\ r[k].block = "ToolUse" => msg.block = "ToolResult"
    BY <2>1 DEF Paired
  <2>6. CASE msg.block = "ToolUse"
    <3>1. Hand(k) = <<>> /\ Hand(j) = <<msg.call>>
      BY <2>1, <2>5, <2>6
    <3>2. walk[j] = [acc EXCEPT !.pending = Append(acc.pending, msg.call)]
      BY <2>2, <2>3, <2>4, <2>6 DEF ValidateStep
    <3> HIDE DEF Hand, msg
    <3>3. walk[j] = [pending |-> Append(<<>>, msg.call), error |-> "None"]
      BY <2>3, <3>1, <3>2
    <3> QED BY <2>1, <3>1, <3>3
  <2>7. CASE msg.block = "ToolResult"
    <3>1. Hand(k) = <<msg.call>> /\ Hand(j) = <<>>
      BY <2>1, <2>4, <2>7
    <3> DEFINE c == msg.call
    <3>2. Contains(<<c>>, c)
      BY DEF Contains
    <3>3. RemoveFirst(<<c>>, c) = <<>>
      <4> HIDE DEF c
      <4>1. {i \in 1..Len(<<c>>) : <<c>>[i] = c} = {1}
        OBVIOUS
      <4>2. Min({1}) = 1
        BY DEF Min
      <4>3. SelectInSeq(<<c>>, LAMBDA v : v = c) = 1
        BY <4>1, <4>2 DEF SelectInSeq
      <4>4. RemoveFirst(<<c>>, c) = RemoveAt(<<c>>, 1)
        BY <3>2, <4>3 DEF RemoveFirst, Contains
      <4>5. SubSeq(<<c>>, 1, 1 - 1) = <<>> /\ SubSeq(<<c>>, 1 + 1, Len(<<c>>)) = <<>>
        OBVIOUS
      <4> QED BY <4>4, <4>5 DEF RemoveAt
    <3>4. acc.pending = <<c>> /\ acc.error = "None"
      BY <2>3, <3>1
    <3>5. walk[j] = [acc EXCEPT !.pending = RemoveFirst(acc.pending, c)]
      BY <2>2, <2>4, <2>7, <3>2, <3>4 DEF ValidateStep
    <3> HIDE DEF Hand, c
    <3>6. walk[j] = [pending |-> <<>>, error |-> "None"]
      BY <2>3, <3>3, <3>4, <3>5
    <3> QED BY <2>1, <3>1, <3>6
  <2>8. CASE msg.block \notin {"ToolUse", "ToolResult"}
    <3>1. Hand(k) = <<>> /\ Hand(j) = <<>>
      BY <2>1, <2>5, <2>8
    <3>2. acc.pending = <<>> /\ acc.error = "None"
      BY <2>3, <3>1
    <3>3. walk[j] = acc
      BY <2>2, <2>8, <3>2 DEF ValidateStep
    <3> HIDE DEF Hand, acc
    <3> QED BY <2>1, <2>3, <3>1, <3>3
  <2> HIDE DEF S
  <2> QED BY <2>6, <2>7, <2>8
<1>6. n \in S
  <2> HIDE DEF S
  <2>1. 0..n \subseteq S
    BY <1>1, <1>4, <1>5, UpToEnd
  <2> QED BY <1>1, <2>1
<1>7. Hand(n) = <<>>
  BY <1>1 DEF Paired
<1>8. walk[n].error = "None" /\ walk[n].pending = <<>>
  <2> HIDE DEF Hand
  <2> QED BY <1>6, <1>7
<1> QED BY <1>2, <1>8 DEF ValidTranscript

-----------------------------------------------------------------------------
(***************************************************************************)
(* What FlattenSeq makes of the messages' repairs.                         *)
(***************************************************************************)
JoinedBy(flat, s) ==
    flat = [i \in 1..Len(s) |-> IF i = 1 THEN s[i] ELSE flat[i - 1] \o s[i]]

\* The recursion of FlattenSeq has a solution.
LEMMA JoinExists ==
    ASSUME NEW T, NEW s \in Seq(T)
    PROVE  \E flat : JoinedBy(flat, s)
<1> DEFINE Upto(k, f) == f = [i \in 1..k |-> IF i = 1 THEN s[i] ELSE f[i - 1] \o s[i]]
           n == Len(s)
           S == {k \in 0..n : \E f : Upto(k, f)}
<1>1. n \in Nat
  OBVIOUS
<1>2. 0 \in S
  <2>1. Upto(0, [i \in 1..0 |-> s[i]])
    OBVIOUS
  <2>2. \E f : Upto(0, f)
    BY <2>1, Zenon
  <2>3. 0 \in 0..n
    BY <1>1
  <2> QED BY <2>2, <2>3
<1>3. ASSUME NEW k \in 0..n, k < n, k \in S
      PROVE  k + 1 \in S
  <2>1. PICK f : Upto(k, f)
    BY <1>3
  <2> DEFINE new == IF k + 1 = 1 THEN s[k + 1] ELSE f[k] \o s[k + 1]
             g == [i \in 1..(k + 1) |-> IF i = k + 1 THEN new ELSE f[i]]
  <2>2. \A i \in 1..k : f[i] = IF i = 1 THEN s[i] ELSE f[i - 1] \o s[i]
    BY <2>1
  <2> HIDE DEF Upto
  <2>3. \A i \in 1..(k + 1) : g[i] = IF i = 1 THEN s[i] ELSE g[i - 1] \o s[i]
    <3> TAKE i \in 1..(k + 1)
    <3>1. CASE i = k + 1
      <4>1. g[i] = new /\ i - 1 = k /\ (i # 1 => k \in 1..(k + 1) /\ k # k + 1)
        BY <3>1, <1>1
      <4>2. i # 1 => g[i - 1] = f[k]
        BY <4>1
      <4> QED BY <3>1, <4>1, <4>2
    <3>2. CASE i # k + 1
      <4>1. i \in 1..k /\ (i # 1 => i - 1 \in 1..k)
        BY <3>2, <1>1
      <4>2. g[i] = f[i] /\ (i # 1 => g[i - 1] = f[i - 1])
        BY <3>2, <4>1, <1>1
      <4> QED BY <2>2, <4>1, <4>2
    <3> QED BY <3>1, <3>2
  <2>4. Upto(k + 1, g)
    <3>1. g = [i \in 1..(k + 1) |-> g[i]]
      OBVIOUS
    <3> HIDE DEF g
    <3> QED BY <2>3, <3>1 DEF Upto
  <2>5. k + 1 \in 0..n
    BY <1>1, <1>3
  <2> HIDE DEF g
  <2> QED BY <2>4, <2>5
<1>4. n \in S
  <2> HIDE DEF S
  <2>1. 0..n \subseteq S
    BY <1>1, <1>2, <1>3, UpToEnd
  <2> QED BY <2>1, <1>1
<1> QED BY <1>4 DEF JoinedBy

LEMMA FlattenJoins ==
    ASSUME NEW T, NEW s \in Seq(T), Len(s) # 0
    PROVE  \E flat : JoinedBy(flat, s) /\ FlattenSeq(s) = flat[Len(s)]
<1> DEFINE flat[i \in 1..Len(s)] == IF i = 1 THEN s[i] ELSE flat[i - 1] \o s[i]
<1>1. \E f : f = [i \in 1..Len(s) |-> IF i = 1 THEN s[i] ELSE f[i - 1] \o s[i]]
  BY JoinExists, Zenon DEF JoinedBy
<1>2. flat = [i \in 1..Len(s) |-> IF i = 1 THEN s[i] ELSE flat[i - 1] \o s[i]]
  BY <1>1, Zenon
<1>3. FlattenSeq(s) = flat[Len(s)]
  BY Zenon DEF FlattenSeq
<1> HIDE DEF flat
<1>4. JoinedBy(flat, s)
  BY <1>2, Zenon DEF JoinedBy
<1> QED BY <1>3, <1>4

Parts(q) == {q[i] : i \in 1..Len(q)}

LEMMA PartsJoin ==
    ASSUME NEW p \in Seq(Messages), NEW q \in Seq(Messages)
    PROVE  Parts(p \o q) = Parts(p) \cup Parts(q)
<1> DEFINE r == p \o q
           n == Len(p)
           l == Len(q)
<1>1. /\ n \in Nat /\ l \in Nat /\ Len(r) = n + l
      /\ \A i \in 1..n : r[i] = p[i]
      /\ \A i \in (n + 1)..(n + l) : r[i] = q[i - n]
  OBVIOUS
<1> HIDE DEF r, n, l
<1>2. \A i \in 1..n : i \in 1..(n + l)
  BY <1>1
<1>3. \A i \in 1..l : i + n \in 1..(n + l) /\ r[i + n] = q[i]
  <2> TAKE i \in 1..l
  <2>1. i + n \in (n + 1)..(n + l) /\ (i + n) - n = i /\ i + n \in 1..(n + l)
    BY <1>1
  <2> QED BY <1>1, <2>1
<1>4. \A i \in 1..(n + l) : \/ i \in 1..n /\ r[i] = p[i]
                            \/ i - n \in 1..l /\ r[i] = q[i - n]
  BY <1>1
<1>5. Parts(r) = {r[i] : i \in 1..(n + l)} /\ Parts(p) = {p[i] : i \in 1..n} /\ Parts(q) = {q[i] : i \in 1..l}
  BY <1>1 DEF Parts, n, l
<1>6. Parts(r) = Parts(p) \cup Parts(q)
  BY <1>1, <1>2, <1>3, <1>4, <1>5
<1> QED BY <1>6 DEF r

\* The pieces joined: nothing else, and all of them.
LEMMA FlattenKeeps ==
    ASSUME NEW s, NEW n \in Nat, s \in [1..n -> Seq(Messages)], \A i \in 1..n : Paired(s[i])
    PROVE  LET r == FlattenSeq(s)
           IN  /\ Paired(r)
               /\ \A x \in Parts(r) : \E i \in 1..n : x \in Parts(s[i])
               /\ \A i \in 1..n : Parts(s[i]) \subseteq Parts(r)
<1>1. s \in Seq(Seq(Messages)) /\ Len(s) = n
  <2>1. s = [i \in 1..n |-> s[i]] /\ \A i \in 1..n : s[i] \in Seq(Messages)
    OBVIOUS
  <2> QED BY <2>1
<1>2. CASE n = 0
  <2>1. FlattenSeq(s) = s /\ s = <<>>
    BY <1>1, <1>2 DEF FlattenSeq
  <2>2. Paired(<<>>) /\ Parts(<<>>) = {}
    BY DEF Paired, Parts
  <2> QED BY <1>2, <2>1, <2>2
<1>3. CASE n # 0
  <2>1. PICK flat : JoinedBy(flat, s) /\ FlattenSeq(s) = flat[n]
    BY <1>1, <1>3, FlattenJoins
  <2>2. \A i \in 1..n : flat[i] = IF i = 1 THEN s[i] ELSE flat[i - 1] \o s[i]
    BY <1>1, <2>1 DEF JoinedBy
  <2> DEFINE Joined(k) == /\ Paired(flat[k])
                          /\ \A x \in Parts(flat[k]) : \E i \in 1..k : x \in Parts(s[i])
                          /\ \A i \in 1..k : Parts(s[i]) \subseteq Parts(flat[k])
             S == {k \in 0..n : k = 0 \/ Joined(k)}
  <2>3. 0 \in S
    OBVIOUS
  <2>4. ASSUME NEW k \in 0..n, k < n, k \in S
        PROVE  k + 1 \in S
    <3>1. k + 1 \in 0..n /\ k + 1 \in 1..n /\ (k + 1) - 1 = k /\ k \in Nat
      BY <2>4
    <3>2. CASE k = 0
      <4>1. flat[1] = s[1]
        BY <2>2, <3>1, <3>2
      <4>2. Joined(1)
        BY <3>1, <3>2, <4>1
      <4> HIDE DEF Joined
      <4> QED BY <3>1, <3>2, <4>2
    <3>3. CASE k # 0
      <4> DEFINE p == flat[k]
                 q == s[k + 1]
      <4>1. flat[k + 1] = p \o q
        <5>1. k + 1 # 1
          BY <3>1, <3>3
        <5> QED BY <2>2, <3>1, <5>1
      <4>2. Joined(k) /\ Paired(q) /\ Paired(p)
        BY <2>4, <3>1, <3>3
      <4>3. p \in Seq(Messages) /\ q \in Seq(Messages)
        BY <4>2 DEF Paired
      <4>4. Paired(p \o q) /\ Parts(p \o q) = Parts(p) \cup Parts(q)
        BY <4>2, <4>3, PairedJoin, PartsJoin
      <4>5. \A i \in 1..(k + 1) : i = k + 1 \/ i \in 1..k
        BY <3>1
      <4>6. \A i \in 1..k : i \in 1..(k + 1)
        BY <3>1
      <4>7. k + 1 \in 1..(k + 1)
        BY <3>1
      <4>8. Joined(k + 1)
        <5> DEFINE b == flat[k + 1]
        <5>1. Paired(b) /\ Parts(b) = Parts(p) \cup Parts(q)
          BY <4>1, <4>4
        <5>2. ASSUME NEW x \in Parts(b) PROVE \E i \in 1..(k + 1) : x \in Parts(s[i])
          <6>1. x \in Parts(p) => \E i \in 1..k : x \in Parts(s[i])
            BY <4>2
          <6>2. x \in Parts(p) \/ x \in Parts(q)
            BY <5>1
          <6> HIDE DEF b, p
          <6> QED BY <4>6, <4>7, <6>1, <6>2
        <5>3. ASSUME NEW i \in 1..(k + 1) PROVE Parts(s[i]) \subseteq Parts(b)
          <6>1. i \in 1..k => Parts(s[i]) \subseteq Parts(p)
            BY <4>2
          <6> HIDE DEF b, p
          <6> QED BY <4>5, <5>1, <6>1
        <5> QED BY <5>1, <5>2, <5>3
      <4> HIDE DEF Joined
      <4> QED BY <3>1, <4>8
    <3> HIDE DEF S
    <3> QED BY <3>2, <3>3
  <2>5. n \in S
    <3> HIDE DEF S
    <3>1. 0..n \subseteq S
      BY <2>3, <2>4, UpToEnd
    <3> QED BY <3>1
  <2>6. Joined(n)
    BY <1>3, <2>5
  <2> QED BY <2>1, <2>6
<1> QED BY <1>2, <1>3

-----------------------------------------------------------------------------
(***************************************************************************)
(* repair_tool_history.                                                    *)
(***************************************************************************)
LEMMA WrittenMessages ==
    \A x \in Written :
        /\ x \in Messages
        /\ x.block = "ToolUse" => x.role = "Assistant" /\ x.call \in ToolCalls
        /\ x.block = "ToolResult" => x.role = "Tool" /\ x.call \in ToolCalls /\ x.outcome = "recorded"
        /\ x.block \notin {"ToolUse", "ToolResult", "Empty"} => x \in {UserMessage, TextMessage}
        /\ x.role = "User" <=> x = UserMessage
BY DEF Written, Messages, Roles, Outcomes, UserMessage, TextMessage, EmptyMessage, ToolUseMessage,
       ToolResultMessage

\* A call's reply, and when it is the recorded one.
LEMMA Reply ==
    ASSUME NEW m \in Seq(Written), NEW i \in Declarations(m)
    PROVE  \E o \in {"recorded", "unavailable"} :
             /\ ReplyTo(m, i) = ToolResultMessage(m[i].call, o)
             /\ o = "recorded" <=> ResultsOf(m, m[i].call) # {} /\ FirstDeclaration(m, i)
<1> DEFINE c == m[i].call
           R == ResultsOf(m, c)
<1>1. R \in SUBSET Nat /\ \A j \in R : m[j].outcome = "recorded"
  <2>1. \A j \in R : j \in DOMAIN m /\ m[j].block = "ToolResult"
    BY DEF ResultsOf
  <2>2. \A j \in DOMAIN m : j \in Nat /\ m[j] \in Written
    OBVIOUS
  <2> QED BY <2>1, <2>2, WrittenMessages
<1> HIDE DEF c, R
<1>2. CASE R # {} /\ FirstDeclaration(m, i)
  <2>1. \E j \in R : \A k \in R : j <= k
    BY <1>1, <1>2, LeastOf
  <2> DEFINE first == CHOOSE j \in R : \A k \in R : j <= k
  <2>2. first \in R
    BY <2>1
  <2>3. m[first].outcome = "recorded"
    BY <1>1, <2>2
  <2>4. ReplyTo(m, i) = ToolResultMessage(c, m[first].outcome)
    BY <1>2 DEF ReplyTo, c, R
  <2> HIDE DEF first
  <2> QED BY <1>2, <2>3, <2>4 DEF c, R
<1>3. CASE ~(R # {} /\ FirstDeclaration(m, i))
  <2>1. ReplyTo(m, i) = ToolResultMessage(c, "unavailable")
    BY <1>3 DEF ReplyTo, c, R
  <2> QED BY <1>3, <2>1 DEF c, R
<1> QED BY <1>2, <1>3

\* What one message becomes.
LEMMA Piece ==
    ASSUME NEW m \in Seq(Written), NEW i \in 1..Len(m)
    PROVE  LET q == RepairMessage(m, i)
           IN  /\ Paired(q)
               /\ \A x \in Parts(q) : x.block = "ToolResult" =>
                    i \in Declarations(m) /\ x = ReplyTo(m, i)
               /\ i \in Declarations(m) => ReplyTo(m, i) \in Parts(q)
<1> DEFINE q == RepairMessage(m, i)
           x == m[i]
<1>1. /\ x \in Written /\ i \in DOMAIN m /\ x \in Messages
      /\ x.block = "ToolUse" => x.role = "Assistant" /\ x.call \in ToolCalls
  BY WrittenMessages
<1>2. i \in Declarations(m) <=> x.block = "ToolUse"
  BY <1>1 DEF Declarations
<1>3. CASE x.block = "ToolUse"
  <2> DEFINE y == ReplyTo(m, i)
  <2>1. q = <<x, y>>
    BY <1>3 DEF RepairMessage
  <2>2. PICK o \in {"recorded", "unavailable"} : y = ToolResultMessage(x.call, o)
    BY <1>2, <1>3, Reply
  <2>3. /\ y \in Messages /\ y.block = "ToolResult" /\ y.role = "Tool" /\ y.call = x.call
    BY <1>1, <1>3, <2>2 DEF ToolResultMessage, Messages, Roles, Outcomes
  <2> HIDE DEF q, x, y
  <2>4. q \in Seq(Messages) /\ Len(q) = 2 /\ q[1] = x /\ q[2] = y
    BY <1>1, <2>1, <2>3
  <2>5. \A k \in 1..2 : k = 1 \/ k = 2
    OBVIOUS
  <2>6. Paired(q)
    <3> SUFFICES ASSUME NEW k \in 1..2
                 PROVE  /\ q[k].block = "ToolUse" =>
                             q[k].role = "Assistant" /\ k + 1 \in 1..2 /\ q[k + 1].block = "ToolResult"
                        /\ q[k].block = "ToolResult" =>
                             /\ q[k].role = "Tool" /\ k - 1 \in 1..2
                             /\ q[k - 1].block = "ToolUse" /\ q[k - 1].call = q[k].call
      BY <2>4 DEF Paired
    <3>1. CASE k = 1
      BY <1>1, <1>3, <2>3, <2>4, <3>1
    <3>2. CASE k = 2
      BY <1>3, <2>3, <2>4, <3>2
    <3> QED BY <2>5, <3>1, <3>2
  <2>7. Parts(q) = {x, y}
    BY <2>4, <2>5 DEF Parts
  <2> QED BY <1>2, <1>3, <2>6, <2>7 DEF q, x, y
<1>4. CASE x.block # "ToolUse"
  <2>1. q = <<>> \/ q = <<UserMessage>> \/ q = <<TextMessage>>
    <3>1. CASE x.block = "ToolResult" \/ x.block = "Empty"
      BY <3>1 DEF RepairMessage
    <3>2. CASE x.block # "ToolResult" /\ x.block # "Empty"
      <4>1. q = <<[x EXCEPT !.role = IF @ = "Tool" THEN "User" ELSE @]>>
        BY <1>4, <3>2 DEF RepairMessage
      <4>2. x = UserMessage \/ x = TextMessage
        BY <1>1, <1>4, <3>2, WrittenMessages
      <4>3. [UserMessage EXCEPT !.role = IF @ = "Tool" THEN "User" ELSE @] = UserMessage
        BY DEF UserMessage
      <4>4. [TextMessage EXCEPT !.role = IF @ = "Tool" THEN "User" ELSE @] = TextMessage
        BY DEF TextMessage
      <4> QED BY <4>1, <4>2, <4>3, <4>4
    <3> QED BY <3>1, <3>2
  <2> HIDE DEF q
  <2>2. ASSUME NEW y \in {UserMessage, TextMessage}
        PROVE  Paired(<<y>>) /\ \A z \in Parts(<<y>>) : z.block # "ToolResult"
    <3>1. y \in Messages /\ y.block = "Text"
      BY <2>2 DEF UserMessage, TextMessage, Messages, Roles, Outcomes
    <3>2. <<y>> \in Seq(Messages) /\ Len(<<y>>) = 1 /\ \A k \in 1..Len(<<y>>) : <<y>>[k] = y
      BY <3>1
    <3>3. Paired(<<y>>)
      BY <3>1, <3>2 DEF Paired
    <3> QED BY <3>1, <3>2, <3>3 DEF Parts
  <2>3. Paired(<<>>) /\ Parts(<<>>) = {}
    BY DEF Paired, Parts
  <2>4. Paired(q) /\ \A z \in Parts(q) : z.block # "ToolResult"
    BY <2>1, <2>2, <2>3
  <2> QED BY <1>2, <1>4, <2>4 DEF q
<1> QED BY <1>3, <1>4

LEMMA Repaired ==
    ASSUME NEW m \in Seq(Written)
    PROVE  LET r == repair_tool_history(m)
           IN  /\ Paired(r)
               /\ \A x \in Parts(r) : x.block = "ToolResult" =>
                    \E i \in Declarations(m) : x = ReplyTo(m, i)
               /\ \A i \in Declarations(m) : ReplyTo(m, i) \in Parts(r)
<1> DEFINE n == Len(m)
           s == [i \in 1..n |-> RepairMessage(m, i)]
           r == FlattenSeq(s)
<1>1. n \in Nat /\ DOMAIN m = 1..n
  OBVIOUS
<1>2. \A i \in 1..n : s[i] = RepairMessage(m, i) /\ Paired(s[i]) /\ s[i] \in Seq(Messages)
  BY Piece DEF Paired
<1>3. s \in [1..n -> Seq(Messages)]
  BY <1>2
<1> HIDE DEF s
<1>4. /\ Paired(r) /\ \A x \in Parts(r) : \E i \in 1..n : x \in Parts(s[i])
      /\ \A i \in 1..n : Parts(s[i]) \subseteq Parts(r)
  BY <1>1, <1>2, <1>3, FlattenKeeps
<1>5. ASSUME NEW x \in Parts(r), x.block = "ToolResult"
      PROVE  \E i \in Declarations(m) : x = ReplyTo(m, i)
  <2>1. PICK i \in 1..n : x \in Parts(RepairMessage(m, i))
    BY <1>2, <1>4
  <2>2. i \in Declarations(m) /\ x = ReplyTo(m, i)
    BY <1>5, <2>1, Piece
  <2> QED BY <2>2
<1>6. ASSUME NEW i \in Declarations(m) PROVE ReplyTo(m, i) \in Parts(r)
  <2>1. i \in 1..n
    BY <1>1 DEF Declarations
  <2>2. ReplyTo(m, i) \in Parts(RepairMessage(m, i))
    BY <2>1, Piece
  <2> QED BY <1>2, <1>4, <2>1, <2>2
<1>7. repair_tool_history(m) = r
  BY DEF repair_tool_history, s
<1> HIDE DEF r
<1> QED BY <1>4, <1>5, <1>6, <1>7

LEMMA RepairedOutcomes ==
    ASSUME NEW m \in Seq(Written), NEW c \in CallsIn(m)
    PROVE  LET r == repair_tool_history(m)
           IN  (ResultsOf(m, c) # {}) <=> \E i \in ResultsOf(r, c) : r[i].outcome = "recorded"
<1> DEFINE r == repair_tool_history(m)
<1>1. /\ Paired(r)
      /\ \A x \in Parts(r) : x.block = "ToolResult" => \E i \in Declarations(m) : x = ReplyTo(m, i)
      /\ \A i \in Declarations(m) : ReplyTo(m, i) \in Parts(r)
  BY Repaired
<1> HIDE DEF r
<1>2. DOMAIN r = 1..Len(r)
  BY <1>1 DEF Paired
<1>3. ASSUME NEW i \in ResultsOf(r, c), r[i].outcome = "recorded"
      PROVE  ResultsOf(m, c) # {}
  <2>1. r[i] \in Parts(r) /\ r[i].block = "ToolResult" /\ r[i].call = c
    BY <1>2 DEF ResultsOf, Parts
  <2>2. PICK j \in Declarations(m) : r[i] = ReplyTo(m, j)
    BY <1>1, <2>1
  <2>3. PICK o \in {"recorded", "unavailable"} :
            /\ ReplyTo(m, j) = ToolResultMessage(m[j].call, o)
            /\ o = "recorded" <=> ResultsOf(m, m[j].call) # {} /\ FirstDeclaration(m, j)
    BY Reply
  <2>4. m[j].call = c /\ o = "recorded"
    BY <1>3, <2>1, <2>2, <2>3 DEF ToolResultMessage
  <2> QED BY <2>3, <2>4
<1>4. ASSUME ResultsOf(m, c) # {}
      PROVE  \E i \in ResultsOf(r, c) : r[i].outcome = "recorded"
  <2> DEFINE D == {i \in Declarations(m) : m[i].call = c}
  <2>1. D # {} /\ D \in SUBSET Nat
    BY DEF CallsIn, Declarations
  <2>2. PICK j \in D : \A k \in D : j <= k
    BY <2>1, LeastOf
  <2>3. j \in Declarations(m) /\ m[j].call = c /\ FirstDeclaration(m, j)
    BY <2>2 DEF FirstDeclaration
  <2>4. ReplyTo(m, j) = ToolResultMessage(c, "recorded")
    BY <1>4, <2>3, Reply
  <2>5. PICK i \in 1..Len(r) : r[i] = ToolResultMessage(c, "recorded")
    BY <1>1, <2>3, <2>4 DEF Parts
  <2>6. i \in ResultsOf(r, c) /\ r[i].outcome = "recorded"
    BY <1>2, <2>5 DEF ResultsOf, ToolResultMessage
  <2> QED BY <2>6
<1> QED BY <1>3, <1>4 DEF r

-----------------------------------------------------------------------------
(***************************************************************************)
(* Counting the calls that wait: how often the walk has one in hand is by  *)
(* how many uses of it are ahead of its results.                           *)
(***************************************************************************)
Below(i, D) == {j \in 1..i : j \in D}

LEMMA CountNext ==
    ASSUME NEW k \in Nat, NEW D
    PROVE  /\ Cardinality(Below(k, D)) \in Nat
           /\ Cardinality(Below(k + 1, D))
                = Cardinality(Below(k, D)) + (IF k + 1 \in D THEN 1 ELSE 0)
<1> DEFINE A(i) == Below(i, D)
<1>1. IsFiniteSet(1..k) /\ A(k) \in SUBSET (1..k)
  BY FS_Interval DEF Below
<1>2. IsFiniteSet(A(k))
  BY <1>1, FS_Subset
<1>3. k + 1 \notin A(k) /\ \A j \in 1..(k + 1) : j = k + 1 \/ j \in 1..k
  BY DEF Below
<1>4. A(k + 1) = IF k + 1 \in D THEN A(k) \cup {k + 1} ELSE A(k)
  <2>1. k + 1 \in 1..(k + 1) /\ \A j \in 1..k : j \in 1..(k + 1)
    OBVIOUS
  <2> QED BY <1>3, <2>1 DEF Below
<1> HIDE DEF A
<1>5. Cardinality(A(k)) \in Nat
  BY <1>2, FS_CardinalityType
<1>6. Cardinality(A(k) \cup {k + 1}) = Cardinality(A(k)) + 1
  BY <1>2, <1>3, FS_AddElement
<1>7. Cardinality(A(k + 1)) = Cardinality(A(k)) + (IF k + 1 \in D THEN 1 ELSE 0)
  <2>1. CASE k + 1 \in D
    BY <1>4, <1>6, <2>1
  <2>2. CASE k + 1 \notin D
    BY <1>4, <1>5, <2>2
  <2> QED BY <2>1, <2>2
<1>8. Cardinality(A(k + 1)) \in Nat
  BY <1>5, <1>7
<1> QED BY <1>5, <1>7, <1>8 DEF A

LEMMA UsesNext ==
    ASSUME NEW k \in Nat, NEW c
    PROVE  LET msg == messages[k + 1]
           IN  /\ UsesBefore(k, c) \in Nat /\ ResultsBefore(k, c) \in Nat
               /\ UsesBefore(k + 1, c) = UsesBefore(k, c)
                    + (IF msg.block = "ToolUse" /\ msg.call = c THEN 1 ELSE 0)
               /\ ResultsBefore(k + 1, c) = ResultsBefore(k, c)
                    + (IF msg.block = "ToolResult" /\ msg.call = c THEN 1 ELSE 0)
<1> DEFINE Of(b) == {j \in Nat : messages[j].block = b /\ messages[j].call = c}
<1>1. \A i \in Nat : /\ Below(i, Of("ToolUse"))
                          = {j \in 1..i : messages[j].block = "ToolUse" /\ messages[j].call = c}
                     /\ Below(i, Of("ToolResult"))
                          = {j \in 1..i : messages[j].block = "ToolResult" /\ messages[j].call = c}
  BY DEF Below
<1>2. \A i \in Nat : /\ Cardinality(Below(i, Of("ToolUse"))) = UsesBefore(i, c)
                     /\ Cardinality(Below(i, Of("ToolResult"))) = ResultsBefore(i, c)
  BY <1>1, Zenon DEF UsesBefore, ResultsBefore
<1>3. \A b : k + 1 \in Of(b) <=> messages[k + 1].block = b /\ messages[k + 1].call = c
  OBVIOUS
<1> HIDE DEF Of
<1>4. k + 1 \in Nat
  OBVIOUS
<1>5. /\ UsesBefore(k, c) \in Nat
      /\ UsesBefore(k + 1, c) = UsesBefore(k, c) + (IF k + 1 \in Of("ToolUse") THEN 1 ELSE 0)
  <2> DEFINE D == Of("ToolUse")
             x == Cardinality(Below(k, D))
             y == Cardinality(Below(k + 1, D))
  <2>1. x = UsesBefore(k, c) /\ y = UsesBefore(k + 1, c)
    BY <1>2, <1>4, Zenon
  <2> HIDE DEF D
  <2>2. x \in Nat /\ y = x + (IF k + 1 \in D THEN 1 ELSE 0)
    BY CountNext
  <2> HIDE DEF x, y
  <2> QED BY <2>1, <2>2 DEF D
<1>6. /\ ResultsBefore(k, c) \in Nat
      /\ ResultsBefore(k + 1, c) = ResultsBefore(k, c) + (IF k + 1 \in Of("ToolResult") THEN 1 ELSE 0)
  <2> DEFINE D == Of("ToolResult")
             x == Cardinality(Below(k, D))
             y == Cardinality(Below(k + 1, D))
  <2>1. x = ResultsBefore(k, c) /\ y = ResultsBefore(k + 1, c)
    BY <1>2, <1>4, Zenon
  <2> HIDE DEF D
  <2>2. x \in Nat /\ y = x + (IF k + 1 \in D THEN 1 ELSE 0)
    BY CountNext
  <2> HIDE DEF x, y
  <2> QED BY <2>1, <2>2 DEF D
<1> QED BY <1>3, <1>5, <1>6

At(p, c) == {k \in 1..Len(p) : p[k] = c}
Times(p, c) == Cardinality(At(p, c))

LEMMA TimesType ==
    ASSUME NEW T, NEW p \in Seq(T), NEW c
    PROVE  /\ IsFiniteSet(At(p, c)) /\ Times(p, c) \in Nat
           /\ Times(p, c) = 0 <=> ~Contains(p, c)
<1>1. IsFiniteSet(1..Len(p)) /\ At(p, c) \in SUBSET (1..Len(p))
  BY FS_Interval DEF At
<1>2. IsFiniteSet(At(p, c))
  BY <1>1, FS_Subset
<1>3. Times(p, c) \in Nat /\ (Times(p, c) = 0 <=> At(p, c) = {})
  BY <1>2, FS_CardinalityType, FS_EmptySet DEF Times
<1>4. At(p, c) = {} <=> ~Contains(p, c)
  BY DEF At, Contains
<1> QED BY <1>2, <1>3, <1>4

LEMMA TimesAppend ==
    ASSUME NEW T, NEW p \in Seq(T), NEW d \in T, NEW c
    PROVE  Times(Append(p, d), c) = Times(p, c) + (IF c = d THEN 1 ELSE 0)
<1> DEFINE r == Append(p, d)
           n == Len(p)
<1>1. n \in Nat /\ Len(r) = n + 1 /\ r[n + 1] = d /\ \A i \in 1..n : r[i] = p[i]
  OBVIOUS
<1> HIDE DEF r
<1>2. /\ \A i \in 1..(n + 1) : i = n + 1 \/ i \in 1..n
      /\ \A i \in 1..n : i \in 1..(n + 1) /\ i # n + 1
      /\ n + 1 \in 1..(n + 1)
  BY <1>1
<1>3. At(r, c) = (IF c = d THEN At(p, c) \cup {n + 1} ELSE At(p, c)) /\ n + 1 \notin At(p, c)
  BY <1>1, <1>2 DEF At
<1>4. IsFiniteSet(At(p, c)) /\ Cardinality(At(p, c)) \in Nat
  BY TimesType DEF Times
<1>5. Cardinality(At(p, c) \cup {n + 1}) = Cardinality(At(p, c)) + 1
  BY <1>3, <1>4, FS_AddElement
<1>6. Times(r, c) = Times(p, c) + (IF c = d THEN 1 ELSE 0)
  <2>1. CASE c = d
    BY <1>3, <1>5, <2>1 DEF Times
  <2>2. CASE c # d
    BY <1>3, <1>4, <2>2 DEF Times
  <2> QED BY <2>1, <2>2
<1> QED BY <1>6 DEF r

\* RemoveFirst takes one out, and keeps the rest in place.
LEMMA RemoveOne ==
    ASSUME NEW T, NEW p \in Seq(T), NEW d, Contains(p, d)
    PROVE  \E k \in 1..Len(p) :
             LET r == RemoveFirst(p, d)
             IN  /\ p[k] = d /\ r \in Seq(T) /\ Len(r) = Len(p) - 1
                 /\ \A i \in 1..(Len(p) - 1) : r[i] = IF i < k THEN p[i] ELSE p[i + 1]
<1> DEFINE r == RemoveFirst(p, d)
           n == Len(p)
           I == {i \in 1..n : p[i] = d}
           k == SelectInSeq(p, LAMBDA v : v = d)
<1>1. I # {} /\ I \in SUBSET Nat
  BY DEF Contains
<1>2. k = Min(I)
  BY <1>1 DEF SelectInSeq
<1>3. \E x \in I : \A y \in I : x <= y
  BY <1>1, LeastOf
<1>4. Min(I) \in I
  BY <1>3 DEF Min
<1>5. r = RemoveAt(p, k)
  BY DEF RemoveFirst, Contains
<1> HIDE DEF k, I
<1>6. n \in Nat /\ k \in Nat /\ k >= 1 /\ k <= n /\ p[k] = d /\ k \in 1..n
  BY <1>2, <1>4 DEF I
<1> DEFINE x == SubSeq(p, 1, k - 1)
           y == SubSeq(p, k + 1, n)
<1>7. r = x \o y
  BY <1>5 DEF RemoveAt
<1>8. x \in Seq(T) /\ Len(x) = k - 1 /\ \A i \in 1..(k - 1) : x[i] = p[i]
  <2>1. \A i \in 1..(k - 1) : p[i] \in T
    BY <1>6
  <2>2. /\ x \in Seq(T) /\ Len(x) = (IF 1 <= k - 1 THEN (k - 1) - 1 + 1 ELSE 0)
        /\ \A i \in 1..((k - 1) - 1 + 1) : x[i] = p[1 + i - 1]
    BY <1>6, <2>1, SubSeqProperties
  <2> HIDE DEF x
  <2> QED BY <1>6, <2>2
<1>9. y \in Seq(T) /\ Len(y) = n - k /\ \A i \in 1..(n - k) : y[i] = p[k + i]
  <2>1. \A i \in (k + 1)..n : p[i] \in T
    BY <1>6
  <2>2. /\ y \in Seq(T) /\ Len(y) = (IF k + 1 <= n THEN n - (k + 1) + 1 ELSE 0)
        /\ \A i \in 1..(n - (k + 1) + 1) : y[i] = p[(k + 1) + i - 1]
    BY <1>6, <2>1, SubSeqProperties
  <2> HIDE DEF y
  <2>3. ASSUME NEW i \in 1..(n - k) PROVE y[i] = p[k + i]
    <3>1. i \in 1..(n - (k + 1) + 1) /\ (k + 1) + i - 1 = k + i
      BY <1>6
    <3>2. y[i] = p[(k + 1) + i - 1]
      BY <2>2, <3>1
    <3> QED BY <3>1, <3>2
  <2>4. Len(y) = n - k
    BY <1>6, <2>2
  <2> QED BY <2>2, <2>3, <2>4
<1> HIDE DEF x, y, r
<1>10. /\ r \in Seq(T) /\ Len(r) = Len(x) + Len(y)
       /\ \A i \in 1..(Len(x) + Len(y)) : r[i] = IF i <= Len(x) THEN x[i] ELSE y[i - Len(x)]
  BY <1>7, <1>8, <1>9, ConcatProperties
<1>11. r \in Seq(T) /\ Len(x) + Len(y) = n - 1 /\ Len(r) = n - 1
  BY <1>6, <1>8, <1>9, <1>10
<1>12. ASSUME NEW i \in 1..(n - 1) PROVE r[i] = IF i < k THEN p[i] ELSE p[i + 1]
  <2>1. r[i] = IF i <= Len(x) THEN x[i] ELSE y[i - Len(x)]
    BY <1>10, <1>11
  <2>2. CASE i < k
    <3>1. i <= k - 1 /\ i \in 1..(k - 1)
      BY <1>6, <2>2
    <3> QED BY <1>8, <2>1, <2>2, <3>1
  <2>3. CASE ~(i < k)
    <3>1. ~(i <= k - 1) /\ i - (k - 1) \in 1..(n - k) /\ k + (i - (k - 1)) = i + 1
      BY <1>6, <2>3
    <3> QED BY <1>8, <1>9, <2>1, <2>3, <3>1
  <2> QED BY <2>2, <2>3
<1> QED BY <1>6, <1>11, <1>12 DEF r

LEMMA TimesRemove ==
    ASSUME NEW T, NEW p \in Seq(T), NEW d, Contains(p, d), NEW c
    PROVE  Times(RemoveFirst(p, d), c) = Times(p, c) - (IF c = d THEN 1 ELSE 0)
<1> DEFINE r == RemoveFirst(p, d)
           n == Len(p)
<1>1. PICK k \in 1..n : /\ p[k] = d /\ r \in Seq(T) /\ Len(r) = n - 1
                        /\ \A i \in 1..(n - 1) : r[i] = IF i < k THEN p[i] ELSE p[i + 1]
  BY RemoveOne
<1>2. n \in Nat
  OBVIOUS
<1> HIDE DEF r
<1> DEFINE A == At(r, c)
           B == At(p, c) \ {k}
           f == [i \in A |-> IF i < k THEN i ELSE i + 1]
<1>3. A = {i \in 1..(n - 1) : r[i] = c} /\ B = {i \in 1..n : p[i] = c /\ i # k}
  BY <1>1 DEF At
<1>4. IsFiniteSet(A) /\ IsFiniteSet(At(p, c)) /\ Cardinality(At(p, c)) \in Nat
  BY <1>1, TimesType DEF Times
<1>5. f \in Bijection(A, B)
  <2>1. f \in [A -> B]
    <3>1. ASSUME NEW i \in A PROVE (IF i < k THEN i ELSE i + 1) \in B
      <4>1. i \in 1..(n - 1) /\ r[i] = c /\ r[i] = IF i < k THEN p[i] ELSE p[i + 1]
        BY <1>1, <1>3
      <4>2. CASE i < k
        <5>1. i \in 1..n /\ i # k
          BY <1>2, <4>1, <4>2
        <5> QED BY <1>3, <4>1, <4>2, <5>1
      <4>3. CASE ~(i < k)
        <5>1. i + 1 \in 1..n /\ i + 1 # k
          BY <1>2, <4>1, <4>3
        <5> QED BY <1>3, <4>1, <4>3, <5>1
      <4> QED BY <4>2, <4>3
    <3> HIDE DEF A, B
    <3> QED BY <3>1
  <2>2. \A i, j \in A : f[i] = f[j] => i = j
    <3> SUFFICES ASSUME NEW i \in A, NEW j \in A, f[i] = f[j] PROVE i = j
      OBVIOUS
    <3>1. i \in Nat /\ j \in Nat /\ k \in Nat
      BY <1>2, <1>3
    <3> QED BY <3>1
  <2>3. \A j \in B : \E i \in A : f[i] = j
    <3> SUFFICES ASSUME NEW j \in B PROVE \E i \in A : f[i] = j
      OBVIOUS
    <3> DEFINE i == IF j < k THEN j ELSE j - 1
    <3>1. j \in 1..n /\ p[j] = c /\ j # k
      BY <1>3
    <3>2. i \in 1..(n - 1) /\ (IF i < k THEN i ELSE i + 1) = j
      BY <1>2, <3>1
    <3>3. i \in A
      BY <1>1, <1>3, <3>1, <3>2
    <3>4. f[i] = j
      BY <3>2, <3>3
    <3> QED BY <3>3, <3>4
  <2> HIDE DEF f, A, B
  <2> QED BY <2>1, <2>2, <2>3 DEF Bijection, Injection, Surjection, IsInjective
<1>6. Cardinality(B) = Cardinality(A)
  <2>1. ExistsBijection(A, B)
    BY <1>5 DEF ExistsBijection
  <2> HIDE DEF A, B
  <2> QED BY <1>4, <2>1, FS_Bijection
<1>7. Cardinality(B) = IF k \in At(p, c) THEN Cardinality(At(p, c)) - 1 ELSE Cardinality(At(p, c))
  BY <1>4, FS_RemoveElement
<1>8. k \in At(p, c) <=> c = d
  BY <1>1 DEF At
<1>9. Times(r, c) = Times(p, c) - (IF c = d THEN 1 ELSE 0)
  <2> HIDE DEF B
  <2>1. CASE c = d
    BY <1>4, <1>6, <1>7, <1>8, <2>1 DEF Times
  <2>2. CASE c # d
    BY <1>4, <1>6, <1>7, <1>8, <2>2 DEF Times
  <2> QED BY <2>1, <2>2
<1> QED BY <1>9 DEF r

-----------------------------------------------------------------------------
(***************************************************************************)
(* The walk of validate_transcript against the reference: it has met no    *)
(* problem exactly as long as every position it passed is Good, and then   *)
(* holds every call as often as uses of it are ahead of its results.       *)
(***************************************************************************)
Good(i) ==
    \A c \in ToolCalls :
        /\ ResultsBefore(i, c) <= UsesBefore(i, c)
        /\ messages[i].role = "User" => ResultsBefore(i, c) = UsesBefore(i, c)

Balance(pending, i) ==
    /\ pending \in Seq(ToolCalls)
    /\ \A c \in ToolCalls : Times(pending, c) + ResultsBefore(i, c) = UsesBefore(i, c)

Walked(acc, i) ==
    /\ acc = [pending |-> acc.pending, error |-> acc.error]
    /\ acc.error = "None" <=> \A k \in 1..i : Good(k)
    /\ acc.error = "None" => Balance(acc.pending, i)

LEMMA EmptyPending ==
    ASSUME NEW p \in Seq(ToolCalls)
    PROVE  p = <<>> <=> \A c \in ToolCalls : Times(p, c) = 0
<1>1. ASSUME p = <<>>, NEW c \in ToolCalls PROVE Times(p, c) = 0
  <2>1. ~Contains(p, c)
    BY <1>1 DEF Contains
  <2> QED BY <2>1, TimesType
<1>2. ASSUME p # <<>> PROVE \E c \in ToolCalls : Times(p, c) # 0
  <2>1. 1 \in 1..Len(p) /\ p[1] \in ToolCalls
    BY <1>2
  <2>2. Contains(p, p[1])
    BY <2>1 DEF Contains
  <2>3. Times(p, p[1]) # 0
    BY <2>2, TimesType
  <2> QED BY <2>1, <2>3
<1> QED BY <1>1, <1>2

LEMMA NothingBefore ==
    ASSUME NEW c
    PROVE  UsesBefore(0, c) = 0 /\ ResultsBefore(0, c) = 0
<1>1. /\ {j \in 1..0 : messages[j].block = "ToolUse" /\ messages[j].call = c} = {}
      /\ {j \in 1..0 : messages[j].block = "ToolResult" /\ messages[j].call = c} = {}
  OBVIOUS
<1> QED BY <1>1, FS_EmptySet DEF UsesBefore, ResultsBefore

LEMMA WalkStep ==
    ASSUME messages \in Seq(Written), NEW k \in Nat, k + 1 \in 1..Len(messages), NEW acc, Walked(acc, k)
    PROVE  Walked(ValidateStep(messages, acc, k + 1), k + 1)
<1> DEFINE i == k + 1
           msg == messages[i]
           new == ValidateStep(messages, acc, i)
           U(c) == UsesBefore(k, c)
           R(c) == ResultsBefore(k, c)
<1>1. msg \in Written
  OBVIOUS
<1>2. /\ msg.block = "ToolUse" => msg.role = "Assistant" /\ msg.call \in ToolCalls
      /\ msg.block = "ToolResult" => msg.role = "Tool" /\ msg.call \in ToolCalls
      /\ msg.role = "User" => msg.block \notin {"ToolUse", "ToolResult"}
  BY <1>1, WrittenMessages DEF UserMessage
<1>3. \A c : /\ U(c) \in Nat /\ R(c) \in Nat
             /\ UsesBefore(i, c) = U(c) + (IF msg.block = "ToolUse" /\ msg.call = c THEN 1 ELSE 0)
             /\ ResultsBefore(i, c) = R(c) + (IF msg.block = "ToolResult" /\ msg.call = c THEN 1 ELSE 0)
  BY UsesNext
<1>4. /\ i \in 1..i /\ \A j \in 1..k : j \in 1..i
      /\ \A j \in 1..i : j = i \/ j \in 1..k
  OBVIOUS
<1>5. (\A j \in 1..i : Good(j)) <=> (\A j \in 1..k : Good(j)) /\ Good(i)
  BY <1>4
<1>6. \A c \in ToolCalls : acc.error = "None" => Times(acc.pending, c) \in Nat
  BY TimesType DEF Walked, Balance
<1> HIDE DEF i, msg, U, R
<1>7. CASE acc.error # "None"
  <2>1. new = acc
    BY <1>7 DEF ValidateStep
  <2> QED BY <1>5, <1>7, <2>1 DEF Walked, i
<1>8. CASE acc.error = "None" /\ msg.block = "ToolUse"
  <2> DEFINE p == Append(acc.pending, msg.call)
  <2>1. new = [acc EXCEPT !.pending = p]
    BY <1>2, <1>8 DEF ValidateStep, msg
  <2>2. acc.pending \in Seq(ToolCalls) /\ p \in Seq(ToolCalls)
    BY <1>2, <1>8 DEF Walked, Balance
  <2>3. \A c \in ToolCalls : Times(p, c) = Times(acc.pending, c) + (IF c = msg.call THEN 1 ELSE 0)
    BY <1>2, <1>8, <2>2, TimesAppend
  <2>4. new.pending = p /\ new.error = "None" /\ new = [pending |-> new.pending, error |-> new.error]
    BY <1>8, <2>1 DEF Walked
  <2>5. \A c \in ToolCalls : Times(acc.pending, c) + R(c) = U(c)
    BY <1>8 DEF Walked, Balance, U, R
  <2> HIDE DEF p, new
  <2>6. ASSUME NEW c \in ToolCalls
        PROVE  Times(p, c) + ResultsBefore(i, c) = UsesBefore(i, c)
               /\ ResultsBefore(i, c) <= UsesBefore(i, c)
    BY <1>3, <1>6, <1>8, <2>3, <2>5
  <2>7. Good(i)
    BY <1>2, <1>8, <2>6 DEF Good, msg
  <2>8. Balance(new.pending, i)
    BY <2>2, <2>4, <2>6 DEF Balance
  <2>9. \A j \in 1..i : Good(j)
    BY <1>5, <1>8, <2>7 DEF Walked
  <2> QED BY <2>4, <2>8, <2>9 DEF Walked, new, i
<1>9. CASE acc.error = "None" /\ msg.block = "ToolResult" /\ Contains(acc.pending, msg.call)
  <2> DEFINE p == RemoveFirst(acc.pending, msg.call)
  <2>1. new = [acc EXCEPT !.pending = p]
    BY <1>2, <1>9 DEF ValidateStep, msg
  <2>2. acc.pending \in Seq(ToolCalls)
    BY <1>9 DEF Walked, Balance
  <2>3. p \in Seq(ToolCalls)
    BY <1>9, <2>2, RemoveOne
  <2>4. \A c : Times(p, c) = Times(acc.pending, c) - (IF c = msg.call THEN 1 ELSE 0)
    BY <1>9, <2>2, TimesRemove
  <2>5. new.pending = p /\ new.error = "None" /\ new = [pending |-> new.pending, error |-> new.error]
    BY <1>9, <2>1 DEF Walked
  <2>6. \A c \in ToolCalls : Times(acc.pending, c) + R(c) = U(c) /\ Times(p, c) \in Nat
    BY <1>9, <2>3, TimesType DEF Walked, Balance, U, R
  <2> HIDE DEF p, new
  <2>7. ASSUME NEW c \in ToolCalls
        PROVE  Times(p, c) + ResultsBefore(i, c) = UsesBefore(i, c)
               /\ ResultsBefore(i, c) <= UsesBefore(i, c)
    BY <1>3, <1>6, <1>9, <2>4, <2>6
  <2>8. Good(i)
    BY <1>2, <1>9, <2>7 DEF Good, msg
  <2>9. Balance(new.pending, i)
    BY <2>3, <2>5, <2>7 DEF Balance
  <2>10. \A j \in 1..i : Good(j)
    BY <1>5, <1>9, <2>8 DEF Walked
  <2> QED BY <2>5, <2>9, <2>10 DEF Walked, new, i
<1>10. CASE acc.error = "None" /\ msg.block = "ToolResult" /\ ~Contains(acc.pending, msg.call)
  <2>1. PICK e \in {"OutOfOrderToolResult", "OrphanToolResult"} : new = [acc EXCEPT !.error = e]
    BY <1>2, <1>10 DEF ValidateStep, msg
  <2>2. new.error # "None" /\ new = [pending |-> new.pending, error |-> new.error]
    BY <1>10, <2>1 DEF Walked
  <2>3. Times(acc.pending, msg.call) = 0 /\ R(msg.call) = U(msg.call)
    <3>1. acc.pending \in Seq(ToolCalls) /\ Times(acc.pending, msg.call) + R(msg.call) = U(msg.call)
      BY <1>2, <1>10 DEF Walked, Balance, U, R
    <3>2. Times(acc.pending, msg.call) = 0
      BY <1>10, <3>1, TimesType
    <3> QED BY <1>3, <3>1, <3>2
  <2>4. ~(ResultsBefore(i, msg.call) <= UsesBefore(i, msg.call))
    BY <1>3, <1>10, <2>3
  <2>5. ~Good(i)
    BY <1>2, <1>10, <2>4 DEF Good
  <2> HIDE DEF new
  <2> QED BY <1>5, <2>2, <2>5 DEF Walked, new, i
<1>11. CASE acc.error = "None" /\ msg.block \notin {"ToolUse", "ToolResult"}
  <2>1. \A c \in ToolCalls : /\ UsesBefore(i, c) = U(c) /\ ResultsBefore(i, c) = R(c)
                             /\ Times(acc.pending, c) + R(c) = U(c)
    BY <1>3, <1>11 DEF Walked, Balance, U, R
  <2>2. acc.pending \in Seq(ToolCalls) /\ Balance(acc.pending, i)
    BY <1>11, <2>1 DEF Walked, Balance
  <2>3. Good(i) <=> (msg.role = "User" => acc.pending = <<>>)
    <3>1. \A c \in ToolCalls : /\ ResultsBefore(i, c) <= UsesBefore(i, c)
                               /\ ResultsBefore(i, c) = UsesBefore(i, c) <=> Times(acc.pending, c) = 0
      BY <1>3, <1>6, <1>11, <2>1
    <3>2. acc.pending = <<>> <=> \A c \in ToolCalls : Times(acc.pending, c) = 0
      BY <2>2, EmptyPending
    <3> QED BY <3>1, <3>2 DEF Good, msg
  <2>4. CASE msg.role = "User" /\ acc.pending # <<>>
    <3>1. new = [acc EXCEPT !.error = "DanglingToolCall"]
      BY <1>11, <2>4 DEF ValidateStep, msg
    <3>2. new.error # "None" /\ new = [pending |-> new.pending, error |-> new.error]
      BY <1>11, <3>1 DEF Walked
    <3> HIDE DEF new
    <3> QED BY <1>5, <2>3, <2>4, <3>2 DEF Walked, new, i
  <2>5. CASE ~(msg.role = "User" /\ acc.pending # <<>>)
    <3>1. new = acc
      BY <1>11, <2>5 DEF ValidateStep, msg
    <3>2. \A j \in 1..i : Good(j)
      BY <1>5, <1>11, <2>3, <2>5 DEF Walked
    <3> HIDE DEF new
    <3> QED BY <1>11, <2>2, <3>1, <3>2 DEF Walked, new, i
  <2> QED BY <2>4, <2>5
<1> QED BY <1>7, <1>8, <1>9, <1>10, <1>11 DEF new, i

LEMMA ValidateMatches ==
    ASSUME messages \in Seq(Written)
    PROVE  ValidateMatchesReference
<1> DEFINE n == Len(messages)
<1>1. n \in Nat /\ DOMAIN messages = 1..n
  OBVIOUS
<1>2. messages \in Seq(Messages)
  <2>1. Written \in SUBSET Messages
    BY WrittenMessages
  <2> QED BY <2>1
<1>3. PICK walk : /\ WalkOf(messages, walk)
                  /\ validate_transcript(messages) =
                       IF walk[n].error = "None" /\ walk[n].pending # <<>>
                       THEN "UnresolvedToolCall" ELSE walk[n].error
  BY <1>2, ValidateWalks
<1>4. \A i \in 0..n : walk[i] = IF i = 0 THEN Nothing ELSE ValidateStep(messages, walk[i - 1], i)
  BY <1>3 DEF WalkOf
<1> DEFINE S == {k \in 0..n : Walked(walk[k], k)}
<1>5. 0 \in S
  <2>1. 0 \in 0..n /\ walk[0] = Nothing
    BY <1>1, <1>4
  <2>2. <<>> \in Seq(ToolCalls) /\ \A c \in ToolCalls : Times(<<>>, c) = 0
    <3>1. <<>> \in Seq(ToolCalls)
      OBVIOUS
    <3>2. \A p \in Seq(ToolCalls) : p = <<>> => \A c \in ToolCalls : Times(p, c) = 0
      BY EmptyPending
    <3> QED BY <3>1, <3>2
  <2>3. Balance(<<>>, 0)
    BY <2>2, NothingBefore DEF Balance
  <2>4. Walked(Nothing, 0)
    BY <2>3 DEF Walked, Nothing
  <2> QED BY <2>1, <2>4
<1>6. ASSUME NEW k \in 0..n, k < n, k \in S
      PROVE  k + 1 \in S
  <2>1. k \in Nat /\ k + 1 \in 0..n /\ k + 1 # 0 /\ (k + 1) - 1 = k /\ k + 1 \in 1..n
    BY <1>1, <1>6
  <2>2. walk[k + 1] = ValidateStep(messages, walk[k], k + 1)
    BY <1>4, <2>1
  <2>3. Walked(ValidateStep(messages, walk[k], k + 1), k + 1)
    BY <1>6, <2>1, WalkStep
  <2> QED BY <2>1, <2>2, <2>3
<1>7. Walked(walk[n], n)
  <2> HIDE DEF S
  <2>1. 0..n \subseteq S
    BY <1>1, <1>5, <1>6, UpToEnd
  <2>2. n \in S
    BY <1>1, <2>1
  <2> QED BY <2>2 DEF S
<1> DEFINE last == walk[n]
<1>8. ValidTranscript(messages) <=> last.error = "None" /\ last.pending = <<>>
  BY <1>3 DEF ValidTranscript
<1>9. last.error = "None" =>
        (last.pending = <<>> <=> \A c \in ToolCalls : ResultsBefore(n, c) = UsesBefore(n, c))
  <2> SUFFICES ASSUME last.error = "None"
               PROVE  last.pending = <<>> <=> \A c \in ToolCalls : ResultsBefore(n, c) = UsesBefore(n, c)
    OBVIOUS
  <2>1. /\ last.pending \in Seq(ToolCalls)
        /\ \A c \in ToolCalls : Times(last.pending, c) + ResultsBefore(n, c) = UsesBefore(n, c)
    BY <1>7 DEF Walked, Balance
  <2>2. \A c \in ToolCalls : Times(last.pending, c) \in Nat
    BY <2>1, TimesType
  <2>3. \A c \in ToolCalls : ResultsBefore(n, c) \in Nat /\ UsesBefore(n, c) \in Nat
    BY <1>1, UsesNext
  <2>4. \A c \in ToolCalls : Times(last.pending, c) = 0 <=> ResultsBefore(n, c) = UsesBefore(n, c)
    BY <2>1, <2>2, <2>3
  <2>5. last.pending = <<>> <=> \A c \in ToolCalls : Times(last.pending, c) = 0
    BY <2>1, EmptyPending
  <2> QED BY <2>4, <2>5
<1>10. last.error = "None" <=> \A i \in 1..n : Good(i)
  BY <1>7 DEF Walked
<1> HIDE DEF last
<1> QED BY <1>1, <1>8, <1>9, <1>10 DEF ValidateMatchesReference, Good

-----------------------------------------------------------------------------
(***************************************************************************)
(* A history is made of what the reducer writes.                           *)
(***************************************************************************)
LEMMA AlwaysWritten == Spec => [](messages \in Seq(Written))
<1>1. Init => messages \in Seq(Written)
  BY DEF Init
<1>2. messages \in Seq(Written) /\ [Next]_messages => (messages \in Seq(Written))'
  BY DEF Next, RecordMessage, Written
<1> QED BY <1>1, <1>2, PTL DEF Spec

(***************************************************************************)
(* validate_transcript (transcript.rs) accepts exactly the histories in    *)
(* which every result answers a call made before it and not answered yet,  *)
(* no user message stands between a call and its result, and no call is    *)
(* left unanswered: for every set of calls and histories of any length,    *)
(* calls made more than once included.                                     *)
(***************************************************************************)
THEOREM ValidateIsTheReference == Spec => []ValidateMatchesReference
<1>1. messages \in Seq(Written) => ValidateMatchesReference
  BY ValidateMatches
<1> QED BY <1>1, AlwaysWritten, PTL

(***************************************************************************)
(* Whatever order calls, results and text were stored in, the copy that    *)
(* repair_tool_history makes for a model request passes the                *)
(* validate_transcript that execute_backend runs on it next.               *)
(***************************************************************************)
THEOREM RepairAlwaysValid == Spec => []RepairIsValid
<1>1. messages \in Seq(Written) => RepairIsValid
  BY Repaired, PairedIsValid DEF RepairIsValid
<1> QED BY <1>1, AlwaysWritten, PTL

(***************************************************************************)
(* repair_tool_history gives a call a recorded reply exactly when the      *)
(* history holds a result for it, before or after the call: no outcome is  *)
(* lost and none is made up.                                               *)
(***************************************************************************)
THEOREM RepairKeepsRecorded == Spec => []RepairKeepsOutcomes
<1>1. messages \in Seq(Written) => RepairKeepsOutcomes
  BY RepairedOutcomes DEF RepairKeepsOutcomes
<1> QED BY <1>1, AlwaysWritten, PTL
=============================================================================
