------------------------- MODULE ResponseSplitProofs -------------------------
(* Theorems of the cutting of replies, for every text and every length of a message.              *)
EXTENDS ResponseSplit, FiniteSetTheorems, SequenceTheorems, TLAPS

(* Induction on the naturals as a fact about sets: the finite sets of naturals are well founded.  *)
LEMMA LeastNumber ==
  ASSUME NEW T \in SUBSET Nat, T # {}
  PROVE  \E x \in T : \A y \in T : ~(y < x)
<1> DEFINE Below == {0..k : k \in T}
<1>1. IsWellFoundedOn(StrictSubsetOrdering(Nat), FiniteSubsetsOf(Nat))
  BY FS_StrictSubsetOrderingWellFounded
<1>2. Below \subseteq FiniteSubsetsOf(Nat)
  <2> SUFFICES ASSUME NEW k \in T PROVE 0..k \in FiniteSubsetsOf(Nat)
    OBVIOUS
  <2>1. k \in Int /\ 0..k \subseteq Nat /\ 0 \in Int
    OBVIOUS
  <2>2. IsFiniteSet(0..k)
    BY <2>1, FS_Interval
  <2> QED
    BY <2>1, <2>2 DEF FiniteSubsetsOf
<1>3. Below # {}
  OBVIOUS
<1>4. \E B \in Below : \A C \in Below : ~(<<C, B>> \in StrictSubsetOrdering(Nat))
  <2> HIDE DEF Below
  <2> QED
    BY <1>1, <1>2, <1>3, WFMin
<1>5. PICK k \in T : \A y \in T : ~(<<0..y, 0..k>> \in StrictSubsetOrdering(Nat))
  BY <1>4
<1> SUFFICES ASSUME NEW y \in T, y < k PROVE FALSE
  BY <1>5
<1>6. 0..y \subseteq 0..k /\ 0..y # 0..k /\ 0..y \in SUBSET Nat /\ 0..k \in SUBSET Nat
  <2>1. k \in 0..k /\ k \notin 0..y
    OBVIOUS
  <2> QED
    BY <2>1
<1> QED
  BY <1>5, <1>6 DEF StrictSubsetOrdering

LEMMA Induction ==
  ASSUME NEW S, 0 \in S, \A n \in Nat : n \in S => n + 1 \in S
  PROVE  Nat \subseteq S
<1> SUFFICES ASSUME Nat \ S # {} PROVE FALSE
  OBVIOUS
<1>1. PICK x \in Nat \ S : \A y \in Nat \ S : ~(y < x)
  BY LeastNumber
<1>2. x # 0 /\ x - 1 \in Nat
  BY <1>1
<1>3. x - 1 \in S
  BY <1>1, <1>2
<1> QED
  BY <1>1, <1>2, <1>3

-------------------------------------------------------------------------------
(* Sequences.                                                                                     *)
LEMMA AppendConcat ==
  ASSUME NEW E, NEW s \in Seq(E), NEW t \in Seq(E), NEW e \in E
  PROVE  s \o Append(t, e) = Append(s \o t, e)
<1>1. <<e>> \in Seq(E) /\ s \o t \in Seq(E)
  BY ConcatProperties
<1>2. Append(t, e) = t \o <<e>> /\ Append(s \o t, e) = (s \o t) \o <<e>>
  BY <1>1, AppendIsConcat
<1>3. (s \o t) \o <<e>> = s \o (t \o <<e>>)
  BY <1>1, ConcatAssociative
<1> QED
  BY <1>2, <1>3

LEMMA EmptyText ==
  /\ <<>> \in Text /\ Len(<<>>) = 0
  /\ \A t \in Text : <<>> \o t = t /\ t \o <<>> = t /\ Len(t) \in Nat /\ (Len(t) = 0 <=> t = <<>>)
  /\ \A t \in Text, c \in Nat : Append(t, c) \in Text /\ Append(t, c) # <<>>
<1> USE DEF Text
<1>1. <<>> \in Text /\ Len(<<>>) = 0
  BY EmptySeq
<1>2. ASSUME NEW t \in Seq(Nat)
      PROVE  <<>> \o t = t /\ t \o <<>> = t /\ Len(t) \in Nat /\ (Len(t) = 0 <=> t = <<>>)
  <2>1. <<>> \o t = t /\ t \o <<>> = t
    BY ConcatEmptySeq
  <2>2. Len(t) \in Nat /\ (t # <<>> => Len(t) # 0)
    BY EmptySeq
  <2> QED
    BY <1>1, <2>1, <2>2
<1>3. ASSUME NEW t \in Seq(Nat), NEW c \in Nat PROVE Append(t, c) \in Text /\ Append(t, c) # <<>>
  BY AppendProperties
<1> QED
  BY <1>1, <1>2, <1>3

LEMMA AppendText ==
  ASSUME NEW s \in Text, NEW t \in Text, NEW c \in Nat
  PROVE  s \o Append(t, c) = Append(s \o t, c)
<1>1. s \in Seq(Nat) /\ t \in Seq(Nat)
  BY DEF Text
<1> QED
  BY <1>1, AppendConcat

LEMMA ConcatTexts ==
  ASSUME NEW a \in Text, NEW b \in Text, NEW c \in Text
  PROVE  (a \o b) \o c = a \o (b \o c)
<1>1. a \in Seq(Nat) /\ b \in Seq(Nat) /\ c \in Seq(Nat)
  BY DEF Text
<1> QED
  BY <1>1, ConcatAssociative

-------------------------------------------------------------------------------
(* Loops.                                                                                         *)

(* The values of a loop whose steps are given by a function of what came before and the element.  *)
IsRun(after, step, start, seq, n, S) ==
  /\ after \in [0..n -> S] /\ after[0] = start
  /\ \A i \in 1..n : after[i] = step[<<after[i - 1], seq[i]>>]

LEMMA RunExists ==
  ASSUME NEW S, NEW E, NEW start \in S, NEW step \in [S \X E -> S], NEW seq, NEW N \in Nat,
         \A i \in 1..N : seq[i] \in E
  PROVE  \E run : IsRun(run, step, start, seq, N, S)
<1> DEFINE Upto(n) == \E f : IsRun(f, step, start, seq, n, S)
           Good == {n \in Nat : n <= N => Upto(n)}
<1>1. 0 \in Good
  <2> DEFINE f == [i \in 0..0 |-> start]
  <2>1. IsRun(f, step, start, seq, 0, S)
    BY DEF IsRun
  <2>2. Upto(0)
    BY <2>1
  <2> QED
    BY <2>2
<1>2. ASSUME NEW n \in Nat, n \in Good PROVE n + 1 \in Good
  <2> SUFFICES ASSUME n + 1 <= N PROVE Upto(n + 1)
    OBVIOUS
  <2>1. PICK f : IsRun(f, step, start, seq, n, S)
    BY <1>2
  <2>f. f \in [0..n -> S] /\ f[0] = start /\ \A i \in 1..n : f[i] = step[<<f[i - 1], seq[i]>>]
    BY <2>1 DEF IsRun
  <2> DEFINE h == [i \in 0..(n + 1) |-> IF i = n + 1 THEN step[<<f[n], seq[n + 1]>>] ELSE f[i]]
  <2>2. step[<<f[n], seq[n + 1]>>] \in S
    <3>1. n + 1 \in 1..N /\ n \in 0..n
      OBVIOUS
    <3> QED
      BY <2>f, <3>1
  <2>3. h \in [0..(n + 1) -> S] /\ h[0] = start /\ h[n + 1] = step[<<f[n], seq[n + 1]>>]
        /\ \A i \in 0..n : h[i] = f[i]
    BY <2>f, <2>2
  <2> HIDE DEF h
  <2>4. ASSUME NEW i \in 1..(n + 1) PROVE h[i] = step[<<h[i - 1], seq[i]>>]
    <3>1. CASE i = n + 1
      <4>1. i - 1 = n /\ n \in 0..n
        BY <3>1
      <4> QED
        BY <2>3, <3>1, <4>1
    <3>2. CASE i # n + 1
      <4>1. i \in 1..n /\ i \in 0..n /\ i - 1 \in 0..n
        BY <3>2
      <4> QED
        BY <2>f, <2>3, <4>1
    <3> QED
      BY <3>1, <3>2
  <2> QED
    BY <2>3, <2>4 DEF IsRun
<1> HIDE DEF Good
<1>3. Nat \subseteq Good
  BY <1>1, <1>2, Induction
<1>4. N \in Good
  BY <1>3
<1> QED
  BY <1>4 DEF Good

(* Whatever takes the same steps while it stays within S, is that run.                            *)
Follows(after, step, start, seq, n, S) ==
  /\ after[0] = start
  /\ \A i \in 1..n : after[i - 1] \in S => after[i] = step[<<after[i - 1], seq[i]>>]

LEMMA RunIsUnique ==
  ASSUME NEW S, NEW step, NEW start, NEW seq, NEW n \in Nat,
         NEW run, IsRun(run, step, start, seq, n, S),
         NEW after, Follows(after, step, start, seq, n, S)
  PROVE  \A i \in 0..n : after[i] = run[i]
<1> DEFINE Same == {i \in Nat : i <= n => after[i] = run[i]}
<1>2. 0 \in Same
  BY DEF IsRun, Follows
<1>3. ASSUME NEW i \in Nat, i \in Same PROVE i + 1 \in Same
  <2> SUFFICES ASSUME i + 1 <= n PROVE after[i + 1] = run[i + 1]
    OBVIOUS
  <2>1. i + 1 \in 1..n /\ (i + 1) - 1 = i /\ i \in 0..n /\ i <= n
    OBVIOUS
  <2>2. after[i] = run[i] /\ run[i] \in S
    BY <1>3, <2>1 DEF IsRun
  <2> QED
    BY <2>1, <2>2 DEF IsRun, Follows
<1> HIDE DEF Same
<1>4. Nat \subseteq Same
  BY <1>2, <1>3, Induction
<1> QED
  BY <1>4 DEF Same

(* A run over one element more takes one step more.                                               *)
Machine(S, E, start, step) == start \in S /\ step \in [S \X E -> S]

LEMMA RunGrows ==
  ASSUME NEW S, NEW E, NEW start, NEW step, Machine(S, E, start, step), NEW seq \in Seq(E), NEW e \in E,
         NEW run, IsRun(run, step, start, seq, Len(seq), S),
         NEW more, IsRun(more, step, start, Append(seq, e), Len(Append(seq, e)), S)
  PROVE  /\ run[Len(seq)] \in S
         /\ more[Len(Append(seq, e))] = step[<<run[Len(seq)], e>>]
<1> USE DEF Machine
<1>1. PICK N \in Nat : N = Len(seq)
  OBVIOUS
<1>2. PICK longer : longer = Append(seq, e)
  OBVIOUS
<1>3. Len(longer) = N + 1 /\ longer[N + 1] = e /\ \A i \in 1..N : longer[i] = seq[i]
  BY <1>1, <1>2
<1>4. IsRun(more, step, start, longer, N + 1, S)
  BY <1>2, <1>3
<1>5. IsRun(run, step, start, seq, N, S)
  BY <1>1
<1>6. Follows(more, step, start, seq, N, S)
  <2>1. \A i \in 1..N : i \in 1..(N + 1)
    OBVIOUS
  <2> QED
    BY <1>3, <1>4, <2>1 DEF IsRun, Follows
<1>7. N \in 0..N
  OBVIOUS
<1>8. \A i \in 0..N : more[i] = run[i]
  BY <1>5, <1>6, RunIsUnique
<1>9. N + 1 \in 1..(N + 1) /\ (N + 1) - 1 = N
  OBVIOUS
<1>10. more[N + 1] = step[<<more[N], e>>]
  BY <1>3, <1>4, <1>9 DEF IsRun
<1>11. run[N] \in S
  BY <1>5, <1>7 DEF IsRun
<1>12. more[N + 1] = step[<<run[N], e>>]
  BY <1>7, <1>8, <1>10
<1>13. Len(Append(seq, e)) = N + 1
  BY <1>2, <1>3
<1> QED
  BY <1>1, <1>11, <1>12, <1>13

(* What a loop gives: the last value of its run.                                                  *)
IsLoop(value, step, start, seq, S) ==
  \E run : IsRun(run, step, start, seq, Len(seq), S) /\ value = run[Len(seq)]

LEMMA LoopGrows ==
  ASSUME NEW S, NEW E, NEW start, NEW step, Machine(S, E, start, step), NEW seq \in Seq(E), NEW e \in E,
         NEW value, IsLoop(value, step, start, seq, S),
         NEW next, IsLoop(next, step, start, Append(seq, e), S)
  PROVE  value \in S /\ next = step[<<value, e>>]
<1>1. PICK run : IsRun(run, step, start, seq, Len(seq), S) /\ value = run[Len(seq)]
  BY DEF IsLoop
<1>2. PICK more : /\ IsRun(more, step, start, Append(seq, e), Len(Append(seq, e)), S)
                  /\ next = more[Len(Append(seq, e))]
  BY DEF IsLoop
<1>3. run[Len(seq)] \in S /\ more[Len(Append(seq, e))] = step[<<run[Len(seq)], e>>]
  BY <1>1, <1>2, RunGrows
<1> QED
  BY <1>1, <1>2, <1>3

LEMMA LoopTyped ==
  ASSUME NEW S, NEW E, NEW start, NEW step, Machine(S, E, start, step), NEW seq \in Seq(E),
         NEW value, IsLoop(value, step, start, seq, S)
  PROVE  value \in S
<1>1. Len(seq) \in 0..Len(seq)
  OBVIOUS
<1> QED
  BY <1>1 DEF IsLoop, IsRun

LEMMA LoopStarts ==
  ASSUME NEW S, NEW start, NEW step, NEW value, IsLoop(value, step, start, <<>>, S)
  PROVE  value = start
<1>1. Len(<<>>) = 0
  BY EmptyText
<1> QED
  BY <1>1 DEF IsLoop, IsRun

(* Induction on sequences, as a fact about sets.                                                  *)
LEMMA SequenceInduction ==
  ASSUME NEW E, NEW P, <<>> \in P, \A s \in Seq(E), e \in E : s \in P => Append(s, e) \in P
  PROVE  Seq(E) \subseteq P
<1> DEFINE Good == {n \in Nat : \A s \in Seq(E) : Len(s) = n => s \in P}
<1>1. 0 \in Good
  OBVIOUS
<1>2. ASSUME NEW n \in Nat, n \in Good PROVE n + 1 \in Good
  <2> SUFFICES ASSUME NEW s \in Seq(E), Len(s) = n + 1 PROVE s \in P
    OBVIOUS
  <2>1. s # <<>>
    OBVIOUS
  <2>2. PICK t \in Seq(E), e \in E : s = Append(t, e)
    BY <2>1, SequenceEmptyOrAppend
  <2>3. Len(t) = n
    BY <2>2
  <2> QED
    BY <1>2, <2>2, <2>3
<1> HIDE DEF Good
<1>3. Nat \subseteq Good
  BY <1>1, <1>2, Induction
<1> QED
  BY <1>3 DEF Good

-------------------------------------------------------------------------------
(* Letters.                                                                                       *)
SeeStep == [x \in Text \X Nat |-> See(x[1], x[2])]

LEMMA SeeStepIs ==
  /\ SeeStep \in [Text \X Nat -> Text]
  /\ \A v \in Text, e \in Nat : SeeStep[<<v, e>>] = See(v, e)
<1>1. \A v \in Text, e \in Nat : See(v, e) \in Text
  BY EmptyText DEF See
<1> QED
  BY <1>1 DEF SeeStep

LEMMA LettersIsLoop ==
  ASSUME NEW seq \in Seq(Nat)
  PROVE  IsLoop(Letters(seq), SeeStep, <<>>, seq, Text)
<1>0. <<>> \in Text
  BY EmptyText
<1>1. PICK N \in Nat : N = Len(seq)
  OBVIOUS
<1>2. \A i \in 1..N : seq[i] \in Nat
  BY <1>1
<1>3. PICK run : IsRun(run, SeeStep, <<>>, seq, N, Text)
  BY <1>0, <1>2, SeeStepIs, RunExists
<1>4. \A i \in 1..N : i - 1 \in 0..N /\ i \in 0..N
  OBVIOUS
<1>5. run = [n \in 0..N |-> IF n = 0 THEN <<>> ELSE See(run[n - 1], seq[n])]
  <2>1. \A i \in 1..N : run[i] = See(run[i - 1], seq[i])
    BY <1>2, <1>3, <1>4, SeeStepIs DEF IsRun
  <2> QED
    BY <1>3, <2>1 DEF IsRun
<1>6. PICK after :
         after = CHOOSE f : f = [n \in 0..N |-> IF n = 0 THEN <<>> ELSE See(f[n - 1], seq[n])]
  OBVIOUS
<1>7. after = [n \in 0..N |-> IF n = 0 THEN <<>> ELSE See(after[n - 1], seq[n])]
  BY <1>5, <1>6
<1>8. after[0] = <<>> /\ \A i \in 1..N : after[i] = See(after[i - 1], seq[i])
  BY <1>4, <1>7
<1>9. Follows(after, SeeStep, <<>>, seq, N, Text)
  BY <1>2, <1>8, SeeStepIs DEF Follows
<1>10. \A i \in 0..N : after[i] = run[i]
  BY <1>3, <1>9, RunIsUnique
<1>11. Letters(seq) = after[N]
  BY <1>1, <1>6 DEF Letters, Loop
<1>12. Letters(seq) = run[N]
  BY <1>10, <1>11
<1> QED
  BY <1>1, <1>3, <1>12 DEF IsLoop

LEMMA LettersGrow ==
  /\ Letters(<<>>) = <<>>
  /\ \A text \in Text, c \in Nat :
        Letters(text) \in Text /\ Letters(Append(text, c)) = See(Letters(text), c)
<1>1. Machine(Text, Nat, <<>>, SeeStep)
  BY EmptyText, SeeStepIs DEF Machine
<1>2. <<>> \in Seq(Nat) /\ \A text \in Seq(Nat), c \in Nat : Append(text, c) \in Seq(Nat)
  OBVIOUS
<1>3. IsLoop(Letters(<<>>), SeeStep, <<>>, <<>>, Text)
  BY <1>2, LettersIsLoop
<1>4. ASSUME NEW text \in Seq(Nat), NEW c \in Nat
      PROVE  Letters(text) \in Text /\ Letters(Append(text, c)) = SeeStep[<<Letters(text), c>>]
  <2>1. IsLoop(Letters(text), SeeStep, <<>>, text, Text)
    BY LettersIsLoop
  <2>2. IsLoop(Letters(Append(text, c)), SeeStep, <<>>, Append(text, c), Text)
    BY <1>2, LettersIsLoop
  <2> QED
    BY <1>1, <2>1, <2>2, LoopGrows
<1> QED
  BY <1>3, <1>4, LoopStarts, SeeStepIs DEF Text

(* Letters of two texts one after the other.                                                      *)
LEMMA LettersConcat ==
  ASSUME NEW s \in Text, NEW t \in Text
  PROVE  s \o t \in Text /\ Letters(s \o t) = Letters(s) \o Letters(t)
<1>0. \A u, v \in Text : u \o v \in Text
  BY DEF Text
<1> DEFINE P == {u \in Text : Letters(s \o u) = Letters(s) \o Letters(u)}
<1>1. <<>> \in P
  <2>1. <<>> \in Text /\ s \o <<>> = s
    BY DEF Text
  <2>2. Letters(s) \in Text
    BY LettersGrow
  <2>3. Letters(s) \o <<>> = Letters(s)
    BY <2>2 DEF Text
  <2> QED
    BY <2>1, <2>3, LettersGrow
<1>2. ASSUME NEW u \in Seq(Nat), NEW c \in Nat, u \in P PROVE Append(u, c) \in P
  <2>1. u \in Text /\ s \o u \in Text /\ Append(u, c) \in Text
    BY <1>0, <1>2 DEF Text
  <2>2. s \o Append(u, c) = Append(s \o u, c)
    BY <2>1 DEF Text
  <2>3. Letters(Append(s \o u, c)) = See(Letters(s) \o Letters(u), c)
    BY <1>2, <2>1, LettersGrow
  <2>4. Letters(Append(u, c)) = See(Letters(u), c)
    BY <2>1, LettersGrow
  <2>5. Letters(s) \in Text /\ Letters(u) \in Text
    BY <2>1, LettersGrow
  <2>6. See(Letters(s) \o Letters(u), c) = Letters(s) \o See(Letters(u), c)
    <3>1. ASSUME NEW x \in Text, NEW y \in Text PROVE Append(x \o y, c) = x \o Append(y, c)
      BY AppendText
    <3> QED
      BY <2>5, <3>1 DEF See
  <2>7. Letters(s \o Append(u, c)) = Letters(s) \o Letters(Append(u, c))
    BY <2>2, <2>3, <2>4, <2>6
  <2> QED
    BY <2>1, <2>7
<1> HIDE DEF P
<1>3. Seq(Nat) \subseteq P
  BY <1>1, <1>2, SequenceInduction
<1> QED
  BY <1>0, <1>3 DEF Text, P

(* A text with a character that is not a newline is not blank.                                    *)
LEMMA LettersOfOne ==
  ASSUME NEW c \in Nat
  PROVE  <<c>> \in Text /\ Letters(<<c>>) = IF c = NL THEN <<>> ELSE <<c>>
<1>1. <<>> \in Text /\ <<c>> = Append(<<>>, c) /\ <<c>> \in Text
  BY DEF Text
<1> QED
  BY <1>1, LettersGrow DEF See

LEMMA NotBlank ==
  ASSUME NEW text \in Text, NEW i \in 1..Len(text), text[i] # NL
  PROVE  Letters(text) # <<>>
<1> DEFINE P == {u \in Text : \A k \in 1..Len(u) : u[k] # NL => Letters(u) # <<>>}
<1>1. <<>> \in P
  BY DEF Text
<1>2. ASSUME NEW u \in Seq(Nat), NEW c \in Nat, u \in P PROVE Append(u, c) \in P
  <2>1. u \in Text /\ Append(u, c) \in Text /\ Letters(u) \in Text
    BY LettersGrow DEF Text
  <2>2. Letters(Append(u, c)) = See(Letters(u), c)
    BY <2>1, LettersGrow
  <2>3. \A v \in Text : Append(v, c) # <<>>
    BY EmptyText
  <2>4. ASSUME NEW k \in 1..Len(Append(u, c)), Append(u, c)[k] # NL
        PROVE  Letters(Append(u, c)) # <<>>
    <3>1. CASE k \in 1..Len(u)
      <4>1. Append(u, c)[k] = u[k]
        BY <3>1
      <4> QED
        BY <1>2, <2>1, <2>2, <2>3, <2>4, <3>1, <4>1 DEF See
    <3>2. CASE k \notin 1..Len(u)
      <4>1. Append(u, c)[k] = c
        BY <3>2
      <4> QED
        BY <2>1, <2>2, <2>3, <2>4, <4>1 DEF See
    <3> QED
      BY <3>1, <3>2
  <2> QED
    BY <2>1, <2>4
<1> HIDE DEF P
<1>3. Seq(Nat) \subseteq P
  BY <1>1, <1>2, SequenceInduction
<1> QED
  BY <1>3 DEF Text, P

-------------------------------------------------------------------------------
(* Texts one after the other.                                                                     *)
FlattenStep == [x \in Text \X Text |-> x[1] \o x[2]]

LEMMA FlattenStepIs ==
  /\ Machine(Text, Text, <<>>, FlattenStep)
  /\ \A s, t \in Text : FlattenStep[<<s, t>>] = s \o t
<1>1. <<>> \in Text /\ \A s, t \in Text : s \o t \in Text
  BY DEF Text
<1> QED
  BY <1>1 DEF FlattenStep, Machine

LEMMA FlattenIsLoop ==
  ASSUME NEW seqs \in Seq(Text)
  PROVE  IsLoop(FlattenSeq(seqs), FlattenStep, <<>>, seqs, Text)
<1>1. PICK N \in Nat : N = Len(seqs)
  OBVIOUS
<1>2. \A i \in 1..N : seqs[i] \in Text
  BY <1>1
<1>3. PICK run : IsRun(run, FlattenStep, <<>>, seqs, N, Text)
  BY <1>2, FlattenStepIs, RunExists DEF Machine
<1>4. CASE N = 0
  <2>1. seqs = <<>>
    BY <1>1, <1>4, EmptySeq
  <2>2. FlattenSeq(seqs) = <<>>
    BY <1>1, <1>4, <2>1 DEF FlattenSeq
  <2> QED
    BY <1>1, <1>3, <1>4, <2>2 DEF IsLoop, IsRun
<1>5. CASE N # 0
  <2>1. \A i \in 1..N : i # 1 => i - 1 \in 1..N
    OBVIOUS
  <2>2. \A i \in 1..N : run[i] = run[i - 1] \o seqs[i] /\ run[i - 1] \in Text
    <3>1. \A i \in 1..N : i - 1 \in 0..N
      OBVIOUS
    <3> QED
      BY <1>2, <1>3, <3>1, FlattenStepIs DEF IsRun
  <2>3. 1 \in 1..N => run[1] = seqs[1]
    <3>1. 1 - 1 = 0
      OBVIOUS
    <3>2. 1 \in 1..N => run[1] = run[0] \o seqs[1]
      BY <2>2, <3>1
    <3> QED
      BY <1>2, <1>3, <3>2, EmptyText DEF IsRun
  <2>4. PICK f : f = [i \in 1..N |-> run[i]]
    OBVIOUS
  <2>5. f = [i \in 1..N |-> IF i = 1 THEN seqs[1] ELSE f[i - 1] \o seqs[i]]
    <3>1. \A i \in 1..N : f[i] = IF i = 1 THEN seqs[1] ELSE f[i - 1] \o seqs[i]
      BY <2>1, <2>2, <2>3, <2>4
    <3> QED
      BY <2>4, <3>1
  <2>6. PICK flatten : flatten = CHOOSE g :
           g = [i \in 1..N |-> IF i = 1 THEN seqs[i] ELSE g[i - 1] \o seqs[i]]
    OBVIOUS
  <2>7. flatten = [i \in 1..N |-> IF i = 1 THEN seqs[i] ELSE flatten[i - 1] \o seqs[i]]
    BY <2>5, <2>6
  <2>8. PICK after : after = [i \in 0..N |-> IF i = 0 THEN <<>> ELSE flatten[i]]
    OBVIOUS
  <2>9. Follows(after, FlattenStep, <<>>, seqs, N, Text)
    <3>1. ASSUME NEW i \in 1..N, after[i - 1] \in Text PROVE after[i] = after[i - 1] \o seqs[i]
      <4>1. i \in 0..N /\ i - 1 \in 0..N /\ i # 0 /\ after[i] = flatten[i]
        BY <2>8
      <4>2. CASE i = 1
        <5>1. after[i - 1] = <<>> /\ after[i] = seqs[i]
          BY <2>7, <2>8, <4>1, <4>2
        <5> QED
          BY <1>2, <5>1, EmptyText
      <4>3. CASE i # 1
        <5>1. i - 1 # 0 /\ after[i - 1] = flatten[i - 1]
          BY <2>8, <4>1, <4>3
        <5> QED
          BY <2>7, <4>1, <4>3, <5>1
      <4> QED
        BY <4>2, <4>3
    <3>2. after[0] = <<>>
      BY <2>8
    <3> QED
      BY <1>2, <3>1, <3>2, FlattenStepIs DEF Follows
  <2>10. N \in 0..N /\ N \in 1..N
    BY <1>5
  <2>11. after[N] = run[N] /\ after[N] = flatten[N]
    <3>1. \A i \in 0..N : after[i] = run[i]
      BY <1>3, <2>9, RunIsUnique
    <3> QED
      BY <1>5, <2>8, <2>10, <3>1
  <2>12. FlattenSeq(seqs) = flatten[N]
    BY <1>1, <1>5, <2>6 DEF FlattenSeq
  <2> QED
    BY <1>1, <1>3, <2>11, <2>12 DEF IsLoop
<1> QED
  BY <1>4, <1>5

LEMMA FlattenGrows ==
  /\ FlattenSeq(<<>>) = <<>>
  /\ \A seqs \in Seq(Text), text \in Text :
        FlattenSeq(seqs) \in Text /\ FlattenSeq(Append(seqs, text)) = FlattenSeq(seqs) \o text
<1>0. <<>> \in Seq(Text)
  OBVIOUS
<1>1. IsLoop(FlattenSeq(<<>>), FlattenStep, <<>>, <<>>, Text)
  BY <1>0, FlattenIsLoop
<1>2. ASSUME NEW seqs \in Seq(Text), NEW text \in Text
      PROVE  /\ FlattenSeq(seqs) \in Text
             /\ FlattenSeq(Append(seqs, text)) = FlattenStep[<<FlattenSeq(seqs), text>>]
  <2>1. Append(seqs, text) \in Seq(Text)
    OBVIOUS
  <2>2. /\ IsLoop(FlattenSeq(seqs), FlattenStep, <<>>, seqs, Text)
        /\ IsLoop(FlattenSeq(Append(seqs, text)), FlattenStep, <<>>, Append(seqs, text), Text)
    BY <2>1, FlattenIsLoop
  <2> QED
    BY <2>2, FlattenStepIs, LoopGrows
<1> QED
  BY <1>1, <1>2, LoopStarts, FlattenStepIs

(* What a reader sees of texts one after the other.                                               *)
Seen(seqs) == Letters(FlattenSeq(seqs))

LEMMA SeenGrows ==
  /\ Seen(<<>>) = <<>>
  /\ \A seqs \in Seq(Text), text \in Text :
        Seen(seqs) \in Text /\ Seen(Append(seqs, text)) = Seen(seqs) \o Letters(text)
BY FlattenGrows, LettersGrow, LettersConcat DEF Seen

-------------------------------------------------------------------------------
(* Paragraphs.                                                                                    *)
Reader == [parts : Seq(Text), part : Text]

(* What a reader sees of the parts read so far.                                                   *)
Read(acc) == Seen(acc.parts) \o Letters(acc.part)

LEMMA SeeConcat ==
  ASSUME NEW s \in Text, NEW t \in Text, NEW c \in Nat
  PROVE  s \o See(t, c) = See(s \o t, c)
BY AppendText DEF See

LEMMA ExtendReads ==
  ASSUME NEW acc \in Reader, NEW c \in Nat
  PROVE  Extend(acc, c) \in Reader /\ Read(Extend(acc, c)) = See(Read(acc), c)
<1>1. acc.parts \in Seq(Text) /\ acc.part \in Text
  BY DEF Reader
<1>2. Append(acc.part, c) \in Text
  BY <1>1, EmptyText
<1>3. PICK new : new = Extend(acc, c)
  OBVIOUS
<1>4. new \in Reader /\ new.parts = acc.parts /\ new.part = Append(acc.part, c)
  BY <1>1, <1>2, <1>3 DEF Extend, Reader
<1>5. Letters(Append(acc.part, c)) = See(Letters(acc.part), c)
  BY <1>1, LettersGrow
<1>6. Seen(acc.parts) \in Text /\ Letters(acc.part) \in Text
  BY <1>1, LettersGrow, SeenGrows, EmptyText
<1>7. Read(new) = See(Read(acc), c)
  BY <1>4, <1>5, <1>6, SeeConcat DEF Read
<1> QED
  BY <1>3, <1>4, <1>7

LEMMA CutReads ==
  ASSUME NEW acc \in Reader, NEW part \in Text, Letters(part) = Letters(acc.part)
  PROVE  Cut(acc, part) \in Reader /\ Read(Cut(acc, part)) = Read(acc)
<1>1. acc.parts \in Seq(Text) /\ acc.part \in Text
  BY DEF Reader
<1>2. PICK new : new = Cut(acc, part)
  OBVIOUS
<1>3. new \in Reader /\ new.parts = Append(acc.parts, part) /\ new.part = <<>>
  BY <1>1, <1>2, EmptyText DEF Cut, Reader
<1>4. Seen(Append(acc.parts, part)) = Seen(acc.parts) \o Letters(part) /\ Seen(acc.parts) \in Text
  BY <1>1, SeenGrows
<1>5. Seen(acc.parts) \o Letters(part) \in Text
  BY <1>4, LettersGrow, LettersConcat
<1>6. Read(new) = Read(acc)
  BY <1>3, <1>4, <1>5, LettersGrow, EmptyText DEF Read
<1> QED
  BY <1>2, <1>3, <1>6

LEMMA ReadParagraphReads ==
  ASSUME NEW acc \in Reader, NEW c \in Nat
  PROVE  ReadParagraph(acc, c) \in Reader /\ Read(ReadParagraph(acc, c)) = See(Read(acc), c)
<1>1. CASE c = NL /\ acc.part # <<>> /\ Last(acc.part) = NL
  <2>1. acc.part \in Seq(Nat) /\ acc.part # <<>>
    BY <1>1 DEF Reader, Text
  <2>2. PICK t \in Seq(Nat), d \in Nat : acc.part = Append(t, d)
    BY <2>1, SequenceEmptyOrAppend
  <2>3. Len(t) \in Nat /\ Len(Append(t, d)) = Len(t) + 1 /\ Append(t, d)[Len(t) + 1] = d
        /\ \A i \in 1..Len(t) : Append(t, d)[i] = t[i]
    BY AppendProperties
  <2>4. d = NL
    BY <1>1, <2>2, <2>3 DEF Last
  <2>5. Front(acc.part) = t
    <3>1. Front(acc.part) = SubSeq(Append(t, d), 1, Len(t))
      BY <2>2, <2>3 DEF Front
    <3> QED
      BY <2>2, <3>1
  <2>6. Letters(t) = Letters(acc.part)
    BY <2>2, <2>4, LettersGrow DEF See, Text
  <2>7. ReadParagraph(acc, c) = Cut(acc, t)
    BY <1>1, <2>5 DEF ReadParagraph
  <2> QED
    BY <1>1, <2>6, <2>7, CutReads DEF See, Text
<1>2. CASE ~(c = NL /\ acc.part # <<>> /\ Last(acc.part) = NL)
  BY <1>2, ExtendReads DEF ReadParagraph
<1> QED
  BY <1>1, <1>2

LEMMA NoPartsRead == NoParts \in Reader /\ Read(NoParts) = <<>>
<1>1. NoParts \in Reader /\ NoParts.parts = <<>> /\ NoParts.part = <<>>
  BY EmptyText DEF NoParts, Reader
<1> QED
  BY <1>1, SeenGrows, LettersGrow, EmptyText DEF Read

LEMMA AllPartsRead ==
  ASSUME NEW acc \in Reader
  PROVE  AllParts(acc) \in Seq(Text) /\ Seen(AllParts(acc)) = Read(acc)
<1>1. acc.parts \in Seq(Text) /\ acc.part \in Text
  BY DEF Reader
<1> QED
  BY <1>1, SeenGrows DEF AllParts, Read

ReadParagraphStep == [x \in Reader \X Nat |-> ReadParagraph(x[1], x[2])]

LEMMA ReadParagraphStepIs ==
  /\ ReadParagraphStep \in [Reader \X Nat -> Reader]
  /\ \A v \in Reader, e \in Nat : ReadParagraphStep[<<v, e>>] = ReadParagraph(v, e)
<1>1. \A v \in Reader, e \in Nat : ReadParagraph(v, e) \in Reader
  BY ReadParagraphReads
<1> QED
  BY <1>1 DEF ReadParagraphStep

LEMMA ParagraphsIsLoop ==
  ASSUME NEW seq \in Seq(Nat)
  PROVE  IsLoop(Loop(ReadParagraph, NoParts, seq), ReadParagraphStep, NoParts, seq, Reader)
<1>0. NoParts \in Reader
  BY NoPartsRead
<1>1. PICK N \in Nat : N = Len(seq)
  OBVIOUS
<1>2. \A i \in 1..N : seq[i] \in Nat
  BY <1>1
<1>3. PICK run : IsRun(run, ReadParagraphStep, NoParts, seq, N, Reader)
  BY <1>0, <1>2, ReadParagraphStepIs, RunExists
<1>4. \A i \in 1..N : i - 1 \in 0..N /\ i \in 0..N
  OBVIOUS
<1>5. run = [n \in 0..N |-> IF n = 0 THEN NoParts ELSE ReadParagraph(run[n - 1], seq[n])]
  <2>1. \A i \in 1..N : run[i] = ReadParagraph(run[i - 1], seq[i])
    BY <1>2, <1>3, <1>4, ReadParagraphStepIs DEF IsRun
  <2> QED
    BY <1>3, <2>1 DEF IsRun
<1>6. PICK after :
         after = CHOOSE f : f = [n \in 0..N |-> IF n = 0 THEN NoParts ELSE ReadParagraph(f[n - 1], seq[n])]
  OBVIOUS
<1>7. after = [n \in 0..N |-> IF n = 0 THEN NoParts ELSE ReadParagraph(after[n - 1], seq[n])]
  BY <1>5, <1>6
<1>8. after[0] = NoParts /\ \A i \in 1..N : after[i] = ReadParagraph(after[i - 1], seq[i])
  BY <1>4, <1>7
<1>9. Follows(after, ReadParagraphStep, NoParts, seq, N, Reader)
  BY <1>2, <1>8, ReadParagraphStepIs DEF Follows
<1>10. \A i \in 0..N : after[i] = run[i]
  BY <1>3, <1>9, RunIsUnique
<1>11. Loop(ReadParagraph, NoParts, seq) = after[N]
  BY <1>1, <1>6 DEF Loop
<1>12. Loop(ReadParagraph, NoParts, seq) = run[N]
  BY <1>10, <1>11
<1> QED
  BY <1>1, <1>3, <1>12 DEF IsLoop

LEMMA ParagraphsGrow ==
  ASSUME NEW text \in Text
  PROVE  Loop(ReadParagraph, NoParts, text) \in Reader /\ Read(Loop(ReadParagraph, NoParts, text)) = Letters(text)
<1>0. Machine(Reader, Nat, NoParts, ReadParagraphStep)
  BY NoPartsRead, ReadParagraphStepIs DEF Machine
<1> DEFINE loop(seq) == Loop(ReadParagraph, NoParts, seq)
           P == {seq \in Text : Read(loop(seq)) = Letters(seq)}
<1>1. \A seq \in Seq(Nat) : IsLoop(loop(seq), ReadParagraphStep, NoParts, seq, Reader)
  BY ParagraphsIsLoop
<1> HIDE DEF loop
<1>2. <<>> \in P
  <2>1. <<>> \in Seq(Nat)
    OBVIOUS
  <2>2. loop(<<>>) = NoParts
    BY <1>1, <2>1, LoopStarts
  <2> QED
    BY <2>2, NoPartsRead, LettersGrow, EmptyText
<1>3. ASSUME NEW seq \in Seq(Nat), NEW c \in Nat
      PROVE  loop(seq) \in Reader /\ loop(Append(seq, c)) = ReadParagraph(loop(seq), c)
  <2>1. Append(seq, c) \in Seq(Nat)
    OBVIOUS
  <2>2. /\ IsLoop(loop(seq), ReadParagraphStep, NoParts, seq, Reader)
        /\ IsLoop(loop(Append(seq, c)), ReadParagraphStep, NoParts, Append(seq, c), Reader)
    BY <1>1, <2>1
  <2>3. loop(seq) \in Reader /\ loop(Append(seq, c)) = ReadParagraphStep[<<loop(seq), c>>]
    BY <1>0, <2>2, LoopGrows
  <2> QED
    BY <2>3, ReadParagraphStepIs
<1>4. ASSUME NEW seq \in Seq(Nat), NEW c \in Nat, seq \in P PROVE Append(seq, c) \in P
  <2>1. seq \in Text /\ Append(seq, c) \in Text
    BY EmptyText DEF Text
  <2>2. Read(ReadParagraph(loop(seq), c)) = See(Read(loop(seq)), c)
    BY <1>3, ReadParagraphReads
  <2> QED
    BY <1>3, <1>4, <2>1, <2>2, LettersGrow
<1> HIDE DEF P
<1>5. Seq(Nat) \subseteq P
  BY <1>2, <1>4, SequenceInduction
<1>6. text \in Seq(Nat) /\ 0 \in Nat
  BY DEF Text
<1> QED
  BY <1>3, <1>5, <1>6 DEF loop, P

(* The paragraphs of a text have its letters, in their order.                                     *)
LEMMA ParagraphsKeep ==
  ASSUME NEW text \in Text
  PROVE  Paragraphs(text) \in Seq(Text) /\ Seen(Paragraphs(text)) = Letters(text)
BY ParagraphsGrow, AllPartsRead DEF Paragraphs

-------------------------------------------------------------------------------
(* Lines.                                                                                         *)
Line == {text \in Text : \A i \in 1..Len(text) : text[i] # NL}
LineReader == [parts : Seq(Line), part : Line]

LEMMA LineReaderIsReader == LineReader \subseteq Reader
<1>1. Line \subseteq Text
  BY DEF Line
<1>2. Seq(Line) \subseteq Seq(Text)
  BY <1>1, SeqMonotonic
<1> QED
  BY <1>1, <1>2 DEF LineReader, Reader

LEMMA ReadLineReads ==
  ASSUME NEW acc \in LineReader, NEW c \in Nat
  PROVE  ReadLine(acc, c) \in LineReader /\ Read(ReadLine(acc, c)) = See(Read(acc), c)
<1>0. acc \in Reader /\ acc.part \in Text /\ acc.part \in Line /\ acc.parts \in Seq(Line)
  BY LineReaderIsReader DEF LineReader, Line
<1>1. CASE c = NL
  <2>1. PICK new : new = Cut(acc, acc.part)
    OBVIOUS
  <2>2. ReadLine(acc, c) = new
    BY <1>1, <2>1 DEF ReadLine
  <2>3. <<>> \in Line
    BY EmptyText DEF Line
  <2>4. new \in LineReader
    BY <1>0, <2>1, <2>3 DEF LineReader, Cut
  <2>5. Read(new) = Read(acc)
    BY <1>0, <2>1, CutReads
  <2> QED
    BY <1>1, <2>2, <2>4, <2>5 DEF See
<1>2. CASE c # NL
  <2>1. PICK new : new = Extend(acc, c)
    OBVIOUS
  <2>2. ReadLine(acc, c) = new
    BY <1>2, <2>1 DEF ReadLine
  <2>3. Append(acc.part, c) \in Line
    <3>1. acc.part \in Seq(Nat) /\ \A i \in 1..Len(acc.part) : acc.part[i] # NL
      BY <1>0 DEF Line, Text
    <3>2. PICK more : more = Append(acc.part, c)
      OBVIOUS
    <3>3. /\ more \in Seq(Nat) /\ Len(more) = Len(acc.part) + 1
          /\ \A i \in 1..Len(acc.part) : more[i] = acc.part[i]
          /\ more[Len(acc.part) + 1] = c
      BY <3>1, <3>2, AppendProperties
    <3>4. \A i \in 1..Len(more) : i \in 1..Len(acc.part) \/ i = Len(acc.part) + 1
      BY <3>1, <3>3
    <3>5. \A i \in 1..Len(more) : more[i] # NL
      BY <1>2, <3>1, <3>3, <3>4
    <3> QED
      BY <3>2, <3>3, <3>5 DEF Line, Text
  <2>4. new \in LineReader
    BY <1>0, <2>1, <2>3 DEF LineReader, Extend
  <2>5. Read(new) = See(Read(acc), c)
    BY <1>0, <2>1, ExtendReads
  <2> QED
    BY <2>2, <2>4, <2>5
<1> QED
  BY <1>1, <1>2

LEMMA NoPartsAreLines == NoParts \in LineReader
<1>1. <<>> \in Line
  BY EmptyText DEF Line
<1> QED
  BY <1>1 DEF NoParts, LineReader

ReadLineStep == [x \in LineReader \X Nat |-> ReadLine(x[1], x[2])]

LEMMA ReadLineStepIs ==
  /\ ReadLineStep \in [LineReader \X Nat -> LineReader]
  /\ \A v \in LineReader, e \in Nat : ReadLineStep[<<v, e>>] = ReadLine(v, e)
<1>1. \A v \in LineReader, e \in Nat : ReadLine(v, e) \in LineReader
  BY ReadLineReads
<1> QED
  BY <1>1 DEF ReadLineStep

LEMMA LinesIsLoop ==
  ASSUME NEW seq \in Seq(Nat)
  PROVE  IsLoop(Loop(ReadLine, NoParts, seq), ReadLineStep, NoParts, seq, LineReader)
<1>0. NoParts \in LineReader
  BY NoPartsAreLines
<1>1. PICK N \in Nat : N = Len(seq)
  OBVIOUS
<1>2. \A i \in 1..N : seq[i] \in Nat
  BY <1>1
<1>3. PICK run : IsRun(run, ReadLineStep, NoParts, seq, N, LineReader)
  BY <1>0, <1>2, ReadLineStepIs, RunExists
<1>4. \A i \in 1..N : i - 1 \in 0..N /\ i \in 0..N
  OBVIOUS
<1>5. run = [n \in 0..N |-> IF n = 0 THEN NoParts ELSE ReadLine(run[n - 1], seq[n])]
  <2>1. \A i \in 1..N : run[i] = ReadLine(run[i - 1], seq[i])
    BY <1>2, <1>3, <1>4, ReadLineStepIs DEF IsRun
  <2> QED
    BY <1>3, <2>1 DEF IsRun
<1>6. PICK after :
         after = CHOOSE f : f = [n \in 0..N |-> IF n = 0 THEN NoParts ELSE ReadLine(f[n - 1], seq[n])]
  OBVIOUS
<1>7. after = [n \in 0..N |-> IF n = 0 THEN NoParts ELSE ReadLine(after[n - 1], seq[n])]
  BY <1>5, <1>6
<1>8. after[0] = NoParts /\ \A i \in 1..N : after[i] = ReadLine(after[i - 1], seq[i])
  BY <1>4, <1>7
<1>9. Follows(after, ReadLineStep, NoParts, seq, N, LineReader)
  BY <1>2, <1>8, ReadLineStepIs DEF Follows
<1>10. \A i \in 0..N : after[i] = run[i]
  BY <1>3, <1>9, RunIsUnique
<1>11. Loop(ReadLine, NoParts, seq) = after[N]
  BY <1>1, <1>6 DEF Loop
<1>12. Loop(ReadLine, NoParts, seq) = run[N]
  BY <1>10, <1>11
<1> QED
  BY <1>1, <1>3, <1>12 DEF IsLoop

LEMMA LinesGrow ==
  ASSUME NEW text \in Text
  PROVE  Loop(ReadLine, NoParts, text) \in LineReader /\ Read(Loop(ReadLine, NoParts, text)) = Letters(text)
<1>0. Machine(LineReader, Nat, NoParts, ReadLineStep)
  BY NoPartsAreLines, ReadLineStepIs DEF Machine
<1> DEFINE loop(seq) == Loop(ReadLine, NoParts, seq)
           P == {seq \in Text : Read(loop(seq)) = Letters(seq)}
<1>1. \A seq \in Seq(Nat) : IsLoop(loop(seq), ReadLineStep, NoParts, seq, LineReader)
  BY LinesIsLoop
<1> HIDE DEF loop
<1>2. <<>> \in P
  <2>1. <<>> \in Seq(Nat)
    OBVIOUS
  <2>2. loop(<<>>) = NoParts
    BY <1>1, <2>1, LoopStarts
  <2> QED
    BY <2>2, NoPartsRead, LettersGrow, EmptyText
<1>3. ASSUME NEW seq \in Seq(Nat), NEW c \in Nat
      PROVE  loop(seq) \in LineReader /\ loop(Append(seq, c)) = ReadLine(loop(seq), c)
  <2>1. Append(seq, c) \in Seq(Nat)
    OBVIOUS
  <2>2. /\ IsLoop(loop(seq), ReadLineStep, NoParts, seq, LineReader)
        /\ IsLoop(loop(Append(seq, c)), ReadLineStep, NoParts, Append(seq, c), LineReader)
    BY <1>1, <2>1
  <2>3. loop(seq) \in LineReader /\ loop(Append(seq, c)) = ReadLineStep[<<loop(seq), c>>]
    BY <1>0, <2>2, LoopGrows
  <2> QED
    BY <2>3, ReadLineStepIs
<1>4. ASSUME NEW seq \in Seq(Nat), NEW c \in Nat, seq \in P PROVE Append(seq, c) \in P
  <2>1. seq \in Text /\ Append(seq, c) \in Text
    BY EmptyText DEF Text
  <2>2. Read(ReadLine(loop(seq), c)) = See(Read(loop(seq)), c)
    BY <1>3, ReadLineReads
  <2> QED
    BY <1>3, <1>4, <2>1, <2>2, LettersGrow
<1> HIDE DEF P
<1>5. Seq(Nat) \subseteq P
  BY <1>2, <1>4, SequenceInduction
<1>6. text \in Seq(Nat) /\ 0 \in Nat
  BY DEF Text
<1> QED
  BY <1>3, <1>5, <1>6 DEF loop, P

(* The lines of a text have its letters, in their order, and no newline.                          *)
LEMMA LinesKeep ==
  ASSUME NEW text \in Text
  PROVE  Lines(text) \in Seq(Line) /\ Seen(Lines(text)) = Letters(text)
<1>1. PICK acc \in LineReader : acc = Loop(ReadLine, NoParts, text) /\ Read(acc) = Letters(text)
  BY LinesGrow
<1>2. acc.parts \in Seq(Line) /\ acc.part \in Line
  BY DEF LineReader
<1> QED
  BY <1>1, <1>2, AllPartsRead, LineReaderIsReader DEF Lines, AllParts

-------------------------------------------------------------------------------
(* Trimming.                                                                                      *)
LEMMA Blank ==
  ASSUME NEW text \in Text, \A i \in 1..Len(text) : text[i] = NL
  PROVE  Letters(text) = <<>>
<1> DEFINE P == {u \in Text : (\A k \in 1..Len(u) : u[k] = NL) => Letters(u) = <<>>}
<1>1. <<>> \in P
  BY LettersGrow, EmptyText
<1>2. ASSUME NEW u \in Seq(Nat), NEW c \in Nat, u \in P PROVE Append(u, c) \in P
  <2>1. u \in Text /\ Append(u, c) \in Text
    BY EmptyText DEF Text
  <2>2. /\ Len(u) \in Nat /\ Len(Append(u, c)) = Len(u) + 1 /\ Append(u, c)[Len(u) + 1] = c
        /\ \A k \in 1..Len(u) : Append(u, c)[k] = u[k]
    BY AppendProperties
  <2>3. ASSUME \A k \in 1..Len(Append(u, c)) : Append(u, c)[k] = NL
        PROVE  Letters(Append(u, c)) = <<>>
    <3>1. \A k \in 1..Len(u) : k \in 1..Len(Append(u, c))
      BY <2>2
    <3>2. Len(u) + 1 \in 1..Len(Append(u, c))
      BY <2>2
    <3>3. c = NL /\ \A k \in 1..Len(u) : u[k] = NL
      BY <2>2, <2>3, <3>1, <3>2
    <3>4. Letters(Append(u, c)) = See(Letters(u), c)
      BY <2>1, LettersGrow
    <3> QED
      BY <1>2, <3>3, <3>4 DEF See
  <2> QED
    BY <2>1, <2>3
<1> HIDE DEF P
<1>3. Seq(Nat) \subseteq P
  BY <1>1, <1>2, SequenceInduction
<1> QED
  BY <1>3 DEF Text, P

LEMMA MaxIsLargest ==
  ASSUME NEW N \in Nat, NEW T \in SUBSET (1..N), T # {}
  PROVE  Max(T) \in T /\ \A y \in T : y <= Max(T)
<1> DEFINE Left == {N - i : i \in T}
<1>1. Left \in SUBSET Nat /\ Left # {}
  OBVIOUS
<1>2. PICK z \in Left : \A y \in Left : ~(y < z)
  <2> HIDE DEF Left
  <2> QED
    BY <1>1, LeastNumber
<1>3. PICK x \in T : z = N - x
  OBVIOUS
<1>4. \A y \in T : x >= y
  <2> TAKE y \in T
  <2>1. N - y \in Left
    OBVIOUS
  <2>2. ~(N - y < N - x)
    <3> HIDE DEF Left
    <3> QED
      BY <1>2, <1>3, <2>1
  <2>3. y \in Int /\ x \in Int
    OBVIOUS
  <2> HIDE DEF Left
  <2> QED
    BY <2>2, <2>3
<1>5. \A y \in T : y \in Int
  OBVIOUS
<1>6. Max(T) \in T /\ \A y \in T : Max(T) >= y
  BY <1>4 DEF Max
<1> QED
  BY <1>5, <1>6

(* What may be a part of a message: a text that is empty or not blank.                            *)
Part == {text \in Text : text = <<>> \/ Letters(text) # <<>>}

LEMMA LineIsPart == Line \subseteq Part
<1> SUFFICES ASSUME NEW line \in Line, line # <<>> PROVE line \in Text /\ Letters(line) # <<>>
  BY DEF Line, Part
<1>1. line \in Text /\ \A i \in 1..Len(line) : line[i] # NL
  BY DEF Line
<1>2. 1 \in 1..Len(line)
  <2>1. Len(line) \in Nat /\ Len(line) # 0
    BY <1>1, EmptyText
  <2> QED
    BY <2>1
<1> QED
  BY <1>1, <1>2, NotBlank

LEMMA TrimEndKeeps ==
  ASSUME NEW text \in Text
  PROVE  TrimEnd(text) \in Part /\ Letters(TrimEnd(text)) = Letters(text)
<1>1. PICK N \in Nat : N = Len(text)
  BY EmptyText
<1>2. PICK seen \in SUBSET (1..N) : seen = {i \in 1..Len(text) : text[i] # NL}
  BY <1>1
<1>3. CASE seen = {}
  <2>1. TrimEnd(text) = <<>>
    BY <1>2, <1>3 DEF TrimEnd
  <2>2. Letters(text) = <<>>
    BY <1>2, <1>3, Blank
  <2> QED
    BY <2>1, <2>2, LettersGrow, EmptyText DEF Part
<1>4. CASE seen # {}
  <2>1. PICK m \in 1..N : m = Max(seen) /\ m \in seen /\ \A y \in seen : y <= m
    BY <1>2, <1>4, MaxIsLargest
  <2>2. text \in Seq(Nat) /\ Len(text) = N
    BY <1>1 DEF Text
  <2>3. PICK kept : kept = SubSeq(text, 1, m)
    OBVIOUS
  <2>4. PICK cut : cut = SubSeq(text, m + 1, N)
    OBVIOUS
  <2>5. kept \in Seq(Nat) /\ Len(kept) = m /\ \A i \in 1..m : kept[i] = text[i]
    BY <2>2, <2>3
  <2>6. cut \in Seq(Nat) /\ Len(cut) = N - m /\ \A i \in 1..(N - m) : cut[i] = text[m + i]
    BY <2>2, <2>4
  <2>7. text = kept \o cut
    <3>1. 1 \in 1..Len(text) + 1 /\ m \in 1 - 1..Len(text) /\ N \in m..Len(text)
      BY <2>2
    <3>2. SubSeq(text, 1, m) \o SubSeq(text, m + 1, N) = SubSeq(text, 1, N)
      BY <2>2, <3>1, ConcatAdjacentSubSeq
    <3>3. SubSeq(text, 1, N) = text
      BY <2>2, SubSeqFull
    <3> QED
      BY <2>3, <2>4, <3>2, <3>3
  <2>8. \A i \in 1..Len(cut) : cut[i] = NL
    <3>1. ASSUME NEW i \in 1..(N - m) PROVE text[m + i] = NL
      <4>1. m + i \in 1..N /\ ~(m + i <= m)
        OBVIOUS
      <4> QED
        BY <1>2, <2>1, <2>2, <4>1
    <3> QED
      BY <2>6, <3>1
  <2>9. kept \in Text /\ cut \in Text
    BY <2>5, <2>6 DEF Text
  <2>10. Letters(cut) = <<>>
    BY <2>8, <2>9, Blank
  <2>11. Letters(text) = Letters(kept)
    <3>1. Letters(text) = Letters(kept) \o Letters(cut) /\ Letters(kept) \in Text
      BY <2>7, <2>9, LettersConcat, LettersGrow
    <3> QED
      BY <2>10, <3>1, EmptyText
  <2>12. Letters(kept) # <<>>
    <3>1. m \in 1..Len(kept) /\ kept[m] # NL
      BY <1>2, <2>1, <2>5
    <3> QED
      BY <2>9, <3>1, NotBlank
  <2>13. TrimEnd(text) = kept
    BY <1>2, <1>4, <2>1, <2>3 DEF TrimEnd
  <2> QED
    BY <2>9, <2>11, <2>12, <2>13 DEF Part
<1> QED
  BY <1>3, <1>4

-------------------------------------------------------------------------------
(* Filling messages.                                                                              *)
Message == {text \in Text : Len(text) <= TelegramMax /\ Letters(text) # <<>>}
Current == Message \cup {<<>>}
Filling == [chunks : Seq(Message), current : Current]

(* What a reader sees of the messages pushed and of the one being filled.                         *)
Filled(s) == Seen(s.chunks) \o Letters(s.current)

LEMMA MessagesAreTexts == Seq(Message) \subseteq Seq(Text) /\ Current \subseteq Text
<1>1. Message \subseteq Text
  BY DEF Message
<1> QED
  BY <1>1, SeqMonotonic, EmptyText DEF Current

LEMMA FillingHas ==
  ASSUME NEW s \in Filling
  PROVE  /\ s.chunks \in Seq(Message) /\ s.current \in Current
         /\ s.chunks \in Seq(Text) /\ s.current \in Text
         /\ Seen(s.chunks) \in Text /\ Letters(s.current) \in Text
<1>1. s.chunks \in Seq(Message) /\ s.current \in Current
  BY DEF Filling
<1>2. s.chunks \in Seq(Text) /\ s.current \in Text
  BY <1>1, MessagesAreTexts
<1> QED
  BY <1>1, <1>2, SeenGrows, LettersGrow, EmptyText

LEMMA PartFits ==
  ASSUME NEW text \in Part, Len(text) <= TelegramMax
  PROVE  text \in Current
BY DEF Part, Current, Message

LEMMA PushFills ==
  ASSUME NEW s \in Filling
  PROVE  Push(s) \in Filling /\ Push(s).current = <<>> /\ Filled(Push(s)) = Filled(s)
<1>1. CASE s.current = <<>>
  BY <1>1 DEF Push
<1>2. CASE s.current # <<>>
  <2>1. PICK new : new = Push(s)
    OBVIOUS
  <2>2. new = [chunks |-> Append(s.chunks, s.current), current |-> <<>>]
    BY <1>2, <2>1 DEF Push
  <2>3. s.current \in Message /\ s.chunks \in Seq(Message)
    BY <1>2, FillingHas DEF Current
  <2>4. Append(s.chunks, s.current) \in Seq(Message) /\ <<>> \in Current
    BY <2>3, AppendProperties DEF Current
  <2>5. new \in Filling /\ new.chunks = Append(s.chunks, s.current) /\ new.current = <<>>
    BY <2>2, <2>4 DEF Filling
  <2>6. Seen(new.chunks) = Seen(s.chunks) \o Letters(s.current)
    BY <2>5, FillingHas, SeenGrows
  <2>7. Seen(s.chunks) \o Letters(s.current) \in Text
    BY FillingHas, LettersConcat
  <2>8. Filled(new) = Filled(s)
    BY <2>5, <2>6, <2>7, LettersGrow, EmptyText DEF Filled
  <2> QED
    BY <2>1, <2>5, <2>8
<1> QED
  BY <1>1, <1>2

LEMMA StartFills ==
  ASSUME NEW s \in Filling, NEW text \in Part, Len(text) <= TelegramMax
  PROVE  /\ [Push(s) EXCEPT !.current = text] \in Filling
         /\ Filled([Push(s) EXCEPT !.current = text]) = Filled(s) \o Letters(text)
<1>1. PICK pushed \in Filling : pushed = Push(s) /\ pushed.current = <<>> /\ Filled(pushed) = Filled(s)
  BY PushFills
<1>2. PICK new : new = [pushed EXCEPT !.current = text]
  OBVIOUS
<1>3. text \in Current
  BY PartFits
<1>4. new \in Filling /\ new.chunks = pushed.chunks /\ new.current = text
  BY <1>2, <1>3 DEF Filling
<1>5. Filled(pushed) = Seen(pushed.chunks)
  BY <1>1, FillingHas, LettersGrow, EmptyText DEF Filled
<1>6. Filled(new) = Filled(s) \o Letters(text)
  BY <1>1, <1>4, <1>5 DEF Filled
<1> QED
  BY <1>1, <1>2, <1>4, <1>6

(* A separator is newlines, which nobody sees.                                                    *)
Separators == {<<NL>>, <<NL, NL>>}

LEMMA SeparatorsAreBlank ==
  ASSUME NEW sep \in Separators \cup {<<>>}
  PROVE  sep \in Text /\ Letters(sep) = <<>>
<1>1. <<NL>> \in Text /\ <<NL, NL>> = Append(<<NL>>, NL) /\ <<NL, NL>> \in Text /\ NL \in Nat
  BY DEF Text, NL
<1>2. Letters(<<NL>>) = <<>>
  BY <1>1, LettersOfOne
<1>3. Letters(<<NL, NL>>) = <<>>
  BY <1>1, <1>2, LettersGrow DEF See
<1> QED
  BY <1>1, <1>2, <1>3, LettersGrow, EmptyText DEF Separators

LEMMA JoinFills ==
  ASSUME NEW s \in Filling, NEW sep \in Separators, NEW text \in Part, Fits(s, sep, text)
  PROVE  Join(s, sep, text) \in Filling /\ Filled(Join(s, sep, text)) = Filled(s) \o Letters(text)
<1>0. text \in Text
  BY DEF Part
<1>1. PICK gap \in Separators \cup {<<>>} : gap = Separator(s, sep)
  BY DEF Separator
<1>2. gap \in Text /\ Letters(gap) = <<>> /\ (s.current = <<>> => gap = <<>>)
  BY <1>1, SeparatorsAreBlank DEF Separator
<1>3. PICK joined : joined = s.current \o gap \o text
  OBVIOUS
<1>4. joined \in Text /\ Len(joined) = Len(s.current) + Len(gap) + Len(text)
  <2>1. s.current \in Seq(Nat) /\ gap \in Seq(Nat) /\ text \in Seq(Nat)
    BY <1>0, <1>2, FillingHas DEF Text
  <2>2. s.current \o gap \in Seq(Nat) /\ Len(s.current \o gap) = Len(s.current) + Len(gap)
    BY <2>1, ConcatProperties
  <2> QED
    BY <1>3, <2>1, <2>2, ConcatProperties DEF Text
<1>5. Letters(joined) = Letters(s.current) \o Letters(text)
  <2>1. Letters(s.current \o gap) = Letters(s.current) \o Letters(gap) /\ s.current \o gap \in Text
    BY <1>2, FillingHas, LettersConcat
  <2>2. Letters(s.current \o gap) = Letters(s.current)
    BY <1>2, <2>1, FillingHas, EmptyText
  <2> QED
    BY <1>0, <1>3, <2>1, <2>2, LettersConcat
<1>6. joined \in Current
  <2>1. Len(joined) <= TelegramMax
    BY <1>1, <1>4 DEF Fits
  <2>2. joined = <<>> \/ Letters(joined) # <<>>
    <3>1. CASE s.current = <<>>
      <4>1. joined = text
        BY <1>0, <1>2, <1>3, <3>1, EmptyText
      <4> QED
        BY <4>1 DEF Part
    <3>2. CASE s.current # <<>>
      <4>1. Letters(s.current) # <<>>
        BY <3>2, FillingHas DEF Current, Message
      <4>2. Letters(s.current) \in Seq(Nat) /\ Letters(text) \in Seq(Nat)
        BY <1>0, FillingHas, LettersGrow, EmptyText DEF Text
      <4>3. Letters(s.current) \o Letters(text) # <<>>
        BY <4>1, <4>2, ConcatEqualIffEmpty
      <4> QED
        BY <1>5, <4>3
    <3> QED
      BY <3>1, <3>2
  <2> QED
    BY <1>4, <2>1, <2>2 DEF Current, Message
<1>7. PICK new : new = Join(s, sep, text)
  OBVIOUS
<1>8. new \in Filling /\ new.chunks = s.chunks /\ new.current = joined
  BY <1>1, <1>3, <1>6, <1>7 DEF Join, Filling
<1>9. Filled(new) = Filled(s) \o Letters(text)
  <2>1. Seen(s.chunks) \in Text /\ Letters(s.current) \in Text /\ Letters(text) \in Text
    BY <1>0, FillingHas, LettersGrow, EmptyText
  <2>2. (Seen(s.chunks) \o Letters(s.current)) \o Letters(text)
          = Seen(s.chunks) \o (Letters(s.current) \o Letters(text))
    BY <2>1, ConcatTexts
  <2> QED
    BY <1>5, <1>8, <2>2 DEF Filled
<1> QED
  BY <1>7, <1>8, <1>9

-------------------------------------------------------------------------------
(* A line longer than a message.                                                                  *)
LEMMA Multiples ==
  ASSUME NEW a \in Nat, NEW M \in Nat
  PROVE  /\ a * M \in Nat /\ (a + 1) * M = a * M + M
         /\ \A b \in Nat : a <= b => a * M <= b * M
<1>1. a * M \in Nat /\ (a + 1) * M = a * M + M
  OBVIOUS
<1>2. ASSUME NEW b \in Nat, a <= b PROVE a * M <= b * M
  <2>1. PICK d \in Nat : b = a + d
    <3>1. b - a \in Nat /\ b = a + (b - a)
      BY <1>2
    <3> QED
      BY <3>1
  <2>2. b * M = a * M + d * M /\ d * M \in Nat
    BY <2>1
  <2> QED
    BY <1>1, <2>2
<1> QED
  BY <1>1, <1>2

LEMMA FullPieces ==
  ASSUME NEW n \in Nat \ {0}, NEW M \in Nat \ {0}
  PROVE  \E full \in Nat : /\ full = (n - 1) \div M
                           /\ full * M <= n - 1 /\ n <= full * M + M
<1>1. PICK k \in Nat : n = k + 1
  <2>1. n - 1 \in Nat /\ n = (n - 1) + 1
    OBVIOUS
  <2> QED
    BY <2>1
<1>2. k \div M \in Nat /\ k = M * (k \div M) + (k % M) /\ k % M \in 0..(M - 1)
  OBVIOUS
<1>3. PICK full \in Nat : full = k \div M
  BY <1>2
<1>4. PICK r \in 0..(M - 1) : k = M * full + r
  BY <1>2, <1>3
<1>5. PICK q \in Nat : q = full * M /\ q = M * full
  OBVIOUS
<1>6. q <= k /\ k + 1 <= q + M
  BY <1>4, <1>5
<1>7. n - 1 = k
  BY <1>1
<1>8. full = (n - 1) \div M
  BY <1>3, <1>7
<1>9. full * M <= n - 1 /\ n <= full * M + M
  BY <1>1, <1>5, <1>6, <1>7
<1> QED
  BY <1>8, <1>9

(* The pieces of a line, one after the other.                                                     *)
PieceOf(line, i) == SubSeq(line, (i - 1) * TelegramMax + 1, i * TelegramMax)

LEMMA LinePart ==
  ASSUME NEW line \in Line, NEW i \in 1..Len(line), NEW j \in i..Len(line), j <= i + TelegramMax - 1
  PROVE  SubSeq(line, i, j) \in Message
<1>0. TelegramMax \in Nat
  BY TelegramMaxAssumption
<1>1. line \in Seq(Nat) /\ Len(line) \in Nat /\ \A k \in 1..Len(line) : line[k] # NL
  BY EmptyText DEF Line, Text
<1>2. PICK sub : sub = SubSeq(line, i, j)
  OBVIOUS
<1>3. i \in Int /\ j \in Int /\ \A k \in i..j : line[k] \in Nat
  BY <1>1
<1>4. sub \in Seq(Nat) /\ Len(sub) = j - i + 1 /\ \A k \in 1..(j - i + 1) : sub[k] = line[i + k - 1]
  BY <1>2, <1>3, SubSeqProperties
<1>5. sub \in Text /\ Len(sub) <= TelegramMax /\ 1 \in 1..Len(sub) /\ sub[1] # NL
  BY <1>0, <1>1, <1>3, <1>4 DEF Text
<1>6. Letters(sub) # <<>>
  BY <1>5, NotBlank
<1> QED
  BY <1>2, <1>5, <1>6 DEF Message

LEMMA PiecesKeep ==
  ASSUME NEW chunks \in Seq(Message), NEW line \in Line, NEW full \in Nat,
         full * TelegramMax <= Len(line)
  PROVE  /\ chunks \o [i \in 1..full |-> PieceOf(line, i)] \in Seq(Message)
         /\ Seen(chunks \o [i \in 1..full |-> PieceOf(line, i)])
              = Seen(chunks) \o Letters(SubSeq(line, 1, full * TelegramMax))
<1>0. TelegramMax \in Nat /\ TelegramMax # 0
  BY TelegramMaxAssumption
<1>1. line \in Seq(Nat) /\ Len(line) \in Nat /\ line \in Text
  BY EmptyText DEF Line, Text
<1>2. chunks \in Seq(Text) /\ Seen(chunks) \in Text
  BY MessagesAreTexts, SeenGrows, EmptyText
<1> DEFINE Pieces(k) == [i \in 1..k |-> PieceOf(line, i)]
           Kept(k) == /\ chunks \o Pieces(k) \in Seq(Message)
                      /\ Seen(chunks \o Pieces(k)) = Seen(chunks) \o Letters(SubSeq(line, 1, k * TelegramMax))
           P == {k \in Nat : k <= full => Kept(k)}
<1>3. 0 \in P
  <2>1. Pieces(0) = <<>>
    OBVIOUS
  <2>2. chunks \o <<>> = chunks
    BY ConcatEmptySeq
  <2>3. 0 * TelegramMax = 0 /\ SubSeq(line, 1, 0) = <<>>
    BY <1>0, <1>1
  <2>4. Seen(chunks) \o <<>> = Seen(chunks)
    BY <1>2, EmptyText
  <2>5. Kept(0)
    BY <2>1, <2>2, <2>3, <2>4, LettersGrow
  <2> QED
    BY <2>5
<1>4. ASSUME NEW k \in Nat, k \in P PROVE k + 1 \in P
  <2> SUFFICES ASSUME k + 1 <= full PROVE Kept(k + 1)
    OBVIOUS
  <2>1. Kept(k)
    BY <1>4
  <2>2. PICK from \in Nat : from = k * TelegramMax
    BY <1>0, Multiples
  <2>3. PICK to \in Nat : to = (k + 1) * TelegramMax /\ to = from + TelegramMax /\ to <= Len(line)
    <3>1. (k + 1) * TelegramMax = from + TelegramMax /\ (k + 1) * TelegramMax \in Nat
      BY <1>0, <2>2, Multiples
    <3>2. (k + 1) * TelegramMax <= full * TelegramMax /\ full * TelegramMax \in Nat
      BY <1>0, Multiples
    <3> QED
      BY <1>1, <3>1, <3>2
  <2>4. PICK piece : piece = SubSeq(line, from + 1, to)
    OBVIOUS
  <2>5. PieceOf(line, k + 1) = piece
    <3>1. (k + 1) - 1 = k
      OBVIOUS
    <3> QED
      BY <2>2, <2>3, <2>4, <3>1 DEF PieceOf
  <2>6. piece \in Message /\ piece \in Text
    <3>1. from + 1 \in 1..Len(line) /\ to \in (from + 1)..Len(line) /\ to <= (from + 1) + TelegramMax - 1
      BY <1>0, <1>1, <2>3
    <3> QED
      BY <2>4, <3>1, LinePart DEF Message
  <2>7. PICK pieces : pieces = Pieces(k)
    OBVIOUS
  <2>8. pieces \in Seq(Message)
    <3>1. \A i \in 1..k : PieceOf(line, i) \in Message
      <4> TAKE i \in 1..k
      <4>1. PICK before \in Nat : before = (i - 1) * TelegramMax
        BY <1>0, Multiples
      <4>2. PICK after \in Nat : after = i * TelegramMax /\ after = before + TelegramMax
        <5>1. (i - 1) + 1 = i /\ i - 1 \in Nat /\ i \in Nat
          OBVIOUS
        <5> QED
          BY <1>0, <4>1, <5>1, Multiples
      <4>3. after <= from
        BY <1>0, <2>2, <4>2, Multiples
      <4>4. before + 1 \in 1..Len(line) /\ after \in (before + 1)..Len(line)
            /\ after <= (before + 1) + TelegramMax - 1
        BY <1>0, <1>1, <2>3, <4>2, <4>3
      <4> QED
        BY <4>1, <4>2, <4>4, LinePart DEF PieceOf
    <3> QED
      BY <2>7, <3>1
  <2>9. Pieces(k + 1) = Append(pieces, piece)
    BY <2>5, <2>7, <2>8
  <2>10. chunks \o Append(pieces, piece) = Append(chunks \o pieces, piece)
    BY <2>6, <2>8, AppendConcat
  <2>11. chunks \o pieces \in Seq(Message) /\ chunks \o pieces \in Seq(Text)
    BY <2>1, <2>7, MessagesAreTexts
  <2>12. chunks \o Pieces(k + 1) \in Seq(Message)
    <3>1. Append(chunks \o pieces, piece) \in Seq(Message)
      BY <2>6, <2>11, AppendProperties
    <3> QED
      BY <2>9, <2>10, <3>1
  <2>13. Seen(chunks \o Pieces(k + 1)) = Seen(chunks \o pieces) \o Letters(piece)
    BY <2>6, <2>9, <2>10, <2>11, SeenGrows
  <2>14. PICK start \in Text : start = SubSeq(line, 1, from)
    <3>1. from <= Len(line)
      BY <1>0, <1>1, <2>3
    <3>2. \A i \in 1..from : line[i] \in Nat
      BY <1>1, <3>1
    <3>3. SubSeq(line, 1, from) \in Seq(Nat)
      BY <3>2, SubSeqProperties
    <3> QED
      BY <3>3 DEF Text
  <2>15. Seen(chunks \o pieces) = Seen(chunks) \o Letters(start)
    BY <2>1, <2>2, <2>7, <2>14
  <2>16. SubSeq(line, 1, to) = start \o piece
    <3>1. 1 \in 1..Len(line) + 1 /\ from \in 1 - 1..Len(line) /\ to \in from..Len(line)
      BY <1>0, <1>1, <2>3
    <3> QED
      BY <1>1, <2>4, <2>14, <3>1, ConcatAdjacentSubSeq
  <2>17. Letters(SubSeq(line, 1, to)) = Letters(start) \o Letters(piece)
    BY <2>6, <2>16, LettersConcat
  <2>18. (Seen(chunks) \o Letters(start)) \o Letters(piece)
           = Seen(chunks) \o (Letters(start) \o Letters(piece))
    <3>1. Seen(chunks) \in Text /\ Letters(start) \in Text /\ Letters(piece) \in Text
      BY <1>2, <2>6, LettersGrow, EmptyText
    <3> QED
      BY <3>1, ConcatTexts
  <2> QED
    BY <2>3, <2>12, <2>13, <2>15, <2>17, <2>18
<1> HIDE DEF P
<1>5. Nat \subseteq P
  BY <1>3, <1>4, Induction
<1>6. full \in P /\ full <= full
  BY <1>5
<1>7. Kept(full)
  <2> HIDE DEF Kept
  <2> QED
    BY <1>6 DEF P
<1> QED
  BY <1>7

LEMMA HardCutFills ==
  ASSUME NEW s \in Filling, NEW line \in Line, ~(Len(line) <= TelegramMax)
  PROVE  HardCut(Push(s), line) \in Filling /\ Filled(HardCut(Push(s), line)) = Filled(s) \o Letters(line)
<1>0. TelegramMax \in Nat \ {0}
  BY TelegramMaxAssumption
<1>1. line \in Seq(Nat) /\ line \in Text /\ Len(line) \in Nat \ {0}
  BY <1>0, EmptyText DEF Line, Text
<1>2. PICK pushed \in Filling : pushed = Push(s) /\ pushed.current = <<>> /\ Filled(pushed) = Filled(s)
  BY PushFills
<1>3. PICK full \in Nat : /\ full = (Len(line) - 1) \div TelegramMax
                          /\ full * TelegramMax <= Len(line) - 1
                          /\ Len(line) <= full * TelegramMax + TelegramMax
  BY <1>0, <1>1, FullPieces
<1>4. PICK to \in Nat : to = full * TelegramMax
  BY <1>0, Multiples
<1>5. to <= Len(line) - 1 /\ Len(line) <= to + TelegramMax
  BY <1>3, <1>4
<1>6. PICK chunks \in Seq(Message) :
        /\ chunks = pushed.chunks \o [i \in 1..full |-> PieceOf(line, i)]
        /\ Seen(chunks) = Seen(pushed.chunks) \o Letters(SubSeq(line, 1, to))
  <2>1. pushed.chunks \in Seq(Message)
    BY FillingHas
  <2>2. full * TelegramMax <= Len(line)
    BY <1>1, <1>4, <1>5
  <2> QED
    BY <1>4, <2>1, <2>2, PiecesKeep
<1>7. PICK rest \in Message : rest = SubSeq(line, to + 1, Len(line))
  <2>1. to + 1 \in 1..Len(line) /\ Len(line) \in (to + 1)..Len(line)
        /\ Len(line) <= (to + 1) + TelegramMax - 1
    BY <1>0, <1>1, <1>5
  <2> QED
    BY <2>1, LinePart
<1>8. PICK start \in Text : start = SubSeq(line, 1, to)
  <2>1. to <= Len(line)
    BY <1>1, <1>5
  <2>2. \A i \in 1..to : line[i] \in Nat
    BY <1>1, <2>1
  <2>3. SubSeq(line, 1, to) \in Seq(Nat)
    BY <2>2, SubSeqProperties
  <2> QED
    BY <2>3 DEF Text
<1>9. line = start \o rest
  <2>1. 1 \in 1..Len(line) + 1 /\ to \in 1 - 1..Len(line) /\ Len(line) \in to..Len(line)
    BY <1>1, <1>5
  <2>2. SubSeq(line, 1, to) \o SubSeq(line, to + 1, Len(line)) = SubSeq(line, 1, Len(line))
    BY <1>1, <2>1, ConcatAdjacentSubSeq
  <2>3. SubSeq(line, 1, Len(line)) = line
    BY <1>1, SubSeqFull
  <2> QED
    BY <1>7, <1>8, <2>2, <2>3
<1>10. HardCut(pushed, line) = [chunks |-> chunks, current |-> rest]
  BY <1>3, <1>4, <1>6, <1>7 DEF HardCut, PieceOf
<1>11. PICK new : new = [chunks |-> chunks, current |-> rest]
  OBVIOUS
<1>12. new \in Filling /\ new.chunks = chunks /\ new.current = rest
  BY <1>11 DEF Filling, Current
<1>13. rest \in Text /\ Letters(line) = Letters(start) \o Letters(rest)
  BY <1>9, LettersConcat DEF Message
<1>14. Filled(pushed) = Seen(pushed.chunks) /\ Seen(pushed.chunks) \in Text
  BY <1>2, FillingHas, LettersGrow, EmptyText DEF Filled
<1>15. Filled(new) = Filled(s) \o Letters(line)
  <2>1. Seen(pushed.chunks) \in Text /\ Letters(start) \in Text /\ Letters(rest) \in Text
    BY <1>13, <1>14, LettersGrow, EmptyText
  <2>2. (Seen(pushed.chunks) \o Letters(start)) \o Letters(rest)
          = Seen(pushed.chunks) \o (Letters(start) \o Letters(rest))
    BY <2>1, ConcatTexts
  <2> QED
    BY <1>2, <1>6, <1>8, <1>12, <1>13, <1>14, <2>2 DEF Filled
<1> QED
  BY <1>2, <1>10, <1>11, <1>12, <1>15

-------------------------------------------------------------------------------
(* The loops of split_response.                                                                   *)
LEMMA AddLineFills ==
  ASSUME NEW s \in Filling, NEW line \in Line
  PROVE  AddLine(s, line) \in Filling /\ Filled(AddLine(s, line)) = Filled(s) \o Letters(line)
<1>1. line \in Part /\ <<NL>> \in Separators
  BY LineIsPart DEF Separators
<1>2. CASE Fits(s, <<NL>>, line)
  BY <1>1, <1>2, JoinFills DEF AddLine
<1>3. CASE ~Fits(s, <<NL>>, line) /\ Len(line) <= TelegramMax
  BY <1>1, <1>3, StartFills DEF AddLine
<1>4. CASE ~Fits(s, <<NL>>, line) /\ ~(Len(line) <= TelegramMax)
  BY <1>4, HardCutFills DEF AddLine
<1> QED
  BY <1>2, <1>3, <1>4

AddLineStep == [x \in Filling \X Line |-> AddLine(x[1], x[2])]

LEMMA AddLineStepIs ==
  /\ AddLineStep \in [Filling \X Line -> Filling]
  /\ \A v \in Filling, e \in Line : AddLineStep[<<v, e>>] = AddLine(v, e)
<1>1. \A v \in Filling, e \in Line : AddLine(v, e) \in Filling
  BY AddLineFills
<1> QED
  BY <1>1 DEF AddLineStep

LEMMA AddLinesIsLoop ==
  ASSUME NEW start \in Filling, NEW seq \in Seq(Line)
  PROVE  IsLoop(Loop(AddLine, start, seq), AddLineStep, start, seq, Filling)
<1>0. start \in Filling
  OBVIOUS
<1>1. PICK N \in Nat : N = Len(seq)
  OBVIOUS
<1>2. \A i \in 1..N : seq[i] \in Line
  BY <1>1
<1>3. PICK run : IsRun(run, AddLineStep, start, seq, N, Filling)
  BY <1>0, <1>2, AddLineStepIs, RunExists
<1>4. \A i \in 1..N : i - 1 \in 0..N /\ i \in 0..N
  OBVIOUS
<1>5. run = [n \in 0..N |-> IF n = 0 THEN start ELSE AddLine(run[n - 1], seq[n])]
  <2>1. \A i \in 1..N : run[i] = AddLine(run[i - 1], seq[i])
    BY <1>2, <1>3, <1>4, AddLineStepIs DEF IsRun
  <2> QED
    BY <1>3, <2>1 DEF IsRun
<1>6. PICK after :
         after = CHOOSE f : f = [n \in 0..N |-> IF n = 0 THEN start ELSE AddLine(f[n - 1], seq[n])]
  OBVIOUS
<1>7. after = [n \in 0..N |-> IF n = 0 THEN start ELSE AddLine(after[n - 1], seq[n])]
  BY <1>5, <1>6
<1>8. after[0] = start /\ \A i \in 1..N : after[i] = AddLine(after[i - 1], seq[i])
  BY <1>4, <1>7
<1>9. Follows(after, AddLineStep, start, seq, N, Filling)
  BY <1>2, <1>8, AddLineStepIs DEF Follows
<1>10. \A i \in 0..N : after[i] = run[i]
  BY <1>3, <1>9, RunIsUnique
<1>11. Loop(AddLine, start, seq) = after[N]
  BY <1>1, <1>6 DEF Loop
<1>12. Loop(AddLine, start, seq) = run[N]
  BY <1>10, <1>11
<1> QED
  BY <1>1, <1>3, <1>12 DEF IsLoop

(* Lines added one after the other are filled in, in their order.                                *)
LEMMA AddLinesFill ==
  ASSUME NEW start \in Filling, NEW seq \in Seq(Line)
  PROVE  /\ Loop(AddLine, start, seq) \in Filling
         /\ Filled(Loop(AddLine, start, seq)) = Filled(start) \o Seen(seq)
<1>0. Machine(Filling, Line, start, AddLineStep)
  BY AddLineStepIs DEF Machine
<1>a. Line \subseteq Text
  BY DEF Line
<1>b. Filled(start) \in Text /\ <<>> \in Seq(Line)
  BY FillingHas, LettersConcat DEF Filled
<1> DEFINE loop(u) == Loop(AddLine, start, u)
           P == {u \in Seq(Line) : Filled(loop(u)) = Filled(start) \o Seen(u)}
<1>1. \A u \in Seq(Line) : IsLoop(loop(u), AddLineStep, start, u, Filling)
  BY AddLinesIsLoop
<1> HIDE DEF loop
<1>2. <<>> \in P
  <2>1. loop(<<>>) = start
    BY <1>1, <1>b, LoopStarts
  <2>2. Filled(start) \o Seen(<<>>) = Filled(start)
    BY <1>b, SeenGrows, EmptyText
  <2> QED
    BY <1>b, <2>1, <2>2
<1>3. ASSUME NEW u \in Seq(Line), NEW e \in Line
      PROVE  loop(u) \in Filling /\ loop(Append(u, e)) = AddLine(loop(u), e)
  <2>1. Append(u, e) \in Seq(Line)
    OBVIOUS
  <2>2. /\ IsLoop(loop(u), AddLineStep, start, u, Filling)
        /\ IsLoop(loop(Append(u, e)), AddLineStep, start, Append(u, e), Filling)
    BY <1>1, <2>1
  <2>3. loop(u) \in Filling /\ loop(Append(u, e)) = AddLineStep[<<loop(u), e>>]
    BY <1>0, <2>2, LoopGrows
  <2> QED
    BY <2>3, AddLineStepIs
<1>4. ASSUME NEW u \in Seq(Line), NEW e \in Line, u \in P PROVE Append(u, e) \in P
  <2>1. u \in Seq(Text) /\ e \in Text /\ Append(u, e) \in Seq(Line)
    BY <1>a, SeqMonotonic
  <2>2. Filled(loop(Append(u, e))) = (Filled(start) \o Seen(u)) \o Letters(e)
    BY <1>3, <1>4, AddLineFills
  <2>3. Seen(Append(u, e)) = Seen(u) \o Letters(e)
    BY <2>1, SeenGrows
  <2>4. (Filled(start) \o Seen(u)) \o Letters(e) = Filled(start) \o (Seen(u) \o Letters(e))
    <3>1. Filled(start) \in Text /\ Seen(u) \in Text /\ Letters(e) \in Text
      BY <1>b, <2>1, SeenGrows, LettersGrow, EmptyText
    <3> QED
      BY <3>1, ConcatTexts
  <2> QED
    BY <2>1, <2>2, <2>3, <2>4
<1> HIDE DEF P
<1>5. Seq(Line) \subseteq P
  BY <1>2, <1>4, SequenceInduction
<1>6. loop(seq) \in Filling
  BY <1>1, LoopTyped, <1>0
<1> QED
  BY <1>5, <1>6 DEF loop, P

LEMMA AddParagraphFills ==
  ASSUME NEW s \in Filling, NEW text \in Text
  PROVE  AddParagraph(s, text) \in Filling /\ Filled(AddParagraph(s, text)) = Filled(s) \o Letters(text)
<1>1. PICK para \in Part : para = TrimEnd(text) /\ Letters(para) = Letters(text)
  BY TrimEndKeeps
<1>2. <<NL, NL>> \in Separators
  BY DEF Separators
<1>3. CASE Fits(s, <<NL, NL>>, para)
  BY <1>1, <1>2, <1>3, JoinFills DEF AddParagraph
<1>4. CASE ~Fits(s, <<NL, NL>>, para) /\ Len(para) <= TelegramMax
  BY <1>1, <1>4, StartFills DEF AddParagraph
<1>5. CASE ~Fits(s, <<NL, NL>>, para) /\ ~(Len(para) <= TelegramMax)
  <2>1. PICK pushed \in Filling : pushed = Push(s) /\ Filled(pushed) = Filled(s)
    BY PushFills
  <2>2. PICK lines \in Seq(Line) : lines = Lines(para) /\ Seen(lines) = Letters(para)
    BY <1>1, LinesKeep DEF Part
  <2>3. AddParagraph(s, text) = Loop(AddLine, pushed, lines)
    BY <1>1, <1>5, <2>1, <2>2 DEF AddParagraph
  <2> QED
    BY <1>1, <2>1, <2>2, <2>3, AddLinesFill
<1> QED
  BY <1>3, <1>4, <1>5

AddParagraphStep == [x \in Filling \X Text |-> AddParagraph(x[1], x[2])]

LEMMA AddParagraphStepIs ==
  /\ AddParagraphStep \in [Filling \X Text -> Filling]
  /\ \A v \in Filling, e \in Text : AddParagraphStep[<<v, e>>] = AddParagraph(v, e)
<1>1. \A v \in Filling, e \in Text : AddParagraph(v, e) \in Filling
  BY AddParagraphFills
<1> QED
  BY <1>1 DEF AddParagraphStep

LEMMA AddParagraphsIsLoop ==
  ASSUME NEW start \in Filling, NEW seq \in Seq(Text)
  PROVE  IsLoop(Loop(AddParagraph, start, seq), AddParagraphStep, start, seq, Filling)
<1>0. start \in Filling
  OBVIOUS
<1>1. PICK N \in Nat : N = Len(seq)
  OBVIOUS
<1>2. \A i \in 1..N : seq[i] \in Text
  BY <1>1
<1>3. PICK run : IsRun(run, AddParagraphStep, start, seq, N, Filling)
  BY <1>0, <1>2, AddParagraphStepIs, RunExists
<1>4. \A i \in 1..N : i - 1 \in 0..N /\ i \in 0..N
  OBVIOUS
<1>5. run = [n \in 0..N |-> IF n = 0 THEN start ELSE AddParagraph(run[n - 1], seq[n])]
  <2>1. \A i \in 1..N : run[i] = AddParagraph(run[i - 1], seq[i])
    BY <1>2, <1>3, <1>4, AddParagraphStepIs DEF IsRun
  <2> QED
    BY <1>3, <2>1 DEF IsRun
<1>6. PICK after :
         after = CHOOSE f : f = [n \in 0..N |-> IF n = 0 THEN start ELSE AddParagraph(f[n - 1], seq[n])]
  OBVIOUS
<1>7. after = [n \in 0..N |-> IF n = 0 THEN start ELSE AddParagraph(after[n - 1], seq[n])]
  BY <1>5, <1>6
<1>8. after[0] = start /\ \A i \in 1..N : after[i] = AddParagraph(after[i - 1], seq[i])
  BY <1>4, <1>7
<1>9. Follows(after, AddParagraphStep, start, seq, N, Filling)
  BY <1>2, <1>8, AddParagraphStepIs DEF Follows
<1>10. \A i \in 0..N : after[i] = run[i]
  BY <1>3, <1>9, RunIsUnique
<1>11. Loop(AddParagraph, start, seq) = after[N]
  BY <1>1, <1>6 DEF Loop
<1>12. Loop(AddParagraph, start, seq) = run[N]
  BY <1>10, <1>11
<1> QED
  BY <1>1, <1>3, <1>12 DEF IsLoop

(* Paragraphs likewise.                                                                          *)
LEMMA AddParagraphsFill ==
  ASSUME NEW start \in Filling, NEW seq \in Seq(Text)
  PROVE  /\ Loop(AddParagraph, start, seq) \in Filling
         /\ Filled(Loop(AddParagraph, start, seq)) = Filled(start) \o Seen(seq)
<1>0. Machine(Filling, Text, start, AddParagraphStep)
  BY AddParagraphStepIs DEF Machine
<1>a. Text \subseteq Text
  OBVIOUS
<1>b. Filled(start) \in Text /\ <<>> \in Seq(Text)
  BY FillingHas, LettersConcat DEF Filled
<1> DEFINE loop(u) == Loop(AddParagraph, start, u)
           P == {u \in Seq(Text) : Filled(loop(u)) = Filled(start) \o Seen(u)}
<1>1. \A u \in Seq(Text) : IsLoop(loop(u), AddParagraphStep, start, u, Filling)
  BY AddParagraphsIsLoop
<1> HIDE DEF loop
<1>2. <<>> \in P
  <2>1. loop(<<>>) = start
    BY <1>1, <1>b, LoopStarts
  <2>2. Filled(start) \o Seen(<<>>) = Filled(start)
    BY <1>b, SeenGrows, EmptyText
  <2> QED
    BY <1>b, <2>1, <2>2
<1>3. ASSUME NEW u \in Seq(Text), NEW e \in Text
      PROVE  loop(u) \in Filling /\ loop(Append(u, e)) = AddParagraph(loop(u), e)
  <2>1. Append(u, e) \in Seq(Text)
    OBVIOUS
  <2>2. /\ IsLoop(loop(u), AddParagraphStep, start, u, Filling)
        /\ IsLoop(loop(Append(u, e)), AddParagraphStep, start, Append(u, e), Filling)
    BY <1>1, <2>1
  <2>3. loop(u) \in Filling /\ loop(Append(u, e)) = AddParagraphStep[<<loop(u), e>>]
    BY <1>0, <2>2, LoopGrows
  <2> QED
    BY <2>3, AddParagraphStepIs
<1>4. ASSUME NEW u \in Seq(Text), NEW e \in Text, u \in P PROVE Append(u, e) \in P
  <2>1. u \in Seq(Text) /\ e \in Text /\ Append(u, e) \in Seq(Text)
    BY <1>a, SeqMonotonic
  <2>2. Filled(loop(Append(u, e))) = (Filled(start) \o Seen(u)) \o Letters(e)
    BY <1>3, <1>4, AddParagraphFills
  <2>3. Seen(Append(u, e)) = Seen(u) \o Letters(e)
    BY <2>1, SeenGrows
  <2>4. (Filled(start) \o Seen(u)) \o Letters(e) = Filled(start) \o (Seen(u) \o Letters(e))
    <3>1. Filled(start) \in Text /\ Seen(u) \in Text /\ Letters(e) \in Text
      BY <1>b, <2>1, SeenGrows, LettersGrow, EmptyText
    <3> QED
      BY <3>1, ConcatTexts
  <2> QED
    BY <2>1, <2>2, <2>3, <2>4
<1> HIDE DEF P
<1>5. Seq(Text) \subseteq P
  BY <1>2, <1>4, SequenceInduction
<1>6. loop(seq) \in Filling
  BY <1>1, LoopTyped, <1>0
<1> QED
  BY <1>5, <1>6 DEF loop, P

(* A reply is cut into messages without a letter of it lost, added or moved, and every message is *)
(* one that Telegram takes: neither longer than its limit nor blank.  For every text and every    *)
(* limit (status.rs split_response, bounded in the run to texts of nine characters).              *)
THEOREM SplitKeepsText ==
  ASSUME NEW text \in Text
  PROVE  SplitIsFaithful(text) /\ split_response(text) \in Seq(Text)
<1>1. PICK start : start = [chunks |-> <<>>, current |-> <<>>]
  OBVIOUS
<1>2. start \in Filling /\ start.chunks = <<>> /\ start.current = <<>>
  BY <1>1 DEF Filling, Current
<1>3. Filled(start) = <<>>
  BY <1>2, SeenGrows, LettersGrow, EmptyText DEF Filled
<1>4. PICK paragraphs \in Seq(Text) : paragraphs = Paragraphs(text) /\ Seen(paragraphs) = Letters(text)
  BY ParagraphsKeep
<1>5. PICK s \in Filling : s = Loop(AddParagraph, start, paragraphs) /\ Filled(s) = Filled(start) \o Letters(text)
  BY <1>2, <1>4, AddParagraphsFill
<1>6. PICK pushed \in Filling : pushed = Push(s) /\ pushed.current = <<>> /\ Filled(pushed) = Filled(s)
  BY PushFills
<1>7. split_response(text) = pushed.chunks
  BY <1>1, <1>4, <1>5, <1>6 DEF split_response
<1>8. Seen(pushed.chunks) = Letters(text)
  <2>1. Letters(text) \in Text
    BY LettersGrow
  <2>2. Filled(pushed) = Letters(text)
    BY <1>3, <1>5, <1>6, <2>1, EmptyText
  <2>3. Filled(pushed) = Seen(pushed.chunks)
    BY <1>6, FillingHas, LettersGrow, EmptyText DEF Filled
  <2> QED
    BY <2>2, <2>3
<1>9. pushed.chunks \in Seq(Message) /\ pushed.chunks \in Seq(Text)
  BY FillingHas
<1>10. \A i \in 1..Len(pushed.chunks) : pushed.chunks[i] \in Message
  BY <1>9
<1> QED
  BY <1>7, <1>8, <1>9, <1>10 DEF SplitIsFaithful, Seen, Message

===============================================================================
