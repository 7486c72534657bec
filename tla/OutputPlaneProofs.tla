-------------------------- MODULE OutputPlaneProofs --------------------------
(* Theorems of the output of a session, for any sockets, buffered readers, chunks and capacities. *)
(* The invariant relates the scrollback and the ring to the chunks the reader thread has read,    *)
(* and each reader of the ring to the places of it that it has passed.                            *)
EXTENDS OutputPlane, Integers, TLAPS

SessionTypeOK ==
  /\ shell \in {"running", "jobs", "gone"} /\ listed \in BOOLEAN
  /\ reader \in {"read", "send", "done"}
  /\ made \in 0..MaxChunks /\ text \subseteq 1..made
  /\ scroll \in Seq(text) /\ Len(scroll) <= ScrollCap
  /\ sent \in Seq(Message)

(* A chunk goes to the scrollback before it is sent, and is sent once.                            *)
SentWereRead ==
  /\ reader = "send" => made \in Chunks
  /\ \A i \in 1..Len(sent) : sent[i] # Exit =>
        sent[i] \in 1..made /\ (reader = "send" => sent[i] < made)

(* What the scrollback has not, of the chunks of text, a full one dropped for newer ones.         *)
Covers(kept, t) == Contains(kept, t) \/ (Len(kept) = ScrollCap /\ t < kept[1])
ScrollIsNewest == Increasing(scroll) /\ \A t \in text : Covers(scroll, t)

Within(r) == 1 <= r.first /\ r.first <= r.next /\ r.next <= Len(sent) + 1

(* A socket that has subscribed but not sent the history has read nothing from the ring.          *)
SocketOK(r) ==
  /\ r.pc \notin {"off", "attached"} => Within(r)
  /\ r.pc = "subscribed" => r.next = r.first
  /\ r.pc \in {"open", "typing", "told", "closed", "left"} =>
       /\ \A i \in r.first..(r.next - 1) : sent[i] # Exit => Contains(r.live, sent[i])
       /\ \A i \in 1..(r.first - 1) : sent[i] \in text => Covers(r.hist, sent[i])

(* A buffered reader: before it subscribes it has nothing, then every place it lagged behind is   *)
(* one it has passed; when it has ended nobody is left who could send.                            *)
StreamOK(r) ==
  /\ Len(r.buf) < MaxBuf
  /\ r.pc \in {"off", "got"} => r.buf = <<>> /\ r.out = <<>> /\ r.skipped = {}
  /\ r.pc \in {"open", "ended"} =>
       /\ Within(r) /\ \A i \in r.skipped : i < r.next
       /\ Increasing(r.out \o r.buf)
       /\ Range(r.out \o r.buf) = (r.first..(r.next - 1)) \ r.skipped
  /\ r.pc = "ended" => ~listed /\ reader = "done" /\ r.next = Len(sent) + 1 /\ r.buf = <<>>

SessionInv == SessionTypeOK /\ SentWereRead /\ ScrollIsNewest
SocketInv == \A s \in Sockets : SocketOK(socket[s])
StreamInv == \A x \in Streams : StreamOK(stream[x])

IInv ==
  /\ SessionInv
  /\ socket \in [Sockets -> SocketType] /\ SocketInv
  /\ stream \in [Streams -> StreamType] /\ StreamInv

------------------------------------------------------------------------------
(* Sequences.                                                                                     *)

LEMMA SeqMember ==
  ASSUME NEW S, NEW s \in Seq(S)
  PROVE  Len(s) \in Nat /\ \A i \in 1..Len(s) : s[i] \in S
  OBVIOUS

LEMMA AppendMember ==
  ASSUME NEW S, NEW s \in Seq(S), NEW e \in S
  PROVE  /\ Append(s, e) \in Seq(S) /\ Len(Append(s, e)) = Len(s) + 1 /\ Len(s) \in Nat
         /\ \A i \in 1..Len(s) : Append(s, e)[i] = s[i]
         /\ Append(s, e)[Len(s) + 1] = e
  OBVIOUS

LEMMA TailMember ==
  ASSUME NEW S, NEW s \in Seq(S), Len(s) # 0
  PROVE  /\ Tail(s) \in Seq(S) /\ Len(s) \in Nat \ {0} /\ Len(Tail(s)) = Len(s) - 1
         /\ \A i \in 1..Len(Tail(s)) : Tail(s)[i] = s[i + 1]
  OBVIOUS

LEMMA AppendContains ==
  ASSUME NEW S, NEW seq \in Seq(S), NEW e \in S
  PROVE  /\ Append(seq, e) \in Seq(S) /\ Contains(Append(seq, e), e)
         /\ \A m : Contains(seq, m) => Contains(Append(seq, e), m)
<1> PICK longer : longer = Append(seq, e)
  OBVIOUS
<1>1. /\ longer \in Seq(S) /\ DOMAIN longer = 1..(Len(seq) + 1) /\ DOMAIN seq = 1..Len(seq)
      /\ \A i \in 1..Len(seq) : longer[i] = seq[i]
      /\ longer[Len(seq) + 1] = e /\ Len(seq) \in Nat
  BY AppendMember
<1>2. Len(seq) + 1 \in DOMAIN longer /\ DOMAIN seq \subseteq DOMAIN longer
  BY <1>1
<1> QED
  BY <1>1, <1>2 DEF Contains

LEMMA SeqWidens ==
  ASSUME NEW S, NEW T, S \subseteq T, NEW s \in Seq(S)
  PROVE  s \in Seq(T)
  OBVIOUS

(* A sequence of increasing places, and one more that follows them.                               *)
LEMMA AppendPlace ==
  ASSUME NEW seq \in Seq(Nat), NEW n \in Nat, Increasing(seq), \A k \in Range(seq) : k < n
  PROVE  Increasing(Append(seq, n)) /\ Range(Append(seq, n)) = Range(seq) \union {n}
<1>a. PICK m \in Nat : m = Len(seq)
  BY SeqMember
<1>b. PICK longer \in Seq(Nat) : longer = Append(seq, n)
  BY AppendMember
<1>1. /\ Len(longer) = m + 1 /\ longer[m + 1] = n /\ \A i \in 1..m : longer[i] = seq[i]
      /\ DOMAIN seq = 1..m /\ DOMAIN longer = 1..(m + 1)
  BY <1>a, <1>b, AppendMember
<1>2. \A i \in 1..m : seq[i] < n
  BY <1>1 DEF Range
<1>3. Increasing(longer)
  <2> SUFFICES ASSUME NEW i \in 1..(m + 1), NEW j \in 1..(m + 1), i < j
               PROVE  longer[i] < longer[j]
    BY <1>1 DEF Increasing
  <2>1. i \in 1..m
    OBVIOUS
  <2>2. CASE j = m + 1
    BY <1>1, <1>2, <2>1, <2>2
  <2>3. CASE j # m + 1
    <3>1. j \in 1..m
      BY <2>3
    <3>2. seq[i] < seq[j]
      BY <1>1, <2>1, <3>1 DEF Increasing
    <3> QED
      BY <1>1, <2>1, <3>1, <3>2
  <2> QED
    BY <2>2, <2>3
<1>4. Range(longer) = Range(seq) \union {n}
  <2>1. \A i \in 1..(m + 1) : i \in 1..m \/ i = m + 1
    OBVIOUS
  <2> QED
    BY <1>1, <2>1 DEF Range
<1> QED
  BY <1>b, <1>3, <1>4

LEMMA EmptySeq == <<>> \in Seq(Nat) /\ Len(<<>>) = 0
  OBVIOUS

LEMMA Concatenation ==
  ASSUME NEW s \in Seq(Nat), NEW t \in Seq(Nat), NEW n \in Nat
  PROVE  /\ s \o t \in Seq(Nat) /\ s \o Append(t, n) = Append(s \o t, n)
         /\ s \o <<>> = s
  OBVIOUS

------------------------------------------------------------------------------
(* The session.                                                                                   *)

LEMMA PushedEffect ==
  ASSUME NEW S \in SUBSET Nat, scroll \in Seq(S), Len(scroll) <= ScrollCap, Increasing(scroll),
         NEW c \in Nat, \A t \in S : t < c
  PROVE  /\ Pushed(c) \in Seq(S \union {c}) /\ Len(Pushed(c)) <= ScrollCap
         /\ Increasing(Pushed(c)) /\ Covers(Pushed(c), c)
         /\ \A t \in S : Covers(scroll, t) => Covers(Pushed(c), t)
<1> USE CapsAssumption
<1> PICK n \in Nat : n = Len(scroll)
  BY SeqMember
<1> PICK m \in Nat : m = IF n >= ScrollCap THEN n - 1 ELSE n
  OBVIOUS
<1> PICK d \in {0, 1} : m + d = n /\ (d = 1 <=> n >= ScrollCap) /\ (d = 1 => n = ScrollCap)
  OBVIOUS
<1> PICK new : new = Pushed(c)
  OBVIOUS
<1>1. \A i \in 1..n : scroll[i] \in S /\ scroll[i] \in Nat /\ scroll[i] < c
  BY SeqMember
<1>2. /\ new \in Seq(S \union {c}) /\ Len(new) = m + 1 /\ new[m + 1] = c
      /\ \A i \in 1..m : new[i] = scroll[i + d]
  <2> DEFINE kept == IF Len(scroll) >= ScrollCap THEN Tail(scroll) ELSE scroll
  <2>1. kept \in Seq(S) /\ Len(kept) = m /\ \A i \in 1..m : kept[i] = scroll[i + d]
    BY TailMember
  <2>2. new = Append(kept, c)
    BY DEF Pushed
  <2> HIDE DEF kept
  <2>3. kept \in Seq(S \union {c})
    BY <2>1, SeqWidens
  <2> QED
    BY <2>1, <2>2, <2>3, AppendMember
<1>3. DOMAIN new = 1..(m + 1) /\ DOMAIN scroll = 1..n
  BY <1>2
<1>4. Len(new) <= ScrollCap /\ (d = 1 => Len(new) = ScrollCap)
  BY <1>2
<1>5. Increasing(new)
  <2> SUFFICES ASSUME NEW i \in 1..(m + 1), NEW j \in 1..(m + 1), i < j
               PROVE  new[i] < new[j]
    BY <1>3 DEF Increasing
  <2>1. i \in 1..m /\ i + d \in 1..n
    OBVIOUS
  <2>2. CASE j = m + 1
    BY <1>1, <1>2, <2>1, <2>2
  <2>3. CASE j # m + 1
    <3>1. j \in 1..m /\ j + d \in 1..n /\ i + d < j + d
      BY <2>3
    <3> QED
      BY <1>2, <1>3, <2>1, <3>1 DEF Increasing
  <2> QED
    BY <2>2, <2>3
<1>6. Covers(new, c)
  BY <1>2, <1>3 DEF Covers, Contains
<1>7. ASSUME NEW t \in S, Covers(scroll, t)
      PROVE  Covers(new, t)
  <2>1. new[1] \in Nat /\ t \in Nat /\ (n # 0 => scroll[1] <= new[1]) /\ (d = 1 => scroll[1] < new[1])
    <3>1. CASE m = 0
      BY <1>1, <1>2, <3>1
    <3>2. CASE m # 0
      <4>1. 1 \in 1..m /\ 1 \in 1..n /\ 1 + d \in 1..n
        BY <3>2
      <4>2. new[1] = scroll[1 + d]
        BY <1>2, <4>1
      <4>3. d = 1 => scroll[1] < scroll[1 + d]
        BY <1>3, <4>1 DEF Increasing
      <4> QED
        BY <1>1, <4>1, <4>2, <4>3
    <3> QED
      BY <3>1, <3>2
  <2>2. CASE Contains(scroll, t)
    <3>1. PICK i \in 1..n : scroll[i] = t
      BY <1>3, <2>2 DEF Contains
    <3>2. CASE i = d
      BY <1>4, <2>1, <3>1, <3>2 DEF Covers
    <3>3. CASE i # d
      <4>1. i - d \in 1..m /\ i - d \in 1..(m + 1) /\ new[i - d] = t
        BY <1>2, <3>1, <3>3
      <4> QED
        BY <1>3, <4>1 DEF Covers, Contains
    <3> QED
      BY <3>2, <3>3
  <2>3. CASE Len(scroll) = ScrollCap /\ t < scroll[1]
    <3>1. d = 1 /\ n # 0 /\ 1 \in 1..n
      BY <2>3
    <3> QED
      BY <1>1, <1>4, <2>1, <2>3, <3>1 DEF Covers
  <2> QED
    BY <1>7, <2>2, <2>3 DEF Covers
<1> QED
  BY <1>2, <1>4, <1>5, <1>6, <1>7

LEMMA InitInvariant == Init => IInv
<1> SUFFICES ASSUME Init PROVE IInv
  OBVIOUS
<1>1. SessionInv
  BY CapsAssumption
     DEF Init, SessionInv, SessionTypeOK, SentWereRead, ScrollIsNewest, Increasing, Covers
<1>2. socket \in [Sockets -> SocketType] /\ SocketInv
  BY DEF Init, SocketType, SocketInv, SocketOK
<1>3. stream \in [Streams -> StreamType] /\ StreamInv
  BY CapsAssumption DEF Init, StreamType, StreamInv, StreamOK
<1> QED
  BY <1>1, <1>2, <1>3 DEF IInv

(* A message in the ring is a chunk that was read, or the exit.                                   *)
LEMMA MessagesAreRead ==
  ASSUME SessionInv
  PROVE  /\ Len(sent) \in Nat /\ made \in Nat /\ text \subseteq Chunks /\ Chunks \subseteq Nat
         /\ \A i \in 1..Len(sent) :
              /\ sent[i] = Exit \/ (sent[i] \in Chunks /\ sent[i] <= made)
              /\ sent[i] \in Message
  BY CapsAssumption, SeqMember DEF SessionInv, SessionTypeOK, SentWereRead, Chunks, Message

LEMMA ReadKeepsSession ==
  ASSUME SessionInv, ReaderRead
  PROVE  SessionInv'
<1>1. /\ reader = "read" /\ made < MaxChunks /\ made' = made + 1 /\ reader' = "send"
      /\ UNCHANGED <<shell, listed, sent>>
  BY DEF ReaderRead
<1>2. made \in Nat /\ made' \in 1..MaxChunks /\ made < made' /\ 1..made \subseteq 1..made'
  BY <1>1, CapsAssumption DEF SessionInv, SessionTypeOK
<1>3. SentWereRead'
  BY <1>1, <1>2, MessagesAreRead DEF SessionInv, SentWereRead, Chunks
<1>4. text \in SUBSET Nat /\ \A t \in text : t < made'
  BY <1>1, <1>2 DEF SessionInv, SessionTypeOK
<1>5. SessionTypeOK' /\ ScrollIsNewest'
  <2>1. CASE UNCHANGED <<text, scroll>>
    BY <1>1, <1>2, <2>1 DEF SessionInv, SessionTypeOK, ScrollIsNewest
  <2>2. CASE text' = text \cup {made'} /\ scroll' = Pushed(made')
    <3> PICK c \in Nat : c = made'
      BY <1>2
    <3>1. /\ scroll \in Seq(text) /\ Len(scroll) <= ScrollCap /\ Increasing(scroll)
          /\ \A t \in text : t < c /\ Covers(scroll, t)
      BY <1>4 DEF SessionInv, SessionTypeOK, ScrollIsNewest
    <3>2. /\ Pushed(c) \in Seq(text \union {c}) /\ Len(Pushed(c)) <= ScrollCap
          /\ Increasing(Pushed(c)) /\ Covers(Pushed(c), c)
          /\ \A t \in text : Covers(Pushed(c), t)
      BY <1>4, <3>1, PushedEffect
    <3>3. scroll' = Pushed(c) /\ text' = text \union {c}
      BY <2>2
    <3>4. ScrollIsNewest'
      BY <3>2, <3>3 DEF ScrollIsNewest, Increasing, Covers
    <3>5. text' \subseteq 1..made'
      BY <1>2, <2>2 DEF SessionInv, SessionTypeOK
    <3> QED
      BY <1>1, <1>2, <3>2, <3>3, <3>4, <3>5 DEF SessionInv, SessionTypeOK
  <2> QED
    BY <2>1, <2>2 DEF ReaderRead
<1> QED
  BY <1>3, <1>5 DEF SessionInv

LEMMA SentKeepsSession ==
  ASSUME SessionInv, ReaderSend \/ ReaderEof \/ Unregister \/ Cleanup \/ ShellExits \/ JobsExit
  PROVE  SessionInv'
<1>1. UNCHANGED <<made, text, scroll>>
  BY DEF ReaderSend, ReaderEof, Unregister, Cleanup, ShellExits, JobsExit
<1>2. ScrollIsNewest'
  BY <1>1 DEF SessionInv, ScrollIsNewest, Increasing, Covers
<1>3. /\ shell' \in {"running", "jobs", "gone"} /\ listed' \in BOOLEAN
      /\ reader' \in {"read", "send", "done"} /\ (reader' = "send" => reader = "send" /\ ~ReaderSend)
  <2>1. /\ shell' = shell \/ shell' \in {"jobs", "gone"}
        /\ reader' = reader \/ reader' \in {"read", "done"}
        /\ ReaderSend => reader' = "read"
    BY DEF ReaderSend, ReaderEof, Unregister, Cleanup, ShellExits, JobsExit
  <2>2. listed' = listed \/ listed' = FALSE
    BY DEF ReaderSend, ReaderEof, Unregister, Cleanup, ShellExits, JobsExit
  <2>3. listed' \in BOOLEAN
    BY <2>2, Zenon DEF SessionInv, SessionTypeOK
  <2> QED
    BY <2>1, <2>3 DEF SessionInv, SessionTypeOK
<1>4. \/ sent' = sent /\ ~ReaderSend
      \/ ~ReaderSend /\ sent' = Append(sent, Exit)
      \/ reader = "send" /\ reader' = "read" /\ sent' = Append(sent, made)
  BY DEF ReaderSend, ReaderEof, Unregister, Cleanup, ShellExits, JobsExit
<1>5. sent \in Seq(Message) /\ Exit \in Message /\ (reader = "send" => made \in Message /\ made \in 1..made)
  BY DEF SessionInv, SessionTypeOK, SentWereRead, Message, Chunks
<1>6. sent' \in Seq(Message)
  BY <1>4, <1>5, AppendMember
<1>7. SentWereRead'
  <2>1. reader' = "send" => made' \in Chunks
    BY <1>1, <1>3 DEF SessionInv, SentWereRead
  <2>2. ASSUME NEW i \in 1..Len(sent'), sent'[i] # Exit
        PROVE  sent'[i] \in 1..made /\ (reader' = "send" => sent'[i] < made)
    <3>1. CASE i \in 1..Len(sent) /\ sent'[i] = sent[i]
      BY <1>3, <2>2, <3>1 DEF SessionInv, SentWereRead
    <3>2. CASE ~(i \in 1..Len(sent) /\ sent'[i] = sent[i])
      <4>1. sent'[i] = made /\ reader = "send" /\ reader' = "read"
        BY <1>4, <1>5, <2>2, <3>2, AppendMember
      <4> QED
        BY <1>5, <4>1
    <3> QED
      BY <3>1, <3>2
  <2> QED
    BY <1>1, <2>1, <2>2 DEF SentWereRead
<1> QED
  BY <1>1, <1>2, <1>3, <1>6, <1>7 DEF SessionInv, SessionTypeOK

(* What the session does leaves its readers where they are.                                       *)
LEMMA SessionKeepsReaders ==
  ASSUME IInv,
         \/ ReaderRead \/ ReaderSend \/ ReaderEof
         \/ Unregister \/ Cleanup \/ ShellExits \/ JobsExit
  PROVE  /\ socket' \in [Sockets -> SocketType] /\ SocketInv'
         /\ stream' \in [Streams -> StreamType] /\ StreamInv'
<1>1. UNCHANGED <<socket, stream>>
  BY DEF ReaderRead, ReaderSend, ReaderEof, Unregister, Cleanup, ShellExits, JobsExit
<1>2. PICK n \in Nat : n = Len(sent)
  BY MessagesAreRead DEF IInv
<1>3. Len(sent') \in Nat /\ n <= Len(sent') /\ \A i \in 1..n : sent'[i] = sent[i]
  <2>1. sent' = sent \/ \E m \in Message : sent' = Append(sent, m)
    BY DEF ReaderRead, ReaderSend, ReaderEof, Unregister, Cleanup, ShellExits, JobsExit,
           IInv, SessionInv, SentWereRead, Message
  <2>2. sent \in Seq(Message)
    BY DEF IInv, SessionInv, SessionTypeOK
  <2> QED
    BY <1>2, <2>1, <2>2, AppendMember
<1>4. \A i \in 1..n : sent'[i] \in text' => sent[i] \in text
  <2>1. \A t \in text' : t \in text \/ (t = made + 1 /\ t \in Nat)
    BY MessagesAreRead DEF ReaderRead, ReaderSend, ReaderEof, Unregister, Cleanup, ShellExits, JobsExit, IInv
  <2>2. \A i \in 1..n : sent[i] # made + 1
    BY <1>2, MessagesAreRead, ExitAssumption DEF IInv
  <2> QED
    BY <1>3, <2>1, <2>2
<1>5. ~listed /\ reader = "done" => ~listed' /\ reader' = "done" /\ sent' = sent
  BY DEF ReaderRead, ReaderSend, ReaderEof, Unregister, Cleanup, ShellExits, JobsExit
<1>6. ASSUME NEW r, r.first \in Nat, r.next \in Nat, Within(r)
      PROVE  /\ r.first - 1 <= n /\ r.next - 1 <= n
             /\ 1 <= r.first /\ r.first <= r.next /\ r.next <= Len(sent') + 1
  BY <1>2, <1>3, <1>6 DEF Within
<1>7. ASSUME NEW s \in Sockets PROVE SocketOK(socket[s])'
  <2> PICK r \in SocketType : r = socket[s]
    BY DEF IInv
  <2>1. socket'[s] = r /\ SocketOK(r)
    BY <1>1 DEF IInv, SocketInv
  <2>2. r.first \in Nat /\ r.next \in Nat
    BY DEF SocketType
  <2>3. /\ r.pc \notin {"off", "attached"} =>
             1 <= r.first /\ r.first <= r.next /\ r.next <= Len(sent') + 1
        /\ r.pc = "subscribed" => r.next = r.first
    BY <1>6, <2>1, <2>2 DEF SocketOK
  <2>4. ASSUME r.pc \in {"open", "typing", "told", "closed", "left"}
        PROVE  /\ \A i \in r.first..(r.next - 1) : sent'[i] # Exit => Contains(r.live, sent'[i])
               /\ \A i \in 1..(r.first - 1) : sent'[i] \in text' => Covers(r.hist, sent'[i])
    <3>1. Within(r)
      BY <2>1, <2>4 DEF SocketOK
    <3>2. /\ \A i \in r.first..(r.next - 1) : i \in 1..n
          /\ \A i \in 1..(r.first - 1) : i \in 1..n
      BY <1>6, <2>2, <3>1 DEF Within
    <3> QED
      BY <1>3, <1>4, <2>1, <2>4, <3>2 DEF SocketOK
  <2> QED
    BY <2>1, <2>3, <2>4 DEF SocketOK, Within, Contains, Covers
<1>8. ASSUME NEW x \in Streams PROVE StreamOK(stream[x])'
  <2> PICK r \in StreamType : r = stream[x]
    BY DEF IInv
  <2>1. stream'[x] = r /\ StreamOK(r)
    BY <1>1 DEF IInv, StreamInv
  <2>2. r.first \in Nat /\ r.next \in Nat
    BY DEF StreamType
  <2>3. r.pc \in {"open", "ended"} => 1 <= r.first /\ r.first <= r.next /\ r.next <= Len(sent') + 1
    BY <1>6, <2>1, <2>2 DEF StreamOK
  <2> QED
    BY <1>5, <2>1, <2>3 DEF StreamOK, Within, Increasing, Range
<1> QED
  BY <1>1, <1>7, <1>8 DEF IInv, SocketInv, StreamInv

------------------------------------------------------------------------------
(* The readers.                                                                                   *)

(* The next place to read, of those still in the ring.                                            *)
LEMMA OldestIsPlace ==
  ASSUME SessionInv
  PROVE  Oldest \in Nat \ {0} /\ Oldest <= Len(sent) + 1
  BY MessagesAreRead, CapsAssumption DEF Oldest

LEMMA SocketKeeps ==
  ASSUME IInv, NEW s \in Sockets, NEW new \in SocketType, SocketOK(new),
         socket' = [socket EXCEPT ![s] = new], UNCHANGED <<session, stream>>
  PROVE  IInv'
<1>1. socket' \in [Sockets -> SocketType] /\ \A t \in Sockets : SocketOK(socket'[t])
  BY DEF IInv, SocketInv
<1>2. SocketInv'
  BY <1>1 DEF session, SocketInv, SocketOK, Within, Covers
<1>3. SessionInv' /\ StreamInv' /\ stream' \in [Streams -> StreamType]
  BY DEF session, IInv, SessionInv, SessionTypeOK, SentWereRead, ScrollIsNewest, Covers, Increasing,
         StreamInv, StreamOK, Within
<1> QED
  BY <1>1, <1>2, <1>3 DEF IInv

SocketMoves(s) ==
  SocketAttach(s) \/ SocketStart(s) \/ SocketFollow(s) \/ SocketInput(s) \/ SocketLeave(s)

LEMMA SocketStepKeeps ==
  ASSUME IInv, NEW s \in Sockets, SocketMoves(s)
  PROVE  IInv'
<1> PICK r \in SocketType : r = socket[s]
  BY DEF IInv
<1>1. SocketOK(r) /\ socket \in [Sockets -> SocketType] /\ SessionInv
  BY DEF IInv, SocketInv
<1>2. UNCHANGED <<session, stream>>
  BY DEF SocketMoves, SocketAttach, SocketStart, SocketFollow, SocketInput, SocketLeave, SocketSubscribe,
         SocketHistory, SocketRecv, SocketRecvErr, SocketTypes, SocketTyped, SocketRefused
<1>3. /\ r.first \in Nat /\ r.next \in Nat /\ r.hist \in Seq(Chunks) /\ r.live \in Seq(Chunks)
      /\ Len(sent) \in Nat
  BY <1>1, MessagesAreRead DEF SocketType
<1>4. ASSUME NEW new \in SocketType, SocketOK(new), socket' = [socket EXCEPT ![s] = new]
      PROVE  IInv'
  BY <1>2, <1>4, SocketKeeps
<1>5. CASE SocketAttach(s)
  <2> PICK new : new = [r EXCEPT !.pc = "attached"]
    OBVIOUS
  <2>1. new \in SocketType /\ new.pc = "attached"
    BY DEF SocketType
  <2>2. SocketOK(new)
    BY <2>1 DEF SocketOK
  <2>3. socket' = [socket EXCEPT ![s] = new]
    BY <1>1, <1>5 DEF SocketAttach
  <2> QED
    BY <1>4, <2>1, <2>2, <2>3
<1>6. CASE SocketSubscribe(s)
  <2>a. PICK k \in Nat : k = Len(sent) + 1
    BY <1>3
  <2>b. PICK new : new = [r EXCEPT !.pc = "subscribed", !.first = k, !.next = k]
    OBVIOUS
  <2>1. /\ new \in SocketType /\ new.pc = "subscribed"
        /\ new.first = k /\ new.next = k
    BY <2>b DEF SocketType
  <2>2. SocketOK(new)
    BY <1>3, <2>a, <2>1 DEF SocketOK, Within
  <2>3. socket' = [socket EXCEPT ![s] = new]
    BY <1>1, <1>6, <2>a, <2>b DEF SocketSubscribe, Subscription
  <2> QED
    BY <1>4, <2>1, <2>2, <2>3
<1>7. CASE SocketHistory(s)
  <2> PICK new : new = [r EXCEPT !.hist = scroll, !.pc = "open"]
    OBVIOUS
  <2>1. scroll \in Seq(Chunks)
    BY <1>1, MessagesAreRead, SeqWidens DEF SessionInv, SessionTypeOK
  <2>2. /\ new \in SocketType /\ new.pc = "open" /\ new.hist = scroll
        /\ new.first = r.first /\ new.next = r.next
    BY <2>1 DEF SocketType
  <2>3. r.pc = "subscribed"
    BY <1>7 DEF SocketHistory
  <2>4. SocketOK(new)
    BY <1>1, <1>3, <2>2, <2>3 DEF SocketOK, Within, SessionInv, ScrollIsNewest
  <2>5. socket' = [socket EXCEPT ![s] = new]
    BY <1>1, <1>7 DEF SocketHistory
  <2> QED
    BY <1>4, <2>2, <2>4, <2>5
<1>8. CASE SocketRecv(s)
  <2> PICK message : message = sent[r.next]
    OBVIOUS
  <2>1. /\ r.pc = "open" /\ Within(r) /\ r.next <= Len(sent)
        /\ \A i \in r.first..(r.next - 1) : sent[i] # Exit => Contains(r.live, sent[i])
        /\ \A i \in 1..(r.first - 1) : sent[i] \in text => Covers(r.hist, sent[i])
    BY <1>1, <1>8, <1>3, OldestIsPlace DEF SocketRecv, Ready, SocketOK
  <2>2. r.next \in 1..Len(sent) /\ (message = Exit \/ message \in Chunks)
    BY <1>1, <1>3, <2>1, MessagesAreRead DEF Within
  <2>a. PICK k \in Nat : k = r.next + 1
    BY <1>3
  <2>3. CASE message = Exit
    <3>a. PICK new : new = [r EXCEPT !.pc = "told", !.next = k]
      OBVIOUS
    <3>1. /\ new \in SocketType /\ new.pc = "told" /\ new.next = k /\ new.first = r.first
          /\ new.live = r.live /\ new.hist = r.hist
      BY <3>a DEF SocketType
    <3>2. \A i \in r.first..(k - 1) : i \in r.first..(r.next - 1) \/ i = r.next
      BY <1>3, <2>a
    <3>5. Within(new)
      BY <1>3, <2>a, <2>1, <3>1 DEF Within
    <3>6. \A i \in r.first..(k - 1) : sent[i] # Exit => Contains(r.live, sent[i])
      BY <2>1, <2>3, <3>2
    <3>3. SocketOK(new)
      BY <2>1, <3>1, <3>5, <3>6 DEF SocketOK
    <3>4. socket' = [socket EXCEPT ![s] = new]
      BY <1>1, <1>8, <2>a, <2>3, <3>a DEF SocketRecv
    <3> QED
      BY <1>4, <3>1, <3>3, <3>4
  <2>4. CASE message # Exit
    <3>a. PICK live : live = Append(r.live, message)
      OBVIOUS
    <3>b. PICK new : new = [r EXCEPT !.live = live, !.next = k]
      OBVIOUS
    <3>1. live \in Seq(Chunks) /\ Contains(live, message) /\ \A m : Contains(r.live, m) => Contains(live, m)
      BY <1>3, <2>2, <2>4, <3>a, AppendContains
    <3>2. /\ new \in SocketType /\ new.pc = "open" /\ new.next = k /\ new.first = r.first
          /\ new.live = live /\ new.hist = r.hist
      BY <2>1, <3>b, <3>1 DEF SocketType
    <3>5. \A i \in r.first..(k - 1) : i \in r.first..(r.next - 1) \/ i = r.next
      BY <1>3, <2>a
    <3>3. SocketOK(new)
      BY <1>3, <2>a, <2>1, <2>2, <3>1, <3>2, <3>5 DEF SocketOK, Within
    <3>4. socket' = [socket EXCEPT ![s] = new]
      BY <1>1, <1>8, <2>a, <2>4, <3>a, <3>b DEF SocketRecv
    <3> QED
      BY <1>4, <3>2, <3>3, <3>4
  <2> QED
    BY <2>3, <2>4
<1>9. CASE SocketRecvErr(s) \/ SocketLeave(s) \/ SocketInput(s)
  <2> PICK pc \in {"open", "typing", "closed", "left"} :
        r.pc \in {"open", "typing"} /\ socket' = [socket EXCEPT ![s].pc = pc]
    BY <1>9 DEF SocketRecvErr, SocketLeave, SocketInput, SocketTypes, SocketTyped, SocketRefused
  <2> PICK new : new = [r EXCEPT !.pc = pc]
    OBVIOUS
  <2>1. /\ new \in SocketType /\ new.pc = pc /\ new.next = r.next /\ new.first = r.first
        /\ new.live = r.live /\ new.hist = r.hist
    BY DEF SocketType
  <2>2. SocketOK(new)
    BY <1>1, <2>1 DEF SocketOK, Within
  <2>3. socket' = [socket EXCEPT ![s] = new]
    BY <1>1
  <2> QED
    BY <1>4, <2>1, <2>2, <2>3
<1> QED
  BY <1>5, <1>6, <1>7, <1>8, <1>9 DEF SocketMoves, SocketStart, SocketFollow

LEMMA StreamKeeps ==
  ASSUME IInv, NEW x \in Streams, NEW new \in StreamType, StreamOK(new),
         stream' = [stream EXCEPT ![x] = new], UNCHANGED <<session, socket>>
  PROVE  IInv'
<1>1. stream' \in [Streams -> StreamType] /\ \A y \in Streams : StreamOK(stream'[y])
  BY DEF IInv, StreamInv
<1>2. StreamInv'
  BY <1>1 DEF session, StreamInv, StreamOK, Within
<1>3. SessionInv' /\ SocketInv' /\ socket' \in [Sockets -> SocketType]
  BY DEF session, IInv, SessionInv, SessionTypeOK, SentWereRead, ScrollIsNewest, Covers, Increasing,
         SocketInv, SocketOK, Within
<1> QED
  BY <1>1, <1>2, <1>3 DEF IInv

(* What a buffered reader holds is passed on whole, or dropped by one that is told of the exit.   *)
LEMMA ReturnedIsOK ==
  ASSUME NEW r \in StreamType, NEW buf \in Seq(Nat), r.pc = "open", Within(r),
         \A i \in r.skipped : i < r.next, Increasing(r.out \o buf),
         Range(r.out \o buf) = (r.first..(r.next - 1)) \ r.skipped
  PROVE  Returned(r, buf) \in StreamType /\ StreamOK(Returned(r, buf))
<1>1. MaxBuf \in Nat \ {0} /\ Len(<<>>) < MaxBuf
  BY CapsAssumption
<1>e. PICK empty \in Seq(Nat) : empty = <<>>
  BY EmptySeq
<1>2. CASE r.kind = "mqtt" /\ EndsWithExit(buf)
  <2>b. PICK new : new = [r EXCEPT !.pc = "told", !.buf = empty]
    OBVIOUS
  <2>1. new \in StreamType /\ new.pc = "told" /\ new.buf = empty
    BY <2>b DEF StreamType
  <2>2. Returned(r, buf) = new
    BY <1>2, <1>e, <2>b DEF Returned
  <2>3. StreamOK(new)
    BY <1>1, <1>e, <2>1 DEF StreamOK
  <2> QED
    BY <2>1, <2>2, <2>3
<1>3. CASE ~(r.kind = "mqtt" /\ EndsWithExit(buf))
  <2>1. r.out \in Seq(Nat)
    BY DEF StreamType
  <2>a. PICK out \in Seq(Nat) : out = r.out \o buf
    BY <2>1, Concatenation
  <2>b. PICK new : new = [r EXCEPT !.out = out, !.buf = empty]
    OBVIOUS
  <2>2. /\ new \in StreamType /\ new.pc = "open" /\ new.buf = empty /\ new.out = out
        /\ new.first = r.first /\ new.next = r.next /\ new.skipped = r.skipped
    BY <2>b DEF StreamType
  <2>3. Returned(r, buf) = new
    BY <1>3, <1>e, <2>a, <2>b DEF Returned
  <2>4. /\ Increasing(new.out \o new.buf)
        /\ Range(new.out \o new.buf) = (new.first..(new.next - 1)) \ new.skipped
    <3>1. out \o empty = out
      BY <1>e, Concatenation
    <3>2. new.out \o new.buf = r.out \o buf
      BY <2>a, <2>2, <3>1
    <3> QED
      BY <2>2, <3>2
  <2>5. Within(new)
    BY <2>2 DEF Within
  <2>6. StreamOK(new)
    BY <1>1, <1>e, <2>2, <2>4, <2>5 DEF StreamOK
  <2> QED
    BY <2>2, <2>3, <2>6
<1> QED
  BY <1>2, <1>3

LEMMA StreamStepKeeps ==
  ASSUME IInv, NEW x \in Streams,
         \/ \E kind \in {"mqtt", "sse"} : StreamGet(x, kind)
         \/ StreamStep(x) \/ StreamDeadline(x) \/ StreamLeave(x)
  PROVE  IInv'
<1> PICK r \in StreamType : r = stream[x]
  BY DEF IInv
<1>1. StreamOK(r) /\ stream \in [Streams -> StreamType] /\ SessionInv
  BY DEF IInv, StreamInv
<1>2. UNCHANGED <<session, socket>>
  BY DEF StreamGet, StreamStep, StreamSubscribe, StreamTake, StreamLagged, StreamClosed,
         StreamDeadline, StreamLeave
<1>3. /\ r.first \in Nat /\ r.next \in Nat /\ r.buf \in Seq(Nat) /\ r.out \in Seq(Nat)
      /\ Len(sent) \in Nat /\ MaxBuf \in Nat \ {0}
  BY <1>1, MessagesAreRead, CapsAssumption DEF StreamType
<1>4. ASSUME NEW new \in StreamType, StreamOK(new), stream' = [stream EXCEPT ![x] = new]
      PROVE  IInv'
  BY <1>2, <1>4, StreamKeeps
<1>5. ASSUME r.pc = "open"
      PROVE  /\ Within(r) /\ \A i \in r.skipped : i < r.next
             /\ Increasing(r.out \o r.buf)
             /\ Range(r.out \o r.buf) = (r.first..(r.next - 1)) \ r.skipped
  BY <1>1, <1>5 DEF StreamOK
<1>6. ASSUME NEW kind \in {"mqtt", "sse"}, StreamGet(x, kind)
      PROVE  IInv'
  <2>b. PICK new : new = [r EXCEPT !.pc = "got", !.kind = kind]
    OBVIOUS
  <2>1. r.pc = "off"
    BY <1>6 DEF StreamGet
  <2>2. /\ new \in StreamType /\ new.pc = "got" /\ new.buf = r.buf /\ new.out = r.out
        /\ new.skipped = r.skipped
    BY <2>b DEF StreamType
  <2>3. StreamOK(new)
    BY <1>1, <2>1, <2>2 DEF StreamOK
  <2>4. stream' = [stream EXCEPT ![x] = new]
    BY <1>1, <1>6, <2>b DEF StreamGet
  <2> QED
    BY <1>4, <2>2, <2>3, <2>4
<1>7. CASE StreamSubscribe(x)
  <2>a. PICK k \in Nat : k = Len(sent) + 1
    BY <1>3
  <2>b. PICK new : new = [r EXCEPT !.pc = "open", !.first = k, !.next = k]
    OBVIOUS
  <2>1. r.pc = "got"
    BY <1>7 DEF StreamSubscribe
  <2>2. /\ new \in StreamType /\ new.pc = "open" /\ new.first = k /\ new.next = k
        /\ new.buf = <<>> /\ new.out = <<>> /\ new.skipped = {}
    BY <1>1, <2>b, <2>1 DEF StreamType, StreamOK
  <2>3. Within(new)
    BY <1>3, <2>a, <2>2 DEF Within
  <2>4. /\ Increasing(new.out \o new.buf)
        /\ Range(new.out \o new.buf) = (new.first..(new.next - 1)) \ new.skipped
        /\ Len(new.buf) < MaxBuf
    <3>1. new.out \o new.buf = <<>>
      BY <2>2, Concatenation
    <3>2. Increasing(<<>>) /\ Range(<<>>) = {} /\ k..(k - 1) = {} /\ Len(<<>>) < MaxBuf
      BY <1>3 DEF Increasing, Range
    <3> QED
      BY <2>2, <3>1, <3>2
  <2>5. StreamOK(new)
    BY <2>2, <2>3, <2>4 DEF StreamOK
  <2>6. stream' = [stream EXCEPT ![x] = new]
    BY <1>1, <1>7, <2>a, <2>b DEF StreamSubscribe, Subscription
  <2> QED
    BY <1>4, <2>2, <2>5, <2>6
<1>8. CASE StreamTake(x)
  <2>1. r.pc = "open" /\ r.next <= Len(sent)
    BY <1>8 DEF StreamTake, Ready
  <2>a. PICK k \in Nat : k = r.next + 1
    BY <1>3
  <2>b. PICK buf \in Seq(Nat) : buf = Append(r.buf, r.next)
    BY <1>3, AppendMember
  <2>c. PICK s : s = [r EXCEPT !.next = k]
    OBVIOUS
  <2>2. /\ s \in StreamType /\ s.pc = "open" /\ s.next = k /\ s.first = r.first
        /\ s.out = r.out /\ s.skipped = r.skipped
    BY <2>1, <2>c DEF StreamType
  <2>3. Within(s) /\ \A i \in s.skipped : i < s.next
    <3>1. r.skipped \subseteq Nat
      BY DEF StreamType
    <3> QED
      BY <1>3, <1>5, <2>a, <2>1, <2>2, <3>1 DEF Within
  <2>4. Increasing(r.out \o buf) /\ Range(r.out \o buf) = (r.first..(k - 1)) \ r.skipped
    <3>a. PICK seq \in Seq(Nat) : seq = r.out \o r.buf
      BY <1>3, Concatenation
    <3>1. /\ Increasing(seq) /\ Range(seq) = (r.first..(r.next - 1)) \ r.skipped
          /\ \A i \in r.skipped : i < r.next
      BY <1>5, <2>1, <3>a
    <3>2. \A i \in Range(seq) : i < r.next
      BY <1>3, <3>1
    <3>3. Increasing(Append(seq, r.next)) /\ Range(Append(seq, r.next)) = Range(seq) \union {r.next}
      BY <1>3, <3>1, <3>2, AppendPlace
    <3>4. r.out \o buf = Append(seq, r.next)
      <4>1. PICK out \in Seq(Nat), held \in Seq(Nat), n \in Nat :
                out = r.out /\ held = r.buf /\ n = r.next
        BY <1>3
      <4>2. out \o Append(held, n) = Append(out \o held, n)
        BY Concatenation
      <4> QED
        BY <2>b, <3>a, <4>1, <4>2
    <3>5. r.first..(k - 1) = (r.first..(r.next - 1)) \union {r.next}
      BY <1>3, <1>5, <2>1, <2>a DEF Within
    <3>6. r.next \notin r.skipped
      BY <1>3, <3>1
    <3> QED
      BY <3>1, <3>3, <3>4, <3>5, <3>6
  <2>5. stream' = [stream EXCEPT ![x] = IF Len(buf) >= MaxBuf THEN Returned(s, buf)
                                        ELSE [s EXCEPT !.buf = buf]]
    BY <1>1, <1>8, <2>a, <2>b, <2>c DEF StreamTake
  <2>6. CASE Len(buf) >= MaxBuf
    <3>1. Returned(s, buf) \in StreamType /\ StreamOK(Returned(s, buf))
      BY <2>2, <2>3, <2>4, ReturnedIsOK
    <3> QED
      BY <1>4, <2>5, <2>6, <3>1
  <2>7. CASE ~(Len(buf) >= MaxBuf)
    <3>b. PICK new : new = [s EXCEPT !.buf = buf]
      OBVIOUS
    <3>1. /\ new \in StreamType /\ new.pc = "open" /\ new.next = k /\ new.first = r.first
          /\ new.out = r.out /\ new.skipped = r.skipped /\ new.buf = buf
      BY <2>2, <3>b DEF StreamType
    <3>2. Len(buf) < MaxBuf
      BY <1>3, <2>7, SeqMember
    <3>3. Within(new)
      BY <2>2, <2>3, <3>1 DEF Within
    <3>4. StreamOK(new)
      BY <2>2, <2>3, <2>4, <3>1, <3>2, <3>3 DEF StreamOK
    <3> QED
      BY <1>4, <2>5, <2>7, <3>b, <3>1, <3>4
  <2> QED
    BY <2>6, <2>7
<1>9. ASSUME r.pc = "open", stream' = [stream EXCEPT ![x] = Returned(r, r.buf)]
      PROVE  IInv'
  <2>1. Returned(r, r.buf) \in StreamType /\ StreamOK(Returned(r, r.buf))
    BY <1>3, <1>5, <1>9, ReturnedIsOK
  <2> QED
    BY <1>4, <1>9, <2>1
<1>10. CASE StreamDeadline(x)
  <2>1. r.pc = "open" /\ stream' = [stream EXCEPT ![x] = Returned(r, r.buf)]
    BY <1>1, <1>10 DEF StreamDeadline
  <2> QED
    BY <1>9, <2>1
<1>11. CASE StreamLagged(x)
  <2>1. r.pc = "open" /\ r.next < Oldest
    BY <1>11 DEF StreamLagged, Lagged
  <2>a. PICK k \in Nat \ {0} : k = Oldest /\ k <= Len(sent) + 1
    BY <1>1, OldestIsPlace
  <2>d. r.skipped \subseteq Nat /\ r.next..(k - 1) \subseteq Nat
    BY <1>3 DEF StreamType
  <2>c. PICK skipped \in SUBSET Nat : skipped = r.skipped \union (r.next..(k - 1))
    BY <2>d
  <2>b. PICK new : new = [r EXCEPT !.next = k, !.skipped = skipped]
    OBVIOUS
  <2>2. /\ new \in StreamType /\ new.pc = "open" /\ new.next = k /\ new.first = r.first
        /\ new.out = r.out /\ new.buf = r.buf /\ new.skipped = skipped
    BY <2>1, <2>b DEF StreamType
  <2>3. Within(new) /\ \A i \in skipped : i < k
    BY <1>3, <1>5, <2>1, <2>a, <2>c, <2>2 DEF Within
  <2>4. (r.first..(k - 1)) \ skipped = (r.first..(r.next - 1)) \ r.skipped
    BY <1>3, <1>5, <2>1, <2>a, <2>c DEF Within
  <2>5. StreamOK(new)
    BY <1>1, <1>5, <2>1, <2>2, <2>3, <2>4 DEF StreamOK
  <2>6. stream' = [stream EXCEPT ![x] = new]
    BY <1>1, <1>11, <2>a, <2>b, <2>c DEF StreamLagged
  <2> QED
    BY <1>4, <2>2, <2>5, <2>6
<1>12. CASE StreamClosed(x)
  <2>1. r.pc = "open" /\ r.next > Len(sent) /\ ~listed /\ reader = "done"
    BY <1>12 DEF StreamClosed, Closed
  <2>2. CASE r.buf = <<>>
    <3>b. PICK new : new = [r EXCEPT !.pc = "ended"]
      OBVIOUS
    <3>1. /\ new \in StreamType /\ new.pc = "ended" /\ new.next = r.next /\ new.first = r.first
          /\ new.out = r.out /\ new.buf = r.buf /\ new.skipped = r.skipped
      BY <3>b DEF StreamType
    <3>2. Within(new) /\ new.next = Len(sent) + 1
      BY <1>3, <1>5, <2>1, <3>1 DEF Within
    <3>3. StreamOK(new)
      BY <1>1, <1>5, <2>1, <2>2, <3>1, <3>2 DEF StreamOK
    <3>4. stream' = [stream EXCEPT ![x] = new]
      BY <1>1, <1>12, <2>2, <3>b DEF StreamClosed
    <3> QED
      BY <1>4, <3>1, <3>3, <3>4
  <2>3. CASE r.buf # <<>>
    <3>1. stream' = [stream EXCEPT ![x] = Returned(r, r.buf)]
      BY <1>1, <1>12, <2>3 DEF StreamClosed
    <3> QED
      BY <1>9, <2>1, <3>1
  <2> QED
    BY <2>2, <2>3
<1>13. CASE StreamLeave(x)
  <2>3. Len(<<>>) < MaxBuf
    BY <1>3, EmptySeq
  <2>a. PICK empty \in Seq(Nat) : empty = <<>> /\ Len(empty) < MaxBuf
    BY <2>3, EmptySeq
  <2>b. PICK new : new = [r EXCEPT !.pc = "left", !.buf = empty]
    OBVIOUS
  <2>1. new \in StreamType /\ new.pc = "left" /\ new.buf = empty
    BY <2>b DEF StreamType
  <2>2. StreamOK(new)
    BY <2>a, <2>1 DEF StreamOK
  <2>4. stream' = [stream EXCEPT ![x] = new]
    BY <1>1, <1>13, <2>a, <2>b DEF StreamLeave
  <2> QED
    BY <1>4, <2>1, <2>2, <2>4
<1> QED
  BY <1>6, <1>7, <1>8, <1>10, <1>11, <1>12, <1>13 DEF StreamStep

------------------------------------------------------------------------------
(* The theorems.                                                                                  *)

(* The inductive invariant of the output plane.                                                   *)
THEOREM InvariantHolds == Spec => []IInv
<1>1. Init => IInv
  BY InitInvariant
<1>2. ASSUME IInv, [Next]_vars PROVE IInv'
  <2>1. CASE UNCHANGED vars
    BY <1>2, <2>1
       DEF vars, session, IInv, SessionInv, SessionTypeOK, SentWereRead, ScrollIsNewest, Covers,
           Increasing, SocketInv, SocketOK, StreamInv, StreamOK, Within
  <2>2. CASE ReaderRead \/ ReaderSend \/ ReaderEof \/ Unregister \/ Cleanup \/ ShellExits \/ JobsExit
    <3>1. SessionInv'
      BY <1>2, <2>2, ReadKeepsSession, SentKeepsSession DEF IInv
    <3> QED
      BY <1>2, <2>2, <3>1, SessionKeepsReaders DEF IInv
  <2>3. ASSUME NEW s \in Sockets, SocketMoves(s) PROVE IInv'
    BY <1>2, <2>3, SocketStepKeeps
  <2>4. ASSUME NEW x \in Streams,
               \/ StreamGet(x, "mqtt") \/ StreamGet(x, "sse") \/ StreamStep(x)
               \/ StreamDeadline(x) \/ StreamLeave(x)
        PROVE  IInv'
    BY <1>2, <2>4, StreamStepKeeps
  <2> QED
    BY <1>2, <2>1, <2>2, <2>3, <2>4 DEF Next, SocketMoves
<1> QED
  BY <1>1, <1>2, PTL DEF Spec

(* Types of the session, the ring and its readers; the scrollback keeps to its capacity and a     *)
(* BufferedOutput to its max_bytes (session.rs:93-101, buffer.rs:78-100).                         *)
THEOREM TypeHolds == Spec => []TypeOK
<1>1. IInv => TypeOK
  BY DEF IInv, SessionInv, SessionTypeOK, StreamInv, StreamOK, TypeOK
<1> QED
  BY <1>1, InvariantHolds, PTL

(* What a terminal shows has no hole, whatever the capacities of ring and scrollback: the socket  *)
(* subscribes before it reads the history, and is closed when it lags.                            *)
THEOREM TerminalSeesNoGap == Spec => []SocketSeesNoGap
<1>1. IInv => SocketSeesNoGap
  BY DEF IInv, SocketInv, SocketOK, SocketSeesNoGap, Covers
<1> QED
  BY <1>1, InvariantHolds, PTL

(* A BufferedOutput returns in order, and once, all that came since it subscribed and that it did *)
(* not lag behind, and ends with nothing left.                                                    *)
THEOREM BufferLosesNothing == Spec => []StreamComplete
<1>1. IInv => StreamComplete
  BY DEF IInv, StreamInv, StreamOK, StreamComplete
<1> QED
  BY <1>1, InvariantHolds, PTL
==============================================================================
