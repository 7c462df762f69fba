----------------------------- MODULE SessionsProofs ----------------------------
(***************************************************************************)
(* What holds of the streams of tunnels and shells for any numbers of      *)
(* addresses, sessions, chunks, polls and losses: they are kept in order,  *)
(* a reason that promises the whole output has it, and the history of a    *)
(* shell says why it ended.                                                *)
(*                                                                         *)
(* The invariant follows each stream from end to end: out of the client,   *)
(* through a call, a session and what is behind it, and back.  Most steps  *)
(* disturb no stream: a session fades, a call goes wrong, the client       *)
(* stops.  One lemma for each stream (SendStays, PollStays) says so, and   *)
(* what is left are the few steps that send, serve, read, make or take a   *)
(* chunk, each with a lemma about one entry and one call.                  *)
(*                                                                         *)
(* The history has an invariant of its own (LogInv), which rests on the    *)
(* first: Noting() says which records fit a change of the sessions, and    *)
(* the list stays right as it grows by them and as it is cut.              *)
(***************************************************************************)
EXTENDS Sessions, SequenceTheorems, TLAPS

-----------------------------------------------------------------------------
(* What a session is, and how it changes *)

Entries ==
  [held: BOOLEAN, up: BOOLEAN, pend: Seq(Nat), got: Seq(Nat),
   made: Nat, chunks: Seq(Nat), closed: BOOLEAN, error: BOOLEAN,
   idle: BOOLEAN, old: BOOLEAN, recorded: BOOLEAN]

(* What holds of every session of a plugin of kind k: nothing is left of    *)
(* one that is out of the map, nor unread in one that is gone; a close      *)
(* comes after an end; a shell prints once it was typed at; and one that is *)
(* in the map has its end recorded where, and only where, it has an error.  *)
Settled(k, e) ==
  /\ ~e.held => ~e.up /\ e.chunks = <<>>
  /\ ~e.up => e.pend = <<>>
  /\ e.closed => ~e.up
  /\ k = "shell" /\ e.closed => e.error \/ ~e.held
  /\ k = "shell" /\ e.made > 0 => e.got # <<>>
  /\ e.made <= OutLen
  /\ k = "shell" /\ e.held => (e.recorded <=> e.error)

(* Nothing went through it: what every session is that is not the client's  *)
(* own.                                                                     *)
Blank(e) == e.got = <<>> /\ e.pend = <<>> /\ e.chunks = <<>> /\ e.made = 0

(* Nothing is added to what goes in, and what is left of it is in order.    *)
SendKept(e, f) ==
  /\ f.got = e.got
  /\ f.up => e.up /\ f.pend = e.pend
  /\ f.held => e.held

(* The same of what comes out: it is all there or, with the session, all    *)
(* gone.                                                                    *)
PollKept(e, f) ==
  /\ f.made = e.made
  /\ f.held => e.held /\ f.chunks = e.chunks
  /\ e.closed => f.closed
  /\ e.error => f.error

(* From e to f with neither stream disturbed.                               *)
Fades(k, e, f) == f \in Entries /\ Settled(k, f) /\ SendKept(e, f) /\ PollKept(e, f)

(* What SessionsAssumption says of the constants the proofs count with.     *)
LEMMA ConstantsInNat ==
  /\ OutLen \in Nat \ {0} /\ Addresses \in Nat /\ Buffered \in Nat
BY SessionsAssumption

-----------------------------------------------------------------------------
(* Sequences *)

(* s is the first of n numbered chunks, in order: the form of IsPrefix(s,   *)
(* UpTo(n)) that is easier to reason about.                                 *)
Begins(s, n) == s = UpTo(Len(s)) /\ Len(s) <= n

(* UpTo(n) has n elements, each its own index.                              *)
LEMMA UpToIsASeq ==
  ASSUME NEW n \in Nat
  PROVE  /\ UpTo(n) \in Seq(Nat)
         /\ Len(UpTo(n)) = n
         /\ \A k \in 1..n : UpTo(n)[k] = k
<1>1. UpTo(n) \in [1..n -> Nat]
  BY DEF UpTo
<1>2. UpTo(n) \in Seq(Nat)
  BY <1>1, SeqDef
<1>3. DOMAIN UpTo(n) = 1..n /\ \A k \in 1..n : UpTo(n)[k] = k
  BY DEF UpTo
<1>4. Len(UpTo(n)) \in Nat /\ DOMAIN UpTo(n) = 1..Len(UpTo(n))
  BY <1>2, LenProperties
<1>5. Len(UpTo(n)) = n
  BY <1>3, <1>4
<1> QED
  BY <1>2, <1>3, <1>5

(* No chunk is the empty sequence.                                          *)
LEMMA UpToZero == UpTo(0) = <<>>
<1>1. UpTo(0) \in Seq(Nat) /\ Len(UpTo(0)) = 0
  BY UpToIsASeq
<1> QED
  BY <1>1, EmptySeq

(* One more chunk, at the end.                                              *)
LEMMA UpToNext ==
  ASSUME NEW n \in Nat
  PROVE  Append(UpTo(n), n + 1) = UpTo(n + 1)
<1> DEFINE s == UpTo(n)
           t == UpTo(n + 1)
           a == Append(s, n + 1)
<1>1. s \in Seq(Nat) /\ Len(s) = n /\ \A k \in 1..n : s[k] = k
  BY UpToIsASeq
<1>2. t \in Seq(Nat) /\ Len(t) = n + 1 /\ \A k \in 1..(n + 1) : t[k] = k
  BY UpToIsASeq
<1> HIDE DEF s, t
<1>3. /\ a \in Seq(Nat) /\ Len(a) = Len(s) + 1
      /\ \A k \in 1..Len(s) : a[k] = s[k]
      /\ a[Len(s) + 1] = n + 1
  BY <1>1, AppendProperties
<1> HIDE DEF a
<1>4. \A k \in 1..(n + 1) : a[k] = t[k]
  BY <1>1, <1>2, <1>3
<1>5. Len(a) = Len(t) /\ \A k \in 1..Len(a) : a[k] = t[k]
  BY <1>1, <1>2, <1>3, <1>4
<1>6. a = t
  BY <1>2, <1>3, <1>5, SeqEqual
<1> QED
  BY <1>6 DEF a, s, t

(* Begins(), element by element.                                            *)
LEMMA BeginsByElements ==
  ASSUME NEW s \in Seq(Nat), NEW n \in Nat
  PROVE  Begins(s, n) <=> Len(s) <= n /\ \A k \in 1..Len(s) : s[k] = k
<1>1. Len(s) \in Nat
  BY LenProperties
<1> DEFINE t == UpTo(Len(s))
<1>2. t \in Seq(Nat) /\ Len(t) = Len(s) /\ \A k \in 1..Len(s) : t[k] = k
  BY <1>1, UpToIsASeq
<1>3. Begins(s, n) <=> s = t /\ Len(s) <= n
  BY DEF Begins
<1> HIDE DEF t
<1>4. (\A k \in 1..Len(s) : s[k] = k) => s = t
  <2>1. SUFFICES ASSUME \A k \in 1..Len(s) : s[k] = k
                 PROVE  s = t
    OBVIOUS
  <2>2. \A k \in 1..Len(s) : s[k] = t[k]
    BY <1>2, <2>1
  <2> QED
    BY <1>2, <2>2, SeqEqual
<1> QED
  BY <1>2, <1>3, <1>4

(* A beginning of few is a beginning of more.                               *)
LEMMA BeginsMono ==
  ASSUME NEW s \in Seq(Nat), NEW n \in Nat, NEW m \in Nat, n <= m, Begins(s, n)
  PROVE  Begins(s, m)
<1>1. Len(s) \in Nat
  BY LenProperties
<1> QED
  BY <1>1 DEF Begins

(* All of it is a beginning.                                                *)
LEMMA BeginsWhole ==
  ASSUME NEW n \in Nat
  PROVE  Begins(UpTo(n), n)
BY UpToIsASeq DEF Begins

(* What has a beginning on its right is one: nothing was skipped before.    *)
LEMMA BeginsLeft ==
  ASSUME NEW s \in Seq(Nat), NEW t \in Seq(Nat), NEW n \in Nat, Begins(s \o t, n)
  PROVE  Begins(s, n)
<1> DEFINE u == s \o t
<1>1. Len(s) \in Nat /\ Len(t) \in Nat
  BY LenProperties
<1>2. /\ u \in Seq(Nat) /\ Len(u) = Len(s) + Len(t)
      /\ \A k \in 1..Len(s) : u[k] = s[k]
  BY <1>1, ConcatProperties
<1>3. Begins(u, n)
  OBVIOUS
<1> HIDE DEF u
<1>4. Len(u) <= n /\ \A k \in 1..Len(u) : u[k] = k
  BY <1>2, <1>3, BeginsByElements
<1>5. Len(s) <= n /\ \A k \in 1..Len(s) : s[k] = k
  BY <1>1, <1>2, <1>4
<1> QED
  BY <1>5, BeginsByElements

(* To append is to append to the end of a concatenation.                    *)
LEMMA AppendToConcat ==
  ASSUME NEW s \in Seq(Nat), NEW t \in Seq(Nat), NEW d \in Nat
  PROVE  s \o Append(t, d) = Append(s \o t, d)
<1>1. s \o t \in Seq(Nat)
  BY ConcatProperties
<1>2. <<d>> \in Seq(Nat)
  OBVIOUS
<1>3. Append(t, d) = t \o <<d>>
  BY AppendIsConcat
<1>4. Append(s \o t, d) = (s \o t) \o <<d>>
  BY <1>1, AppendIsConcat
<1>5. (s \o t) \o <<d>> = s \o (t \o <<d>>)
  BY <1>2, ConcatAssociative
<1> QED
  BY <1>3, <1>4, <1>5

(* A chunk that moves from the front of one queue to the end of the one     *)
(* before it does not change what both hold: Deliver().                     *)
LEMMA HeadMoves ==
  ASSUME NEW s \in Seq(Nat), NEW t \in Seq(Nat), t # <<>>
  PROVE  /\ Append(s, Head(t)) \in Seq(Nat)
         /\ Tail(t) \in Seq(Nat)
         /\ Append(s, Head(t)) \o Tail(t) = s \o t
<1> DEFINE h == Head(t)
           l == Tail(t)
<1>1. h \in Nat /\ l \in Seq(Nat)
  BY HeadTailProperties
<1>2. t = <<h>> \o l
  <2>1. Len(t) \in Nat \ {0}
    BY EmptySeq
  <2>2. SubSeq(t, 1, Len(t)) = <<t[1]>> \o SubSeq(t, 2, Len(t))
    <3>1. SubSeq(t, 1, Len(t)) = <<t[1]>> \o SubSeq(t, 1 + 1, Len(t))
      BY <2>1, SubSeqRecursiveFirst
    <3> QED
      BY <3>1
  <2>3. SubSeq(t, 1, Len(t)) = t
    BY SubSeqFull
  <2>4. l = SubSeq(t, 2, Len(t))
    BY TailIsSubSeq
  <2>5. h = t[1]
    BY <2>1
  <2> QED
    BY <2>2, <2>3, <2>4, <2>5
<1> HIDE DEF h, l
<1>3. <<h>> \in Seq(Nat)
  BY <1>1
<1>4. Append(s, h) = s \o <<h>> /\ Append(s, h) \in Seq(Nat)
  BY <1>1, AppendIsConcat, AppendProperties
<1>5. (s \o <<h>>) \o l = s \o (<<h>> \o l)
  BY <1>1, <1>3, ConcatAssociative
<1>6. Append(s, h) \o l = s \o t
  BY <1>2, <1>4, <1>5
<1> QED
  BY <1>1, <1>4, <1>6 DEF h, l

(* Begins() is the IsPrefix of StreamsAreKept.                              *)
LEMMA BeginsIsPrefix ==
  ASSUME NEW s \in Seq(Nat), NEW n \in Nat, Begins(s, n)
  PROVE  IsPrefix(s, UpTo(n))
<1> DEFINE t == UpTo(n)
           k == Len(s)
<1>1. k \in Nat /\ k <= n /\ \A j \in 1..k : s[j] = j
  BY LenProperties, BeginsByElements
<1>2. t \in Seq(Nat) /\ Len(t) = n /\ \A j \in 1..n : t[j] = j
  BY UpToIsASeq
<1> HIDE DEF t, k
<1>3. /\ SubSeq(s, 1, k) \in Seq(Nat) /\ Len(SubSeq(s, 1, k)) = k
      /\ \A j \in 1..k : SubSeq(s, 1, k)[j] = s[j]
  <2>1. \A j \in 1..k : s[j] \in Nat
    BY <1>1
  <2>2. /\ SubSeq(s, 1, k) \in Seq(Nat)
        /\ Len(SubSeq(s, 1, k)) = IF 1 <= k THEN k - 1 + 1 ELSE 0
        /\ \A j \in 1..(k - 1 + 1) : SubSeq(s, 1, k)[j] = s[1 + j - 1]
    BY <1>1, <2>1, SubSeqProperties
  <2> QED
    BY <1>1, <2>2
<1>4. /\ SubSeq(t, 1, k) \in Seq(Nat) /\ Len(SubSeq(t, 1, k)) = k
      /\ \A j \in 1..k : SubSeq(t, 1, k)[j] = t[j]
  <2>1. \A j \in 1..k : t[j] \in Nat
    BY <1>1, <1>2
  <2>2. /\ SubSeq(t, 1, k) \in Seq(Nat)
        /\ Len(SubSeq(t, 1, k)) = IF 1 <= k THEN k - 1 + 1 ELSE 0
        /\ \A j \in 1..(k - 1 + 1) : SubSeq(t, 1, k)[j] = t[1 + j - 1]
    BY <1>1, <2>1, SubSeqProperties
  <2> QED
    BY <1>1, <2>2
<1>5. \A j \in 1..Len(SubSeq(s, 1, k)) : SubSeq(s, 1, k)[j] = SubSeq(t, 1, k)[j]
  BY <1>1, <1>2, <1>3, <1>4
<1>6. SubSeq(s, 1, k) = SubSeq(t, 1, k)
  BY <1>3, <1>4, <1>5, SeqEqual
<1> QED
  BY <1>1, <1>2, <1>6 DEF IsPrefix, t, k

-----------------------------------------------------------------------------
(* What befalls a session *)

(* An entry with one field replaced is an entry.                            *)
LEMMA OneField ==
  ASSUME NEW e \in Entries
  PROVE  /\ \A b \in BOOLEAN : /\ [e EXCEPT !.held = b] \in Entries
                              /\ [e EXCEPT !.up = b] \in Entries
                              /\ [e EXCEPT !.closed = b] \in Entries
                              /\ [e EXCEPT !.error = b] \in Entries
                              /\ [e EXCEPT !.idle = b] \in Entries
                              /\ [e EXCEPT !.old = b] \in Entries
                              /\ [e EXCEPT !.recorded = b] \in Entries
         /\ \A s \in Seq(Nat) : /\ [e EXCEPT !.pend = s] \in Entries
                               /\ [e EXCEPT !.got = s] \in Entries
                               /\ [e EXCEPT !.chunks = s] \in Entries
         /\ \A n \in Nat : [e EXCEPT !.made = n] \in Entries
BY DEF Entries

(* What Killed() replaces, and that it yields an entry.                     *)
LEMMA KilledFields ==
  ASSUME NEW e \in Entries
  PROVE  LET f == Killed(e) IN
         /\ f \in Entries
         /\ f.up = FALSE /\ f.pend = <<>> /\ f.held = e.held /\ f.got = e.got
         /\ f.made = e.made /\ f.chunks = e.chunks /\ f.closed = e.closed
         /\ f.error = e.error /\ f.recorded = e.recorded
<1> DEFINE g == [e EXCEPT !.up = FALSE]
           f == Killed(e)
<1>1. g \in Entries
  BY OneField
<1>2. f = [g EXCEPT !.pend = <<>>]
  BY DEF Killed
<1>3. f.up = FALSE /\ f.pend = <<>> /\ f.held = e.held /\ f.got = e.got
      /\ f.made = e.made /\ f.chunks = e.chunks /\ f.closed = e.closed
      /\ f.error = e.error /\ f.recorded = e.recorded
  BY DEF Killed, Entries
<1> HIDE DEF f, g
<1>4. f \in Entries
  BY <1>1, <1>2, OneField, EmptySeq
<1> QED
  BY <1>3, <1>4 DEF f

(* An entry that stays fades.                                               *)
LEMMA SameFades ==
  ASSUME NEW k, NEW e \in Entries, Settled(k, e)
  PROVE  Fades(k, e, e)
BY DEF Fades, SendKept, PollKept

(* To be killed is to fade: what was not read is gone, as a whole.          *)
LEMMA KilledFades ==
  ASSUME NEW k, NEW e \in Entries, Settled(k, e)
  PROVE  Fades(k, e, Killed(e)) /\ ~Killed(e).up
<1> DEFINE f == Killed(e)
<1>1. /\ f \in Entries
      /\ f.up = FALSE /\ f.pend = <<>> /\ f.held = e.held /\ f.got = e.got /\ f.made = e.made
      /\ f.chunks = e.chunks /\ f.closed = e.closed /\ f.error = e.error
      /\ f.recorded = e.recorded
  BY KilledFields
<1> HIDE DEF f
<1> QED
  BY <1>1 DEF Fades, SendKept, PollKept, Settled, f

(* So is a change of its idle time or its age: Touched(), Age(), GrowOld(), *)
(* Types().                                                                 *)
LEMMA TimedFades ==
  ASSUME NEW k, NEW e \in Entries, Settled(k, e), NEW b \in BOOLEAN
  PROVE  Fades(k, e, [e EXCEPT !.idle = b]) /\ Fades(k, e, [e EXCEPT !.old = b])
<1>1. ASSUME NEW f, f = [e EXCEPT !.idle = b] \/ f = [e EXCEPT !.old = b]
      PROVE  Fades(k, e, f)
  <2>1. /\ f \in Entries
        /\ f.up = e.up /\ f.pend = e.pend /\ f.held = e.held /\ f.got = e.got /\ f.made = e.made
        /\ f.chunks = e.chunks /\ f.closed = e.closed /\ f.error = e.error
        /\ f.recorded = e.recorded
    BY <1>1 DEF Entries
  <2> QED
    BY <2>1 DEF Fades, SendKept, PollKept, Settled
<1> QED
  BY <1>1

(* What Dropped() leaves of a session. *)
LEMMA DroppedFields ==
  ASSUME NEW e \in Entries
  PROVE  LET f == Dropped(e) IN
         /\ f \in Entries
         /\ f.held = FALSE /\ f.chunks = <<>>
         /\ f.up = e.up /\ f.pend = e.pend /\ f.got = e.got /\ f.made = e.made
         /\ f.closed = e.closed /\ f.error = e.error /\ f.recorded = e.recorded
<1> DEFINE f == Dropped(e)
           a == [e EXCEPT !.held = FALSE]
           b == [a EXCEPT !.chunks = <<>>]
           c == [b EXCEPT !.idle = FALSE]
<1>1. f = [e EXCEPT !.held = FALSE, !.chunks = <<>>, !.idle = FALSE, !.old = FALSE]
  BY DEF Dropped
<1>2. f = [c EXCEPT !.old = FALSE]
  BY DEF Dropped
<1> HIDE DEF f
<1>3. f \in Entries
  <2>1. a \in Entries
    BY OneField
  <2> HIDE DEF a
  <2>2. b \in Entries
    BY <2>1, OneField, EmptySeq
  <2> HIDE DEF b
  <2>3. c \in Entries
    BY <2>2, OneField
  <2> HIDE DEF c
  <2> QED
    BY <1>2, <2>3, OneField
<1>4. /\ f.held = FALSE /\ f.chunks = <<>>
      /\ f.up = e.up /\ f.pend = e.pend /\ f.got = e.got /\ f.made = e.made
      /\ f.closed = e.closed /\ f.error = e.error /\ f.recorded = e.recorded
  BY <1>1 DEF Entries
<1> QED
  BY <1>3, <1>4 DEF f

(* What Forgotten() leaves: its end is recorded too.                        *)
LEMMA ForgottenFields ==
  ASSUME NEW e \in Entries
  PROVE  LET f == Forgotten(e) IN
         /\ f \in Entries
         /\ f.held = FALSE /\ f.chunks = <<>> /\ f.recorded = TRUE
         /\ f.up = e.up /\ f.pend = e.pend /\ f.got = e.got /\ f.made = e.made
         /\ f.closed = e.closed /\ f.error = e.error
<1> DEFINE g == Dropped(e)
<1>1. /\ g \in Entries
      /\ g.held = FALSE /\ g.chunks = <<>>
      /\ g.up = e.up /\ g.pend = e.pend /\ g.got = e.got /\ g.made = e.made
      /\ g.closed = e.closed /\ g.error = e.error
  BY DroppedFields
<1>2. Forgotten(e) = [g EXCEPT !.recorded = TRUE]
  BY DEF Forgotten
<1> HIDE DEF g
<1>3. [g EXCEPT !.recorded = TRUE] \in Entries
  BY <1>1, OneField
<1> QED
  BY <1>1, <1>2, <1>3 DEF Entries

(* A session out of the map fades, once its socket or child is gone.        *)
LEMMA GoneFades ==
  ASSUME NEW e, NEW g, NEW f \in Entries, Fades(kind, e, g), ~g.up,
         f.held = FALSE, f.chunks = <<>>,
         f.up = g.up, f.pend = g.pend, f.got = g.got, f.made = g.made,
         f.closed = g.closed, f.error = g.error
  PROVE  Fades(kind, e, f)
<1>1. Settled(kind, f)
  BY DEF Fades, Settled
<1>2. SendKept(e, f) /\ PollKept(e, f)
  BY DEF Fades, SendKept, PollKept
<1> QED
  BY <1>1, <1>2 DEF Fades

(* Reaped() and a close, of one session: killed, then forgotten.            *)
LEMMA ReapedFades ==
  ASSUME NEW e \in Entries, Settled(kind, e)
  PROVE  Fades(kind, e, Forgotten(Killed(e)))
<1> DEFINE g == Killed(e)
           f == Forgotten(g)
<1>1. Fades(kind, e, g) /\ ~g.up
  BY KilledFades
<1>2. g \in Entries
  BY <1>1 DEF Fades
<1> HIDE DEF g
<1>3. /\ f \in Entries /\ f.held = FALSE /\ f.chunks = <<>>
      /\ f.up = g.up /\ f.pend = g.pend /\ f.got = g.got /\ f.made = g.made
      /\ f.closed = g.closed /\ f.error = g.error
  BY <1>2, ForgottenFields
<1> HIDE DEF f
<1>4. Fades(kind, e, f)
  BY <1>1, <1>3, GoneFades
<1> QED
  BY <1>4 DEF f, g

(* stop(), of one session: killed and out of the map, or long out of it.    *)
LEMMA StoppedFades ==
  ASSUME NEW e \in Entries, Settled(kind, e), NEW f,
         f = [(IF e.held THEN Dropped(Killed(e)) ELSE e) EXCEPT !.recorded = FALSE]
  PROVE  Fades(kind, e, f)
<1>1. CASE e.held
  <2> DEFINE g == Killed(e)
             h == Dropped(g)
  <2>1. Fades(kind, e, g) /\ ~g.up
    BY KilledFades
  <2>2. g \in Entries
    BY <2>1 DEF Fades
  <2> HIDE DEF g
  <2>3. /\ h \in Entries /\ h.held = FALSE /\ h.chunks = <<>>
        /\ h.up = g.up /\ h.pend = g.pend /\ h.got = g.got /\ h.made = g.made
        /\ h.closed = g.closed /\ h.error = g.error
    BY <2>2, DroppedFields
  <2>4. f = [h EXCEPT !.recorded = FALSE]
    BY <1>1 DEF g
  <2> HIDE DEF h
  <2>5. f \in Entries
    BY <2>3, <2>4, OneField
  <2>6. /\ f.held = FALSE /\ f.chunks = <<>>
        /\ f.up = g.up /\ f.pend = g.pend /\ f.got = g.got /\ f.made = g.made
        /\ f.closed = g.closed /\ f.error = g.error
    BY <2>3, <2>4 DEF Entries
  <2> QED
    BY <2>1, <2>5, <2>6, GoneFades
<1>2. CASE ~e.held
  <2>1. f = [e EXCEPT !.recorded = FALSE]
    BY <1>2
  <2>2. f \in Entries
    BY <2>1, OneField
  <2>3. /\ f.held = FALSE /\ f.chunks = <<>>
        /\ f.up = e.up /\ f.pend = e.pend /\ f.got = e.got /\ f.made = e.made
        /\ f.closed = e.closed /\ f.error = e.error
    BY <1>2, <2>1 DEF Entries, Settled
  <2>4. Fades(kind, e, e) /\ ~e.up
    BY <1>2, SameFades DEF Settled
  <2> QED
    BY <2>2, <2>3, <2>4, GoneFades
<1> QED
  BY <1>1, <1>2

(* "close" of a socket, "exit" of a child.                                  *)
LEMMA ClosedFades ==
  ASSUME NEW e \in Entries, Settled(kind, e), ~e.up, NEW f,
         f = [e EXCEPT !.closed = TRUE]
  PROVE  /\ ~Shell => Fades(kind, e, f)
         /\ Fades(kind, e, Forgotten(f))
<1>1. /\ f \in Entries /\ f.closed = TRUE
      /\ f.up = e.up /\ f.pend = e.pend /\ f.held = e.held /\ f.got = e.got /\ f.made = e.made
      /\ f.chunks = e.chunks /\ f.error = e.error
      /\ f.recorded = e.recorded
  BY DEF Entries
<1>2. ~Shell => Fades(kind, e, f)
  BY <1>1 DEF Fades, Settled, SendKept, PollKept, Shell
<1>3. Fades(kind, e, Forgotten(f))
  <2> DEFINE g == Forgotten(f)
  <2>1. /\ g \in Entries
        /\ g.held = FALSE /\ g.chunks = <<>>
        /\ g.up = f.up /\ g.pend = f.pend /\ g.got = f.got /\ g.made = f.made
        /\ g.closed = f.closed /\ g.error = f.error
    BY <1>1, ForgottenFields
  <2> HIDE DEF g
  <2>2. Settled(kind, g)
    BY <1>1, <2>1 DEF Settled
  <2>3. SendKept(e, g) /\ PollKept(e, g)
    BY <1>1, <2>1 DEF SendKept, PollKept
  <2> QED
    BY <2>1, <2>2, <2>3 DEF Fades, g
<1> QED
  BY <1>2, <1>3

(* What Broken() replaces.                                                  *)
LEMMA BrokenFields ==
  ASSUME NEW e \in Entries
  PROVE  LET f == Broken(e) IN
         /\ f \in Entries /\ f.closed = TRUE /\ f.error = TRUE /\ f.up = FALSE /\ f.pend = <<>>
         /\ f.held = e.held /\ f.got = e.got /\ f.made = e.made /\ f.chunks = e.chunks
         /\ f.recorded = e.recorded
<1> DEFINE f == Broken(e)
           g == [Killed(e) EXCEPT !.error = TRUE]
<1>1. g \in Entries
  BY KilledFields, OneField
<1>2. f = [g EXCEPT !.closed = TRUE]
  BY DEF Broken
<1>3. /\ f.closed = TRUE /\ f.error = TRUE /\ f.up = FALSE /\ f.pend = <<>>
      /\ f.held = e.held /\ f.got = e.got /\ f.made = e.made /\ f.chunks = e.chunks
      /\ f.recorded = e.recorded
  BY DEF Entries, Broken, Killed
<1> HIDE DEF f, g
<1>4. f \in Entries
  BY <1>1, <1>2, OneField
<1> QED
  BY <1>3, <1>4 DEF f

(* "error" of a socket, and of a child that did not start.                  *)
LEMMA BrokenFades ==
  ASSUME NEW e \in Entries, Settled(kind, e), e.held
  PROVE  /\ ~Shell => Fades(kind, e, Broken(e))
         /\ Fades(kind, e, Forgotten(Broken(e)))
<1> DEFINE f == Broken(e)
           g == Forgotten(f)
<1>1. /\ f \in Entries /\ f.closed = TRUE /\ f.error = TRUE /\ f.up = FALSE /\ f.pend = <<>>
      /\ f.held = e.held /\ f.got = e.got /\ f.made = e.made /\ f.chunks = e.chunks
      /\ f.recorded = e.recorded
  BY BrokenFields
<1> HIDE DEF f
<1>2. ~Shell => Fades(kind, e, f)
  BY <1>1 DEF Fades, Settled, SendKept, PollKept, Shell
<1>3. Fades(kind, e, g)
  <2>1. /\ g \in Entries
        /\ g.held = FALSE /\ g.chunks = <<>>
        /\ g.up = f.up /\ g.pend = f.pend /\ g.got = f.got /\ g.made = f.made
        /\ g.closed = f.closed /\ g.error = f.error
    BY <1>1, ForgottenFields
  <2> HIDE DEF g
  <2>2. Settled(kind, g)
    BY <1>1, <2>1 DEF Settled
  <2>3. SendKept(e, g) /\ PollKept(e, g)
    BY <1>1, <2>1 DEF SendKept, PollKept
  <2> QED
    BY <2>1, <2>2, <2>3 DEF Fades
<1> QED
  BY <1>2, <1>3 DEF f, g

-----------------------------------------------------------------------------
(* Calls, and what they carry *)

(* What an answer carries.                                                  *)
Replies == [id: Nat, data: Seq(Nat), closed: BOOLEAN]

(* How far a call is: there is none, it waits, or it has this answer.       *)
Phase(c) == IF c.state = "none" THEN "none" ELSE c.answer.state
(* Chunks a poll has drained that its client has not seen yet.              *)
DataOf(c) == IF Phase(c) = "ok" THEN c.answer.reply.data ELSE <<>>
(* The answer says that the far side is over.                               *)
EndOf(c) == Phase(c) = "ok" /\ c.answer.reply.closed

Phases == {"none", "pending", "refused", "failed", "ok"}

(* How a call changes while no request is served: it is over, fails, or is  *)
(* asked again.                                                             *)
CallMoves(c, d) ==
  \/ d = c
  \/ Phase(d) = "none"
  \/ Phase(d) = "failed" /\ Phase(c) # "none"
  \/ Phase(d) = "pending" /\ Phase(c) \in {"pending", "refused"}

(* The stream into session e of a client that has sent so many chunks, with *)
(* call c of a send and perhaps a send on the way that it gave up. What was *)
(* read, and what was read and is still to be, is a beginning of what was   *)
(* sent; all but the last chunk while a send is on its way, and all of it   *)
(* once the reader may go on.                                               *)
SendOK(e, sent, reader, c, stray) ==
  /\ Begins(e.got, sent)
  /\ e.up => Begins(e.got \o e.pend, sent)
  /\ stray => reader # "read" /\ Phase(c) \in {"none", "failed"} /\ sent > 0
  /\ Phase(c) # "none" => sent > 0
  /\ Phase(c) = "refused" => ~e.held
  /\ Phase(c) \in {"pending", "refused"} \/ stray =>
       Begins(e.got, sent - 1) /\ (e.up => e.got \o e.pend = UpTo(sent - 1))
  /\ Phase(c) = "ok" \/ reader = "read" => (e.up => e.got \o e.pend = UpTo(sent))

(* The stream out of it: what was written out, what an answer carries and   *)
(* what waits for a poll are, in this order and with nothing between them,  *)
(* all that was made, unless the session overflowed. A poll that was given  *)
(* up may have drained chunks nobody will see; then none is asked again. A  *)
(* reason that promises the whole output has it.                            *)
PollOK(e, out, poller, c, why, stray) ==
  /\ stray => poller # "off" /\ Phase(c) \in {"none", "failed"}
  /\ Phase(c) = "refused" => ~e.held
  /\ ~e.error =>
     /\ Begins(out \o DataOf(c), e.made)
     /\ poller = "off" \/ Phase(c) \in {"pending", "refused", "ok"} =>
          (e.held => (out \o DataOf(c)) \o e.chunks = UpTo(e.made))
     /\ EndOf(c) => e.closed /\ out \o DataOf(c) = UpTo(e.made)
     /\ why = "poll closed" => e.closed /\ out = UpTo(e.made)
     /\ why = "mark" => out = UpTo(OutLen)

(* Nothing new is polled, no such reason is given, and a stray is a poll    *)
(* that was on its way.                                                     *)
PollMoves(poller, c, why, stray, poller2, d, why2, stray2) ==
  /\ CallMoves(c, d)
  /\ Phase(c) # "none" => poller = "poll"
  /\ poller2 = "off" => poller = "off"
  /\ why2 \in {"poll closed", "mark"} => why2 = why
  /\ stray2 => \/ stray
               \/ Phase(c) = "pending" /\ Phase(d) \in {"none", "failed"} /\ poller2 # "off"

(* Nothing of a stream is disturbed when its session fades, its call goes   *)
(* wrong, its request is given up or its client stops.                      *)
LEMMA SendStays ==
  ASSUME NEW e \in Entries, NEW f \in Entries, NEW sent \in Nat,
         NEW reader, NEW reader2, NEW c, NEW d, NEW stray, NEW stray2,
         SendOK(e, sent, reader, c, stray), SendKept(e, f), CallMoves(c, d),
         reader2 = "read" => reader = "read",
         stray2 => \/ stray
                   \/ Phase(c) = "pending" /\ Phase(d) \in {"none", "failed"} /\ reader2 # "read"
  PROVE  SendOK(f, sent, reader2, d, stray2)
<1>1. e.got = f.got /\ (f.up => e.up /\ f.pend = e.pend) /\ (f.held => e.held)
  BY DEF SendKept
<1>2. f.up => e.got \o e.pend = f.got \o f.pend
  BY <1>1
<1>3. Begins(f.got, sent) /\ (f.up => Begins(f.got \o f.pend, sent))
  BY <1>1, <1>2 DEF SendOK
<1>4. stray2 => reader2 # "read" /\ Phase(d) \in {"none", "failed"} /\ sent > 0
  BY DEF SendOK, CallMoves
<1>5. Phase(d) # "none" => sent > 0
  BY DEF SendOK, CallMoves
<1>6. Phase(d) = "refused" => ~f.held
  BY <1>1 DEF SendOK, CallMoves
<1>7. Phase(d) \in {"pending", "refused"} \/ stray2 =>
        Begins(f.got, sent - 1) /\ (f.up => f.got \o f.pend = UpTo(sent - 1))
  <2>1. Phase(d) \in {"pending", "refused"} \/ stray2 =>
          Phase(c) \in {"pending", "refused"} \/ stray
    BY DEF CallMoves
  <2> QED
    BY <1>1, <1>2, <2>1 DEF SendOK
<1>8. Phase(d) = "ok" \/ reader2 = "read" => (f.up => f.got \o f.pend = UpTo(sent))
  <2>1. Phase(d) = "ok" \/ reader2 = "read" => Phase(c) = "ok" \/ reader = "read"
    BY DEF CallMoves
  <2> QED
    BY <1>1, <1>2, <2>1 DEF SendOK
<1> QED
  BY <1>3, <1>4, <1>5, <1>6, <1>7, <1>8 DEF SendOK

(* The same of the stream out.                                              *)
LEMMA PollStays ==
  ASSUME NEW e \in Entries, NEW f \in Entries, NEW out \in Seq(Nat),
         NEW poller, NEW poller2, NEW c, NEW d, NEW why, NEW why2,
         NEW stray, NEW stray2,
         DataOf(c) \in Seq(Nat),
         PollOK(e, out, poller, c, why, stray), PollKept(e, f),
         PollMoves(poller, c, why, stray, poller2, d, why2, stray2)
  PROVE  PollOK(f, out, poller2, d, why2, stray2)
<1>1. f.made = e.made /\ (f.held => e.held /\ f.chunks = e.chunks)
      /\ (e.closed => f.closed) /\ (e.error => f.error)
  BY DEF PollKept
<1>2. e.made \in Nat
  BY DEF Entries
<1>3. DataOf(d) = DataOf(c) \/ DataOf(d) = <<>>
  BY DEF PollMoves, CallMoves, DataOf
<1>4. stray2 => poller2 # "off" /\ Phase(d) \in {"none", "failed"}
  BY DEF PollOK, PollMoves, CallMoves
<1>5. Phase(d) = "refused" => ~f.held
  BY <1>1 DEF PollOK, PollMoves, CallMoves
<1>6. ASSUME ~f.error
      PROVE  /\ Begins(out \o DataOf(d), f.made)
             /\ poller2 = "off" \/ Phase(d) \in {"pending", "refused", "ok"} =>
                  (f.held => (out \o DataOf(d)) \o f.chunks = UpTo(f.made))
             /\ EndOf(d) => f.closed /\ out \o DataOf(d) = UpTo(f.made)
             /\ why2 = "poll closed" => f.closed /\ out = UpTo(f.made)
             /\ why2 = "mark" => out = UpTo(OutLen)
  <2>1. ~e.error
    BY <1>1, <1>6
  <2>2. Begins(out \o DataOf(c), e.made)
    BY <2>1 DEF PollOK
  <2>3. Begins(out, e.made)
    BY <1>2, <2>2, BeginsLeft
  <2>4. out \o <<>> = out
    BY ConcatEmptySeq
  <2>5. Begins(out \o DataOf(d), f.made)
    BY <1>1, <1>3, <2>2, <2>3, <2>4
  <2>6. ASSUME poller2 = "off" \/ Phase(d) \in {"pending", "refused", "ok"}, f.held
        PROVE  (out \o DataOf(d)) \o f.chunks = UpTo(f.made)
    <3>1. (poller = "off" \/ Phase(c) \in {"pending", "refused", "ok"}) /\ DataOf(d) = DataOf(c)
      BY <2>6 DEF PollMoves, CallMoves, DataOf
    <3> QED
      BY <1>1, <2>1, <2>6, <3>1 DEF PollOK
  <2>7. EndOf(d) => f.closed /\ out \o DataOf(d) = UpTo(f.made)
    <3>1. EndOf(d) => d = c
      BY DEF EndOf, PollMoves, CallMoves
    <3> QED
      BY <1>1, <2>1, <3>1 DEF PollOK
  <2>8. why2 = "poll closed" => f.closed /\ out = UpTo(f.made)
    BY <1>1, <2>1 DEF PollOK, PollMoves
  <2>9. why2 = "mark" => out = UpTo(OutLen)
    BY <2>1 DEF PollOK, PollMoves
  <2> QED
    BY <2>5, <2>6, <2>7, <2>8, <2>9
<1> QED
  BY <1>4, <1>5, <1>6 DEF PollOK

-----------------------------------------------------------------------------
(* What a stream goes through *)

(* A send is served, awaited or not: its chunk is written to the socket or  *)
(* child if there is one, and is in order because no other send is on its   *)
(* way.                                                                     *)
LEMMA SendServed ==
  ASSUME NEW e \in Entries, NEW f \in Entries, NEW sent \in Nat,
         NEW reader, NEW c, NEW d, NEW stray, NEW stray2,
         SendOK(e, sent, reader, c, stray),
         f.got = e.got, f.up => e.up /\ f.pend = Append(e.pend, sent),
         \/ Phase(c) = "pending" /\ Phase(d) = "ok" /\ stray2 = stray
         \/ stray /\ ~stray2 /\ d = c
  PROVE  SendOK(f, sent, reader, d, stray2)
<1>1. sent > 0 /\ sent - 1 \in Nat
  BY DEF SendOK
<1>2. Begins(e.got, sent) /\ (e.up => e.got \o e.pend = UpTo(sent - 1))
  BY DEF SendOK
<1>3. f.up => f.got \o f.pend = UpTo(sent)
  <2>1. e.got \in Seq(Nat) /\ e.pend \in Seq(Nat)
    BY DEF Entries
  <2>2. e.got \o Append(e.pend, sent) = Append(e.got \o e.pend, sent)
    BY <2>1, AppendToConcat
  <2>3. \A n \in Nat : Append(UpTo(n), n + 1) = UpTo(n + 1)
    BY UpToNext
  <2>4. Append(UpTo(sent - 1), sent) = UpTo(sent)
    <3>1. (sent - 1) + 1 = sent
      BY <1>1
    <3> QED
      BY <1>1, <2>3, <3>1
  <2> QED
    BY <1>2, <2>2, <2>4
<1>4. f.up => Begins(f.got \o f.pend, sent)
  BY <1>3, BeginsWhole
<1>5. Phase(d) \in {"none", "failed", "ok"} /\ ~stray2
  BY DEF SendOK
<1> QED
  BY <1>1, <1>2, <1>3, <1>4, <1>5 DEF SendOK

(* A send is refused: the session is gone.                                  *)
LEMMA SendRefused ==
  ASSUME NEW e \in Entries, NEW sent \in Nat, NEW reader, NEW c, NEW d, NEW stray,
         SendOK(e, sent, reader, c, stray), ~e.held,
         Phase(c) = "pending", Phase(d) = "refused"
  PROVE  SendOK(e, sent, reader, d, stray)
BY DEF SendOK

(* The next chunk is sent once the last is where it belongs.                *)
LEMMA SendIssued ==
  ASSUME NEW e \in Entries, NEW sent \in Nat, NEW c, NEW d, NEW stray,
         SendOK(e, sent, "read", c, stray), Phase(d) = "pending"
  PROVE  SendOK(e, sent + 1, "send", d, stray)
<1>1. ~stray /\ Begins(e.got, sent) /\ (e.up => e.got \o e.pend = UpTo(sent))
  BY DEF SendOK
<1>2. e.up => Begins(e.got \o e.pend, sent)
  BY DEF SendOK
<1>3. e.got \in Seq(Nat) /\ e.pend \in Seq(Nat)
  BY DEF Entries
<1>4. e.got \o e.pend \in Seq(Nat)
  BY <1>3, ConcatProperties
<1>5. Begins(e.got, sent + 1) /\ (e.up => Begins(e.got \o e.pend, sent + 1))
  <2>1. \A s \in Seq(Nat) : Begins(s, sent) => Begins(s, sent + 1)
    BY BeginsMono
  <2> QED
    BY <1>1, <1>2, <1>3, <1>4, <2>1
<1>6. (sent + 1) - 1 = sent /\ sent + 1 > 0
  OBVIOUS
<1> QED
  BY <1>1, <1>5, <1>6 DEF SendOK

(* A send came back, and the reader goes on.                                *)
LEMMA SendReturned ==
  ASSUME NEW e \in Entries, NEW sent \in Nat, NEW reader, NEW c, NEW d, NEW stray,
         SendOK(e, sent, reader, c, stray), Phase(c) = "ok", Phase(d) = "none"
  PROVE  SendOK(e, sent, "read", d, stray)
BY DEF SendOK

(* Nothing was sent to a session that was just opened.                      *)
LEMMA SendStarts ==
  ASSUME NEW e \in Entries, NEW c, Blank(e), Phase(c) = "none"
  PROVE  SendOK(e, 0, "read", c, FALSE)
<1>1. <<>> \o <<>> = <<>>
  BY EmptySeq, ConcatEmptySeq
<1>2. Begins(UpTo(0), 0) /\ UpTo(0) = <<>>
  BY BeginsWhole, UpToZero
<1> QED
  BY <1>1, <1>2 DEF SendOK, Blank

(* The far side reads a chunk.                                              *)
LEMMA SendDelivered ==
  ASSUME NEW e \in Entries, NEW f \in Entries, NEW sent \in Nat,
         NEW reader, NEW c, NEW stray,
         SendOK(e, sent, reader, c, stray), e.up, e.pend # <<>>,
         f.up = e.up, f.held = e.held,
         f.got = Append(e.got, Head(e.pend)), f.pend = Tail(e.pend)
  PROVE  SendOK(f, sent, reader, c, stray)
<1>1. e.got \in Seq(Nat) /\ e.pend \in Seq(Nat)
  BY DEF Entries
<1>2. f.got \o f.pend = e.got \o e.pend /\ f.got \in Seq(Nat) /\ f.pend \in Seq(Nat)
  BY <1>1, HeadMoves
<1>3. \A n \in Nat : Begins(e.got \o e.pend, n) => Begins(f.got, n)
  BY <1>2, BeginsLeft
<1>4. Begins(f.got, sent)
  BY <1>3 DEF SendOK
<1>5. Phase(c) \in {"pending", "refused"} \/ stray => Begins(f.got, sent - 1)
  <2>1. SUFFICES ASSUME Phase(c) \in {"pending", "refused"} \/ stray
                 PROVE  Begins(f.got, sent - 1)
    OBVIOUS
  <2>2. sent - 1 \in Nat
    BY <2>1 DEF SendOK
  <2>3. e.got \o e.pend = UpTo(sent - 1)
    BY <2>1 DEF SendOK
  <2>4. \A n \in Nat : Begins(UpTo(n), n)
    BY BeginsWhole
  <2>5. Begins(e.got \o e.pend, sent - 1)
    BY <2>2, <2>3, <2>4
  <2> QED
    BY <1>3, <2>2, <2>5
<1> QED
  BY <1>2, <1>4, <1>5 DEF SendOK

(* A poll drains what waits: it moves to the answer.                        *)
LEMMA PollServed ==
  ASSUME NEW e \in Entries, NEW f \in Entries, NEW out \in Seq(Nat),
         NEW poller, NEW c, NEW d, NEW why, NEW stray,
         PollOK(e, out, poller, c, why, stray), e.held,
         f.made = e.made, f.chunks = <<>>, e.closed => f.closed, e.error => f.error,
         Phase(c) = "pending", Phase(d) = "ok",
         DataOf(d) = e.chunks, EndOf(d) => e.closed
  PROVE  PollOK(f, out, poller, d, why, stray)
<1>1. DataOf(c) = <<>> /\ out \o <<>> = out
  BY ConcatEmptySeq DEF DataOf
<1>2. e.made \in Nat /\ e.chunks \in Seq(Nat)
  BY DEF Entries
<1>3. ~stray
  BY DEF PollOK
<1>4. ASSUME ~f.error
      PROVE  /\ out \o DataOf(d) = UpTo(f.made)
             /\ why = "poll closed" => f.closed /\ out = UpTo(f.made)
             /\ why = "mark" => out = UpTo(OutLen)
  BY <1>1, <1>4 DEF PollOK
<1>5. ASSUME ~f.error
      PROVE  /\ Begins(out \o DataOf(d), f.made)
             /\ (out \o DataOf(d)) \o f.chunks = UpTo(f.made)
  <2>1. out \o DataOf(d) = UpTo(f.made)
    BY <1>4, <1>5
  <2>2. UpTo(f.made) \in Seq(Nat) /\ Begins(UpTo(f.made), f.made)
    BY <1>2, UpToIsASeq, BeginsWhole
  <2>3. UpTo(f.made) \o <<>> = UpTo(f.made)
    BY <2>2, ConcatEmptySeq
  <2> QED
    BY <2>1, <2>2, <2>3
<1> QED
  BY <1>3, <1>4, <1>5 DEF PollOK

(* A poll nobody waits for drains it: then nothing is asked again, and what *)
(* was seen stays a beginning.                                              *)
LEMMA PollStrayServed ==
  ASSUME NEW e \in Entries, NEW f \in Entries, NEW out \in Seq(Nat),
         NEW poller, NEW c, NEW why, NEW stray, NEW stray2,
         PollOK(e, out, poller, c, why, stray), stray, stray2 => stray,
         f.made = e.made, e.closed => f.closed, e.error => f.error
  PROVE  PollOK(f, out, poller, c, why, stray2)
BY DEF PollOK

(* A poll is refused.                                                       *)
LEMMA PollRefused ==
  ASSUME NEW e \in Entries, NEW out \in Seq(Nat),
         NEW poller, NEW c, NEW d, NEW why, NEW stray,
         PollOK(e, out, poller, c, why, stray), ~e.held,
         Phase(c) = "pending", Phase(d) = "refused"
  PROVE  PollOK(e, out, poller, d, why, stray)
<1>1. DataOf(d) = DataOf(c) /\ ~EndOf(d)
  BY DEF DataOf, EndOf
<1> QED
  BY <1>1 DEF PollOK

(* The first poll of execShell().                                           *)
LEMMA PollIssued ==
  ASSUME NEW e \in Entries, NEW out \in Seq(Nat),
         NEW c, NEW d, NEW why, NEW stray,
         PollOK(e, out, "off", c, why, stray), Phase(c) = "none", Phase(d) = "pending"
  PROVE  PollOK(e, out, "poll", d, why, stray)
<1>1. DataOf(d) = DataOf(c) /\ ~EndOf(d)
  BY DEF DataOf, EndOf
<1> QED
  BY <1>1 DEF PollOK

(* Nothing came yet of a session that was just opened.                      *)
LEMMA PollStarts ==
  ASSUME NEW e \in Entries, NEW c, NEW poller, NEW why, Blank(e),
         Phase(c) \in {"none", "pending"}, why \notin {"poll closed", "mark"}
  PROVE  PollOK(e, <<>>, poller, c, why, FALSE)
<1>1. DataOf(c) = <<>> /\ ~EndOf(c)
  BY DEF DataOf, EndOf
<1>2. <<>> \o <<>> = <<>>
  BY EmptySeq, ConcatEmptySeq
<1>3. Begins(UpTo(0), 0) /\ UpTo(0) = <<>>
  BY BeginsWhole, UpToZero
<1> QED
  BY <1>1, <1>2, <1>3 DEF PollOK, Blank

(* The sentinel is the last chunk, so what has it is whole.                 *)
LEMMA SentinelIsLast ==
  ASSUME NEW out \in Seq(Nat), NEW n \in Nat, n <= OutLen, Begins(out, n), Sentinel(out)
  PROVE  out = UpTo(OutLen)
<1>1. PICK k \in DOMAIN out : out[k] = OutLen
  BY DEF Sentinel
<1>2. Len(out) \in Nat /\ DOMAIN out = 1..Len(out)
  BY LenProperties
<1>3. Len(out) <= n /\ \A j \in 1..Len(out) : out[j] = j
  BY BeginsByElements
<1>4. Len(out) = OutLen
  <2>1. k \in 1..Len(out) /\ k = OutLen
    BY <1>1, <1>2, <1>3
  <2>2. OutLen \in Nat
    BY ConstantsInNat
  <2>3. Len(out) <= OutLen
    BY <1>2, <1>3, <2>2
  <2>4. OutLen <= Len(out)
    BY <1>2, <2>1, <2>2
  <2>5. \A a, b \in Nat : a <= b /\ b <= a => a = b
    OBVIOUS
  <2> QED
    BY <1>2, <2>2, <2>3, <2>4, <2>5
<1> QED
  BY <1>4 DEF Begins

(* The answer is written out: with the end it is all that was made, with    *)
(* the sentinel the whole output.                                           *)
LEMMA PollTaken ==
  ASSUME NEW e \in Entries, NEW out \in Seq(Nat), NEW out2 \in Seq(Nat),
         NEW poller, NEW poller2, NEW c, NEW d, NEW why, NEW why2, NEW stray,
         PollOK(e, out, poller, c, why, stray), e.made <= OutLen,
         Phase(c) = "ok", Phase(d) \in {"none", "pending"}, poller2 # "off",
         out2 = out \o DataOf(c),
         why2 = "poll closed" => EndOf(c),
         why2 = "mark" => Sentinel(out2)
  PROVE  PollOK(e, out2, poller2, d, why2, stray)
<1>1. DataOf(d) = <<>> /\ ~EndOf(d) /\ out2 \o <<>> = out2
  BY ConcatEmptySeq DEF DataOf, EndOf
<1>2. ~stray /\ Phase(d) # "refused"
  BY DEF PollOK
<1>3. e.made \in Nat
  BY DEF Entries
<1>4. ASSUME ~e.error
      PROVE  /\ Begins(out2, e.made)
             /\ e.held => out2 \o e.chunks = UpTo(e.made)
             /\ why2 = "poll closed" => e.closed /\ out2 = UpTo(e.made)
  BY <1>4 DEF PollOK
<1>5. ~e.error /\ why2 = "mark" => out2 = UpTo(OutLen)
  BY <1>3, <1>4, SentinelIsLast
<1> QED
  BY <1>1, <1>2, <1>4, <1>5 DEF PollOK

(* A chunk the far side makes is the next that waits.                       *)
LEMMA PollData ==
  ASSUME NEW e \in Entries, NEW f \in Entries, NEW out \in Seq(Nat),
         NEW poller, NEW c, NEW why, NEW stray, DataOf(c) \in Seq(Nat),
         PollOK(e, out, poller, c, why, stray), e.held, e.closed => e.error,
         f.made = e.made + 1, f.chunks = Append(e.chunks, e.made + 1),
         e.error => f.error
  PROVE  PollOK(f, out, poller, c, why, stray)
<1> DEFINE seen == out \o DataOf(c)
<1>1. seen \in Seq(Nat) /\ e.chunks \in Seq(Nat) /\ e.made \in Nat
  BY ConcatProperties DEF Entries
<1>2. ~e.error => Begins(seen, e.made)
  BY DEF PollOK
<1>3. (poller = "off" \/ Phase(c) \in {"pending", "refused", "ok"}) /\ ~e.error =>
        seen \o e.chunks = UpTo(e.made)
  BY DEF PollOK
<1>4. ~e.error => ~EndOf(c) /\ why # "poll closed" /\ (why = "mark" => out = UpTo(OutLen))
  BY DEF PollOK
<1>5. (stray => poller # "off" /\ Phase(c) \in {"none", "failed"}) /\ Phase(c) # "refused"
  BY DEF PollOK
<1> HIDE DEF seen
<1>6. ~e.error => Begins(seen, f.made)
  BY <1>1, <1>2, BeginsMono
<1>7. seen \o f.chunks = Append(seen \o e.chunks, e.made + 1)
  <2>1. e.made + 1 \in Nat
    BY <1>1
  <2>2. \A d \in Nat : seen \o Append(e.chunks, d) = Append(seen \o e.chunks, d)
    BY <1>1, AppendToConcat
  <2> QED
    BY <2>1, <2>2
<1>8. (poller = "off" \/ Phase(c) \in {"pending", "refused", "ok"}) /\ ~e.error =>
        seen \o f.chunks = UpTo(f.made)
  BY <1>1, <1>3, <1>7, UpToNext
<1> QED
  BY <1>4, <1>5, <1>6, <1>8 DEF PollOK, seen

(* Of a session that overflowed nothing more is claimed.                    *)
LEMMA PollOverflows ==
  ASSUME NEW e \in Entries, NEW f \in Entries, NEW out \in Seq(Nat),
         NEW poller, NEW c, NEW why, NEW stray,
         PollOK(e, out, poller, c, why, stray), e.held, f.error
  PROVE  PollOK(f, out, poller, c, why, stray)
BY DEF PollOK

-----------------------------------------------------------------------------
(* The invariant *)

Answers ==
  {Pending} \cup [state: {"refused", "failed"}] \cup [state: {"ok"}, reply: Replies]
AskedCalls == [state: {"out"}, at: Nat, id: Nat, data: Nat, answer: Answers]
Calls == {NoCall} \cup AskedCalls
Requests == [path: Paths, id: Nat, data: Nat]
Clients ==
  [pc: {"start", "opening", "on", "over"}, id: Nat,
   reader: {"off", "read", "send", "end"}, poller: {"off", "poll", "end"},
   sent: Nat, polls: Nat, out: Seq(Nat),
   why: {"none", "failed", "input ended", "send closed", "poll closed", "mark", "polls", "died"}]

(* What each variable is.                                                   *)
TypeInv ==
  /\ sess \in Seq(Entries)
  /\ calls \in [Paths -> Calls]
  /\ strays \subseteq Requests
  /\ pipe \in Clients
  /\ repeated \in BOOLEAN

(* What holds of the sessions; only the client's own is used.               *)
SettledInv == \A i \in Ids : Settled(kind, sess[i]) /\ (i # pipe.id => Blank(sess[i]))

PhaseOf(path) == Phase(calls[path])
StrayOf(path) == \E q \in strays : q.path = path

(* The client and its calls: what it has asked fits where its two loops     *)
(* are. Its id names a session; what it asks and has given up is about this *)
(* session, one send at a time and for the last chunk, a poll only while it *)
(* polls; execShell() sends once, before it polls.                          *)
ClientInv ==
  /\ pipe.id \in Ids \cup {0}
  /\ pipe.pc \in {"start", "opening"} => pipe.id = 0 /\ pipe.reader = "off" /\ pipe.why = "none"
  /\ pipe.pc = "start" => PhaseOf("open") = "none"
  /\ pipe.pc = "on" => pipe.id # 0
  /\ pipe.id = 0 => /\ \A path \in Paths \ {"open"} : PhaseOf(path) = "none" /\ ~StrayOf(path)
                    /\ pipe.sent = 0 /\ pipe.out = <<>>
                    /\ pipe.reader \in {"off", "end"} /\ pipe.poller \in {"off", "end"}
  /\ PhaseOf("open") # "none" => pipe.pc = "opening"
  /\ PhaseOf("open") = "ok" => calls["open"].answer.reply.id \in Ids
  /\ \A path \in Paths \ {"open"} : PhaseOf(path) # "none" => calls[path].id = pipe.id
  /\ \A q \in strays : q.path = "open" \/ q.id = pipe.id
  /\ PhaseOf("send") # "none" => pipe.reader = "send" /\ calls["send"].data = pipe.sent
                                 /\ (Shell => pipe.poller = "off")
  /\ PhaseOf("poll") # "none" => pipe.poller = "poll"
  /\ Shell => pipe.sent <= 1 /\ (pipe.reader = "read" => pipe.sent = 0 /\ pipe.poller = "off")
  /\ pipe.why \in {"poll closed", "mark"} => pipe.poller = "end"
  /\ pipe.why = "mark" => Shell

(* The stream in, as long as no call was made twice.                        *)
SendInv ==
  pipe.id # 0 /\ ~repeated =>
    /\ SendOK(Mine, pipe.sent, pipe.reader, calls["send"], StrayOf("send"))
    /\ \A q \in strays : q.path = "send" => q.data = pipe.sent

(* The stream out, likewise.                                                *)
PollInv ==
  pipe.id # 0 /\ ~repeated =>
    PollOK(Mine, pipe.out, pipe.poller, calls["poll"], pipe.why, StrayOf("poll"))

(* The inductive invariant.                                                 *)
IInv == TypeInv /\ SettledInv /\ ClientInv /\ SendInv /\ PollInv

-----------------------------------------------------------------------------
(* Calls *)

(* What the phase of a call says about it.                                  *)
LEMMA CallFacts ==
  ASSUME NEW c \in Calls
  PROVE  /\ Phase(c) \in Phases
         /\ DataOf(c) \in Seq(Nat)
         /\ c.state = "out" <=> Phase(c) # "none"
         /\ Phase(c) # "none" => c \in AskedCalls /\ c.answer.state = Phase(c)
         /\ Phase(c) = "ok" => c.answer.reply \in Replies
         /\ Phase(c) = "pending" => c.answer = Pending
<1>1. CASE c = NoCall
  <2>1. Phase(c) = "none" /\ c.state = "none"
    BY <1>1 DEF Phase, NoCall
  <2>2. DataOf(c) = <<>>
    BY <2>1 DEF DataOf
  <2> QED
    BY <2>1, <2>2, EmptySeq DEF Phases
<1>2. CASE c \in AskedCalls
  <2>1. c.state = "out" /\ Phase(c) = c.answer.state /\ c.answer \in Answers
    BY <1>2 DEF Phase, AskedCalls
  <2>2. PICK a : a = c.answer
    OBVIOUS
  <2>3. /\ a.state \in {"pending", "refused", "failed", "ok"}
        /\ a.state = "ok" => a.reply \in Replies
        /\ a.state = "pending" => a = Pending
    BY <2>1, <2>2 DEF Answers, Pending
  <2>4. DataOf(c) \in Seq(Nat)
    <3>1. CASE a.state = "ok"
      <4>1. DataOf(c) = a.reply.data
        BY <2>1, <2>2, <3>1 DEF DataOf
      <4> QED
        BY <2>3, <3>1, <4>1 DEF Replies
    <3>2. CASE a.state # "ok"
      <4>1. DataOf(c) = <<>>
        BY <2>1, <2>2, <3>2 DEF DataOf
      <4> QED
        BY <4>1, EmptySeq
    <3> QED
      BY <3>1, <3>2
  <2> QED
    BY <1>2, <2>1, <2>2, <2>3, <2>4 DEF Phases
<1> QED
  BY <1>1, <1>2 DEF Calls

(* No call is a call, in no phase.                                          *)
LEMMA NoCallFacts == NoCall \in Calls /\ Phase(NoCall) = "none"
BY DEF NoCall, Calls, Phase

(* What Asked() yields.                                                     *)
LEMMA AskedFacts ==
  ASSUME NEW path, NEW id \in Nat, NEW data \in Nat
  PROVE  LET c == Asked(path, id, data) IN
         c \in Calls /\ Phase(c) = "pending" /\ c.id = id /\ c.data = data
<1> DEFINE c == Asked(path, id, data)
<1>1. c = [state |-> "out", at |-> 1, id |-> id, data |-> data, answer |-> Pending]
  BY DEF Asked
<1>2. Pending \in Answers /\ Pending.state = "pending"
  BY DEF Answers, Pending
<1> HIDE DEF c
<1>3. c \in AskedCalls
  BY <1>1, <1>2 DEF AskedCalls
<1>4. c.state = "out" /\ c.answer = Pending /\ c.id = id /\ c.data = data
  BY <1>1
<1> QED
  BY <1>2, <1>3, <1>4 DEF Phase, Calls, c

(* What a call is once answered.                                            *)
LEMMA AnsweredFacts ==
  ASSUME NEW c \in AskedCalls, NEW a \in Answers
  PROVE  LET d == [c EXCEPT !.answer = a] IN
         d \in Calls /\ Phase(d) = a.state /\ d.id = c.id /\ d.data = c.data /\ d.answer = a
<1> DEFINE d == [c EXCEPT !.answer = a]
<1>1. d \in AskedCalls /\ d.state = "out" /\ d.id = c.id /\ d.data = c.data /\ d.answer = a
  BY DEF AskedCalls
<1> HIDE DEF d
<1>2. Phase(d) = a.state /\ d \in Calls
  BY <1>1 DEF Phase, Calls
<1> QED
  BY <1>1, <1>2 DEF d

-----------------------------------------------------------------------------
(* Steps *)

(* A step keeps SendInv that leaves what the client sent and does not serve *)
(* a send.                                                                  *)
LEMMA SendCarried ==
  ASSUME TypeInv, TypeInv', ClientInv, SendInv,
         pipe'.id = pipe.id, pipe'.sent = pipe.sent, repeated => repeated',
         Ids \subseteq DOMAIN sess',
         pipe.id # 0 => SendKept(sess[pipe.id], sess'[pipe.id]),
         CallMoves(calls["send"], calls'["send"]),
         pipe'.reader = "read" => pipe.reader = "read",
         \A q \in strays' : q.path = "send" =>
            \/ q \in strays
            \/ /\ Phase(calls["send"]) = "pending" /\ Phase(calls'["send"]) \in {"none", "failed"}
               /\ pipe'.reader # "read" /\ q.data = pipe.sent
  PROVE  SendInv'
<1>1. SUFFICES ASSUME pipe'.id # 0, ~repeated'
               PROVE  /\ SendOK(sess'[pipe'.id], pipe'.sent, pipe'.reader, calls'["send"], StrayOf("send")')
                      /\ \A q \in strays' : q.path = "send" => q.data = pipe'.sent
  BY DEF SendInv, Mine
<1>2. pipe.id # 0 /\ ~repeated /\ pipe.id \in Ids
  BY <1>1 DEF ClientInv
<1> DEFINE e == sess[pipe.id]
           f == sess'[pipe.id]
           c == calls["send"]
           d == calls'["send"]
           s == StrayOf("send")
           t == StrayOf("send")'
<1>3. e \in Entries
  BY <1>2, LenProperties, ElementOfSeq DEF TypeInv, Ids
<1>4. f \in Entries
  <2>1. pipe.id \in DOMAIN sess' /\ sess' \in Seq(Entries)
    BY <1>2 DEF TypeInv, Ids
  <2> QED
    BY <2>1, LenProperties, ElementOfSeq
<1>5. pipe.sent \in Nat
  BY DEF TypeInv, Clients
<1>6. SendOK(e, pipe.sent, pipe.reader, c, s) /\ \A q \in strays : q.path = "send" => q.data = pipe.sent
  BY <1>2 DEF SendInv, Mine
<1>7. s \in BOOLEAN /\ t \in BOOLEAN
  BY DEF StrayOf
<1>8. t => s \/ (Phase(c) = "pending" /\ Phase(d) \in {"none", "failed"} /\ pipe'.reader # "read")
  BY DEF StrayOf
<1>9. SendKept(e, f) /\ CallMoves(c, d)
  BY <1>2
<1> HIDE DEF e, f, c, d, s, t
<1>10. SendOK(f, pipe.sent, pipe'.reader, d, t)
  BY <1>3, <1>4, <1>5, <1>6, <1>7, <1>8, <1>9, SendStays
<1>11. \A q \in strays' : q.path = "send" => q.data = pipe.sent
  BY <1>6
<1> QED
  BY <1>10, <1>11 DEF f, d, t

(* A step keeps PollInv that leaves what the client wrote out and does not  *)
(* serve a poll.                                                            *)
LEMMA PollCarried ==
  ASSUME TypeInv, TypeInv', ClientInv, PollInv,
         pipe'.id = pipe.id, pipe'.out = pipe.out, repeated => repeated',
         Ids \subseteq DOMAIN sess',
         pipe.id # 0 => PollKept(sess[pipe.id], sess'[pipe.id]),
         CallMoves(calls["poll"], calls'["poll"]),
         pipe'.poller = "off" => pipe.poller = "off",
         pipe'.why \in {"poll closed", "mark"} => pipe'.why = pipe.why,
         \A q \in strays' : q.path = "poll" =>
            \/ q \in strays
            \/ /\ Phase(calls["poll"]) = "pending" /\ Phase(calls'["poll"]) \in {"none", "failed"}
               /\ pipe'.poller # "off"
  PROVE  PollInv'
<1>1. SUFFICES ASSUME pipe'.id # 0, ~repeated'
               PROVE  PollOK(sess'[pipe'.id], pipe'.out, pipe'.poller, calls'["poll"], pipe'.why, StrayOf("poll")')
  BY DEF PollInv, Mine
<1>2. pipe.id # 0 /\ ~repeated /\ pipe.id \in Ids
  BY <1>1 DEF ClientInv
<1> DEFINE e == sess[pipe.id]
           f == sess'[pipe.id]
           c == calls["poll"]
           d == calls'["poll"]
           s == StrayOf("poll")
           t == StrayOf("poll")'
           o == pipe.out
           p == pipe.poller
           w == pipe.why
           p2 == pipe'.poller
           w2 == pipe'.why
<1>3. e \in Entries
  BY <1>2, LenProperties, ElementOfSeq DEF TypeInv, Ids
<1>4. f \in Entries
  <2>1. pipe.id \in DOMAIN sess' /\ sess' \in Seq(Entries)
    BY <1>2 DEF TypeInv, Ids
  <2> QED
    BY <2>1, LenProperties, ElementOfSeq
<1>5. o \in Seq(Nat)
  BY DEF TypeInv, Clients
<1>6. PollOK(e, o, p, c, w, s)
  BY <1>2 DEF PollInv, Mine
<1>7. s \in BOOLEAN /\ t \in BOOLEAN
  BY DEF StrayOf
<1>8. t => s \/ (Phase(c) = "pending" /\ Phase(d) \in {"none", "failed"} /\ p2 # "off")
  BY DEF StrayOf
<1>9. PollKept(e, f) /\ CallMoves(c, d)
  BY <1>2
<1>10. Phase(c) # "none" => p = "poll"
  BY DEF ClientInv, PhaseOf
<1>11. DataOf(c) \in Seq(Nat)
  <2>1. c \in Calls
    BY DEF TypeInv, Paths
  <2> QED
    BY <2>1, CallFacts
<1>12. PollMoves(p, c, w, s, p2, d, w2, t)
  BY <1>8, <1>9, <1>10 DEF PollMoves
<1> HIDE DEF e, f, c, d, s, t, o, p, w, p2, w2
<1>13. PollOK(f, o, p2, d, w2, t)
  BY <1>3, <1>4, <1>5, <1>6, <1>7, <1>9, <1>11, <1>12, PollStays
<1> QED
  BY <1>13 DEF f, d, t, o, p2, w2

-----------------------------------------------------------------------------
(* Sessions fade *)

(* The sessions are numbered from one.                                      *)
LEMMA SessIsAFunction ==
  ASSUME TypeInv
  PROVE  /\ Len(sess) \in Nat /\ Ids = 1..Len(sess)
         /\ \A i \in Ids : sess[i] \in Entries
BY LenProperties, ElementOfSeq DEF TypeInv, Ids

(* What was blank stays blank as it fades.                                  *)
LEMMA BlankFades ==
  ASSUME NEW k, NEW e \in Entries, NEW f, Blank(e), Fades(k, e, f)
  PROVE  Blank(f)
<1>1. f.got = <<>> /\ f.made = 0
  BY DEF Blank, Fades, SendKept, PollKept
<1>2. f \in Entries
  BY DEF Fades
<1>3. CASE f.held
  BY <1>1, <1>2, <1>3 DEF Blank, Fades, SendKept, PollKept, Settled
<1>4. CASE ~f.held
  BY <1>1, <1>2, <1>4 DEF Blank, Fades, SendKept, PollKept, Settled
<1> QED
  BY <1>3, <1>4

(* What becomes of the sessions while nothing is sent, drained or made:     *)
(* they fade, and new ones come.                                            *)
FadesTo(s) ==
  /\ s \in Seq(Entries)
  /\ Ids \subseteq DOMAIN s
  /\ \A i \in Ids : Fades(kind, sess[i], s[i])
  /\ \A i \in DOMAIN s \ Ids : Settled(kind, s[i]) /\ Blank(s[i])

(* SettledInv is kept as sessions fade and new ones come.                   *)
LEMMA FadesToSettled ==
  ASSUME TypeInv, SettledInv, FadesTo(sess'), kind' = kind, pipe'.id = pipe.id
  PROVE  SettledInv'
<1>1. SUFFICES ASSUME NEW i \in DOMAIN sess'
               PROVE  Settled(kind, sess'[i]) /\ (i # pipe.id => Blank(sess'[i]))
  BY DEF SettledInv, Ids
<1>2. CASE i \in Ids
  <2>1. sess[i] \in Entries /\ Fades(kind, sess[i], sess'[i])
    BY <1>2, SessIsAFunction DEF FadesTo
  <2>2. i # pipe.id => Blank(sess[i])
    BY <1>2 DEF SettledInv
  <2> QED
    BY <2>1, <2>2, BlankFades DEF Fades
<1>3. CASE i \notin Ids
  BY <1>1, <1>3 DEF FadesTo
<1> QED
  BY <1>2, <1>3

(* The client's session is among those that fade.                           *)
LEMMA FadesToCarries ==
  ASSUME TypeInv, ClientInv, FadesTo(sess')
  PROVE  /\ Ids \subseteq DOMAIN sess'
         /\ pipe.id # 0 => SendKept(sess[pipe.id], sess'[pipe.id]) /\ PollKept(sess[pipe.id], sess'[pipe.id])
<1>1. pipe.id # 0 => pipe.id \in Ids
  BY DEF ClientInv
<1> QED
  BY <1>1 DEF FadesTo, Fades

(* ClientInv says of the sessions only that they are there.                 *)
LEMMA ClientKept ==
  ASSUME ClientInv, UNCHANGED <<kind, calls, strays, pipe>>, Ids \subseteq DOMAIN sess'
  PROVE  ClientInv'
<1>1. pipe' = pipe /\ calls' = calls /\ strays' = strays /\ (Shell' <=> Shell)
  BY DEF Shell
<1>2. \A i : i \in Ids => i \in Ids'
  BY DEF Ids
<1> QED
  BY <1>1, <1>2 DEF ClientInv, PhaseOf, StrayOf

(* A step in which nothing but sessions fading happens keeps the invariant. *)
LEMMA SessionsFade ==
  ASSUME IInv, UNCHANGED <<kind, calls, strays, pipe, repeated>>, FadesTo(sess')
  PROVE  IInv'
<1>1. TypeInv /\ SettledInv /\ ClientInv /\ SendInv /\ PollInv
  BY DEF IInv
<1>2. TypeInv'
  BY <1>1 DEF TypeInv, FadesTo
<1>3. SettledInv'
  BY <1>1, FadesToSettled
<1>4. /\ Ids \subseteq DOMAIN sess'
      /\ pipe.id # 0 => SendKept(sess[pipe.id], sess'[pipe.id]) /\ PollKept(sess[pipe.id], sess'[pipe.id])
  BY <1>1, FadesToCarries
<1>5. ClientInv'
  BY <1>1, <1>4, ClientKept
<1>6. CallMoves(calls["send"], calls'["send"]) /\ CallMoves(calls["poll"], calls'["poll"])
  BY DEF CallMoves
<1>7. SendInv'
  BY <1>1, <1>2, <1>4, <1>6, SendCarried
<1>8. PollInv'
  BY <1>1, <1>2, <1>4, <1>6, PollCarried
<1> QED
  BY <1>2, <1>3, <1>5, <1>7, <1>8 DEF IInv

(* One session fades, the others stay.                                      *)
LEMMA OneFades ==
  ASSUME TypeInv, SettledInv, NEW i \in Ids, NEW f, Fades(kind, sess[i], f)
  PROVE  FadesTo([sess EXCEPT ![i] = f])
<1> DEFINE s == [sess EXCEPT ![i] = f]
<1>1. sess \in Seq(Entries) /\ i \in 1..Len(sess) /\ f \in Entries
  BY SessIsAFunction DEF TypeInv, Fades
<1>2. s \in Seq(Entries) /\ Len(s) = Len(sess)
  BY <1>1, ExceptSeq
<1>3. DOMAIN s = Ids
  BY DEF Ids
<1>4. \A j \in Ids : s[j] = IF j = i THEN f ELSE sess[j]
  BY DEF Ids
<1> HIDE DEF s
<1>5. ASSUME NEW j \in Ids
      PROVE  Fades(kind, sess[j], s[j])
  <2>1. sess[j] \in Entries /\ Settled(kind, sess[j])
    BY SessIsAFunction DEF SettledInv
  <2>2. Fades(kind, sess[j], sess[j])
    BY <2>1, SameFades
  <2> QED
    BY <1>4, <2>2
<1>6. FadesTo(s)
  BY <1>2, <1>3, <1>5 DEF FadesTo
<1> QED
  BY <1>6 DEF s

(* Every session fades or stays.                                            *)
LEMMA AllFade ==
  ASSUME TypeInv, NEW s, s = [i \in Ids |-> s[i]],
         \A i \in Ids : Fades(kind, sess[i], s[i])
  PROVE  FadesTo(s)
<1>1. DOMAIN s = Ids /\ Ids = 1..Len(sess) /\ Len(sess) \in Nat
  BY SessIsAFunction
<1>2. \A i \in Ids : s[i] \in Entries
  BY DEF Fades
<1>3. s \in [1..Len(sess) -> Entries]
  BY <1>1, <1>2
<1>4. s \in Seq(Entries)
  BY <1>1, <1>3, SeqDef
<1> QED
  BY <1>1, <1>4 DEF FadesTo

(* Reaped() only fades.                                                     *)
LEMMA ReapedSessions ==
  ASSUME TypeInv, SettledInv
  PROVE  FadesTo(Reaped(sess)) /\ DOMAIN Reaped(sess) = Ids
<1> DEFINE s == Reaped(sess)
<1>1. s = [i \in Ids |-> s[i]] /\ DOMAIN s = Ids
  BY DEF Reaped, Ids
<1>2. ASSUME NEW i \in Ids
      PROVE  Fades(kind, sess[i], s[i])
  <2>1. sess[i] \in Entries /\ Settled(kind, sess[i])
    BY SessIsAFunction DEF SettledInv
  <2>2. Fades(kind, sess[i], sess[i])
    BY <2>1, SameFades
  <2>3. Fades(kind, sess[i], Forgotten(Killed(sess[i])))
    BY <2>1, ReapedFades
  <2>4. s[i] = IF Expired(sess[i]) THEN Forgotten(Killed(sess[i])) ELSE sess[i]
    BY DEF Reaped, Ids
  <2> HIDE DEF s
  <2> QED
    BY <2>2, <2>3, <2>4
<1> HIDE DEF s
<1>3. FadesTo(s)
  BY <1>1, <1>2, AllFade
<1> QED
  BY <1>1, <1>3 DEF s

(* The sweep's timer.                                                       *)
LEMMA SweepKeeps == IInv /\ Sweep => IInv'
<1>1. SUFFICES ASSUME IInv, Sweep PROVE IInv'
  OBVIOUS
<1>2. FadesTo(sess')
  BY <1>1, ReapedSessions DEF IInv, Sweep
<1> QED
  BY <1>1, <1>2, SessionsFade DEF Sweep, Behind

(* A reload's stop().                                                       *)
LEMMA StopKeeps == IInv /\ Stop => IInv'
<1>1. SUFFICES ASSUME IInv, Stop PROVE IInv'
  OBVIOUS
<1>2. TypeInv /\ SettledInv
  BY <1>1 DEF IInv
<1>3. sess' = [i \in Ids |->
        [(IF sess[i].held THEN Dropped(Killed(sess[i])) ELSE sess[i])
           EXCEPT !.recorded = FALSE]]
  BY <1>1 DEF Stop
<1>4. ASSUME NEW i \in Ids
      PROVE  Fades(kind, sess[i], sess'[i])
  <2>1. sess[i] \in Entries /\ Settled(kind, sess[i])
    BY <1>2, SessIsAFunction DEF SettledInv
  <2>2. sess'[i] = [(IF sess[i].held THEN Dropped(Killed(sess[i])) ELSE sess[i])
                      EXCEPT !.recorded = FALSE]
    BY <1>3
  <2> QED
    BY <2>1, <2>2, StoppedFades
<1>5. sess' = [i \in Ids |-> sess'[i]]
  BY <1>3
<1>6. FadesTo(sess')
  BY <1>2, <1>4, <1>5, AllFade
<1> QED
  BY <1>1, <1>6, SessionsFade DEF Stop

(* An event that is about one session and fades it.                         *)
LEMMA OneFadesKeeps ==
  ASSUME IInv, Behind, NEW i \in Ids, NEW f, Fades(kind, sess[i], f),
         sess' = [sess EXCEPT ![i] = f]
  PROVE  IInv'
<1>1. FadesTo(sess')
  BY OneFades DEF IInv
<1> QED
  BY <1>1, SessionsFade DEF Behind

(* The ends of sockets and children, and time.                              *)
LEMMA EventsKeep ==
  ASSUME IInv, NEW i \in Ids,
         \/ Ends(i) \/ EndEvent(i) \/ SocketFails(i) \/ ChildFails(i)
         \/ Age(i) \/ GrowOld(i) \/ Types(i)
  PROVE  IInv'
<1> DEFINE e == sess[i]
<1>1. e \in Entries /\ Settled(kind, e)
  BY SessIsAFunction DEF IInv, SettledInv
<1>2. ASSUME NEW f, Behind, Fades(kind, e, f), sess' = [sess EXCEPT ![i] = f]
      PROVE  IInv'
  BY <1>2, OneFadesKeeps
<1>3. CASE Ends(i)
  <2>1. Fades(kind, e, Killed(e))
    BY <1>1, KilledFades
  <2>2. Behind /\ sess' = [sess EXCEPT ![i] = Killed(e)]
    BY <1>3 DEF Ends
  <2> QED
    BY <1>2, <2>1, <2>2
<1>4. CASE SocketCloses(i)
  <2>1. Behind /\ sess' = [sess EXCEPT ![i] = [e EXCEPT !.closed = TRUE]]
    BY <1>4 DEF SocketCloses
  <2>2. ~Shell /\ ~e.up
    BY <1>4 DEF SocketCloses
  <2>3. Fades(kind, e, [e EXCEPT !.closed = TRUE])
    BY <1>1, <2>2, ClosedFades
  <2> QED
    BY <1>2, <2>1, <2>3
<1>5. CASE ChildExits(i)
  <2>1. Behind /\ sess' = [sess EXCEPT ![i] = Forgotten([e EXCEPT !.closed = TRUE])]
    BY <1>5 DEF ChildExits
  <2>2. Shell /\ ~e.up
    BY <1>5 DEF ChildExits
  <2>3. Fades(kind, e, Forgotten([e EXCEPT !.closed = TRUE]))
    BY <1>1, <2>2, ClosedFades
  <2> QED
    BY <1>2, <2>1, <2>3
<1>6. CASE SocketFails(i)
  <2>1. Behind /\ sess' = [sess EXCEPT ![i] = Broken(e)]
    BY <1>6 DEF SocketFails
  <2>2. ~Shell /\ e.held
    BY <1>6 DEF SocketFails
  <2>3. Fades(kind, e, Broken(e))
    BY <1>1, <2>2, BrokenFades
  <2> QED
    BY <1>2, <2>1, <2>3
<1>7. CASE ChildFails(i)
  <2>1. Behind /\ sess' = [sess EXCEPT ![i] = Forgotten(Broken(e))]
    BY <1>7 DEF ChildFails
  <2>2. Shell /\ e.held
    BY <1>7 DEF ChildFails
  <2>3. Fades(kind, e, Forgotten(Broken(e)))
    BY <1>1, <2>2, BrokenFades
  <2> QED
    BY <1>2, <2>1, <2>3
<1>8. CASE Age(i)
  <2>1. Behind /\ sess' = [sess EXCEPT ![i] = [e EXCEPT !.idle = TRUE]]
    BY <1>8 DEF Age
  <2>2. Fades(kind, e, [e EXCEPT !.idle = TRUE])
    BY <1>1, TimedFades
  <2> QED
    BY <1>2, <2>1, <2>2
<1>9. CASE GrowOld(i)
  <2>1. Behind /\ sess' = [sess EXCEPT ![i] = [e EXCEPT !.old = TRUE]]
    BY <1>9 DEF GrowOld
  <2>2. Fades(kind, e, [e EXCEPT !.old = TRUE])
    BY <1>1, TimedFades
  <2> QED
    BY <1>2, <2>1, <2>2
<1>10. CASE Types(i)
  <2>1. Behind /\ sess' = [sess EXCEPT ![i] = [e EXCEPT !.idle = FALSE]]
    BY <1>10 DEF Types
  <2>2. Fades(kind, e, [e EXCEPT !.idle = FALSE])
    BY <1>1, TimedFades
  <2> QED
    BY <1>2, <2>1, <2>2
<1> QED
  BY <1>3, <1>4, <1>5, <1>6, <1>7, <1>8, <1>9, <1>10 DEF EndEvent

-----------------------------------------------------------------------------
(* One session changes *)

(* The sessions after one of them changed.                                  *)
LEMMA OneChanged ==
  ASSUME TypeInv, SettledInv, NEW i \in Ids, NEW f \in Entries, Settled(kind, f),
         i # pipe.id => Blank(f),
         sess' = [sess EXCEPT ![i] = f], kind' = kind, pipe'.id = pipe.id
  PROVE  /\ sess' \in Seq(Entries)
         /\ DOMAIN sess' = Ids
         /\ \A j \in Ids : sess'[j] = IF j = i THEN f ELSE sess[j]
         /\ SettledInv'
<1>1. sess \in Seq(Entries) /\ i \in 1..Len(sess)
  BY SessIsAFunction DEF TypeInv
<1>2. sess' \in Seq(Entries)
  BY <1>1, ExceptSeq
<1>3. DOMAIN sess' = Ids /\ \A j \in Ids : sess'[j] = IF j = i THEN f ELSE sess[j]
  BY DEF Ids
<1>4. ASSUME NEW j \in DOMAIN sess'
      PROVE  Settled(kind, sess'[j]) /\ (j # pipe.id => Blank(sess'[j]))
  <2>1. j \in Ids
    BY <1>3
  <2>2. Settled(kind, sess[j]) /\ (j # pipe.id => Blank(sess[j]))
    BY <2>1 DEF SettledInv
  <2> QED
    BY <1>3, <2>1, <2>2
<1>5. SettledInv'
  BY <1>4 DEF SettledInv, Ids
<1> QED
  BY <1>2, <1>3, <1>5

(* A session through which something goes is the client's.                  *)
LEMMA MineFacts ==
  ASSUME IInv, pipe.id \in Ids
  PROVE  /\ Mine \in Entries /\ Settled(kind, Mine)
         /\ pipe.out \in Seq(Nat) /\ pipe.sent \in Nat
         /\ DataOf(calls["poll"]) \in Seq(Nat)
         /\ pipe.id # 0
<1>1. TypeInv /\ SettledInv
  BY DEF IInv
<1>2. Mine \in Entries /\ Settled(kind, Mine)
  BY <1>1, SessIsAFunction DEF SettledInv, Mine
<1>3. pipe.out \in Seq(Nat) /\ pipe.sent \in Nat
  BY <1>1 DEF TypeInv, Clients
<1>4. calls["poll"] \in Calls
  BY <1>1 DEF TypeInv, Paths
<1>5. DataOf(calls["poll"]) \in Seq(Nat)
  BY <1>4, CallFacts
<1>6. pipe.id # 0
  BY <1>1, SessIsAFunction
<1> QED
  BY <1>2, <1>3, <1>5, <1>6

(* A step behind the plugins keeps the invariant if it keeps both streams   *)
(* of the client's session.                                                 *)
LEMMA BehindKeeps ==
  ASSUME IInv, Behind, NEW f \in Entries, pipe.id \in Ids, Settled(kind, f),
         sess' = [sess EXCEPT ![pipe.id] = f],
         \A c, stray : SendOK(Mine, pipe.sent, pipe.reader, c, stray) =>
                         SendOK(f, pipe.sent, pipe.reader, c, stray),
         \A c, stray : DataOf(c) \in Seq(Nat)
                         /\ PollOK(Mine, pipe.out, pipe.poller, c, pipe.why, stray) =>
                         PollOK(f, pipe.out, pipe.poller, c, pipe.why, stray)
  PROVE  IInv'
<1>1. TypeInv /\ SettledInv /\ ClientInv /\ SendInv /\ PollInv
  BY DEF IInv
<1>2. kind' = kind /\ pipe' = pipe /\ calls' = calls /\ strays' = strays /\ repeated' = repeated
  BY DEF Behind
<1>3. /\ sess' \in Seq(Entries) /\ DOMAIN sess' = Ids /\ sess'[pipe.id] = f
      /\ SettledInv'
  BY <1>1, <1>2, OneChanged
<1>4. TypeInv'
  BY <1>1, <1>2, <1>3 DEF TypeInv
<1>5. ClientInv'
  BY <1>1, <1>2, <1>3, ClientKept
<1>6. Mine' = f
  BY <1>2, <1>3 DEF Mine
<1>7. StrayOf("send")' = StrayOf("send") /\ StrayOf("poll")' = StrayOf("poll")
  BY <1>2 DEF StrayOf
<1>8. SendInv'
  BY <1>1, <1>2, <1>6, <1>7 DEF SendInv
<1>9. PollInv'
  BY <1>1, <1>2, <1>6, <1>7, MineFacts DEF PollInv
<1> QED
  BY <1>3, <1>4, <1>5, <1>8, <1>9 DEF IInv

(* The far side reads.                                                      *)
LEMMA DeliverKeeps ==
  ASSUME IInv, NEW i \in Ids, Deliver(i)
  PROVE  IInv'
<1> DEFINE e == sess[i]
           f == [e EXCEPT !.got = Append(@, Head(e.pend)), !.pend = Tail(@)]
<1>1. e \in Entries /\ Settled(kind, e) /\ (i # pipe.id => Blank(e))
  BY SessIsAFunction DEF IInv, SettledInv
<1>2. Behind /\ e.up /\ e.pend # <<>> /\ sess' = [sess EXCEPT ![i] = f]
  <2>1. sess' = [sess EXCEPT ![i].got = Append(@, Head(sess[i].pend)), ![i].pend = Tail(@)]
    BY DEF Deliver
  <2>2. sess' = [sess EXCEPT ![i] = f]
    BY <2>1 DEF Ids
  <2> QED
    BY <2>2 DEF Deliver
<1>3. i = pipe.id
  BY <1>1, <1>2 DEF Blank
<1>4. e.got \in Seq(Nat) /\ e.pend \in Seq(Nat)
  BY <1>1 DEF Entries
<1>5. Append(e.got, Head(e.pend)) \in Seq(Nat) /\ Tail(e.pend) \in Seq(Nat)
  BY <1>2, <1>4, HeadMoves
<1>6. /\ f.got = Append(e.got, Head(e.pend)) /\ f.pend = Tail(e.pend)
      /\ f.up = e.up /\ f.held = e.held /\ f.chunks = e.chunks /\ f.made = e.made
      /\ f.closed = e.closed /\ f.error = e.error /\ f.recorded = e.recorded
  BY <1>1 DEF Entries
<1>7. f \in Entries
  <2> DEFINE g == [e EXCEPT !.got = Append(e.got, Head(e.pend))]
  <2>1. g \in Entries
    BY <1>1, <1>5, OneField
  <2>2. f = [g EXCEPT !.pend = Tail(e.pend)]
    BY <1>1 DEF Entries
  <2> HIDE DEF f, g
  <2> QED
    BY <1>5, <2>1, <2>2, OneField
<1>8. f.got # <<>>
  <2>1. Head(e.pend) \in Nat
    BY <1>2, <1>4, HeadTailProperties
  <2>2. Append(e.got, Head(e.pend)) # <<>>
    BY <1>4, <2>1, AppendProperties
  <2> QED
    BY <1>6, <2>2
<1> HIDE DEF e, f
<1>9. Settled(kind, f)
  BY <1>1, <1>2, <1>6, <1>8 DEF Settled
<1>10. e = Mine /\ pipe.id \in Ids
  BY <1>3 DEF Mine, e
<1>11. ASSUME NEW c, NEW stray, SendOK(Mine, pipe.sent, pipe.reader, c, stray)
       PROVE  SendOK(f, pipe.sent, pipe.reader, c, stray)
  <2>1. pipe.sent \in Nat
    BY <1>10, MineFacts
  <2>2. SendOK(e, pipe.sent, pipe.reader, c, stray)
    BY <1>10, <1>11
  <2> QED
    BY <1>1, <1>2, <1>6, <1>7, <2>1, <2>2, SendDelivered
<1>12. ASSUME NEW c, NEW stray, DataOf(c) \in Seq(Nat),
              PollOK(Mine, pipe.out, pipe.poller, c, pipe.why, stray)
       PROVE  PollOK(f, pipe.out, pipe.poller, c, pipe.why, stray)
  BY <1>6, <1>10, <1>12 DEF PollOK
<1> QED
  BY <1>2, <1>3, <1>7, <1>9, <1>10, <1>11, <1>12, BehindKeeps

(* A chunk of the far side is kept, or does not fit.                        *)
LEMMA MadeKeeps ==
  ASSUME IInv, Behind, pipe.id \in Ids, NEW f \in Entries,
         sess' = [sess EXCEPT ![pipe.id] = f], Settled(kind, f),
         Mine.held, Mine.closed => Mine.error,
         SendKept(Mine, f), f.held = Mine.held,
         f.made = Mine.made + 1,
         \/ f.chunks = Append(Mine.chunks, Mine.made + 1) /\ f.error = Mine.error
         \/ f.error
  PROVE  IInv'
<1>1. /\ Mine \in Entries /\ Settled(kind, Mine)
      /\ pipe.out \in Seq(Nat) /\ pipe.sent \in Nat
  BY MineFacts
<1>2. ASSUME NEW c, NEW stray, SendOK(Mine, pipe.sent, pipe.reader, c, stray)
      PROVE  SendOK(f, pipe.sent, pipe.reader, c, stray)
  <2>1. CallMoves(c, c)
    BY DEF CallMoves
  <2> QED
    BY <1>1, <1>2, <2>1, SendStays
<1>3. ASSUME NEW c, NEW stray, DataOf(c) \in Seq(Nat),
             PollOK(Mine, pipe.out, pipe.poller, c, pipe.why, stray)
      PROVE  PollOK(f, pipe.out, pipe.poller, c, pipe.why, stray)
  <2>1. CASE f.error
    BY <1>1, <1>3, <2>1, PollOverflows
  <2>2. CASE f.chunks = Append(Mine.chunks, Mine.made + 1) /\ f.error = Mine.error
    BY <1>1, <1>3, <2>2, PollData
  <2> QED
    BY <2>1, <2>2
<1> QED
  BY <1>2, <1>3, BehindKeeps

(* What Made() replaces.                                                    *)
LEMMA MadeFields ==
  ASSUME NEW e \in Entries
  PROVE  LET m == [e EXCEPT !.made = @ + 1] IN
         /\ m \in Entries /\ m.made = e.made + 1
         /\ m.held = e.held /\ m.up = e.up /\ m.pend = e.pend /\ m.got = e.got
         /\ m.chunks = e.chunks /\ m.closed = e.closed /\ m.error = e.error
         /\ m.recorded = e.recorded
<1>1. e.made + 1 \in Nat
  BY DEF Entries
<1>2. [e EXCEPT !.made = @ + 1] \in Entries
  BY <1>1, OneField
<1> QED
  BY <1>2 DEF Entries

(* A session that takes a chunk is as settled as it was.                    *)
LEMMA SettledAsData ==
  ASSUME NEW k, NEW e \in Entries, NEW f \in Entries, Settled(k, e), e.held, f.held = e.held,
         k = "shell" => e.got # <<>>, f.got = e.got, f.made <= OutLen,
         ~f.up => f.pend = <<>>, f.closed => ~f.up,
         k = "shell" /\ f.closed => f.error,
         \/ f.recorded = e.recorded /\ f.error = e.error
         \/ k # "shell"
         \/ f.recorded = TRUE /\ f.error = TRUE
  PROVE  Settled(k, f)
BY DEF Settled

(* The service writes: the chunk is kept, or the tunnel overflows.          *)
LEMMA TunnelDataKeeps ==
  ASSUME IInv, NEW i \in Ids, TunnelData(i)
  PROVE  IInv'
<1> DEFINE e == sess[i]
           m == [e EXCEPT !.made = @ + 1]
           f1 == [m EXCEPT !.chunks = Append(@, m.made)]
           f2 == [Killed(m) EXCEPT !.error = TRUE]
<1>1. e \in Entries /\ Settled(kind, e)
  BY SessIsAFunction DEF IInv, SettledInv
<1>2. /\ Behind /\ ~Shell /\ e.held /\ e.up /\ e.made < OutLen /\ i = pipe.id
      /\ sess' = [sess EXCEPT ![i] = f1] \/ sess' = [sess EXCEPT ![i] = f2]
  BY DEF TunnelData, Watched, Made, Kept, TunnelOverflow
<1>3. e = Mine /\ OutLen \in Nat /\ e.made \in Nat /\ e.chunks \in Seq(Nat)
  BY <1>1, <1>2, ConstantsInNat DEF Mine, Entries
<1>4. m \in Entries /\ m.made = e.made + 1
      /\ m.held = e.held /\ m.up = e.up /\ m.pend = e.pend /\ m.got = e.got
      /\ m.chunks = e.chunks /\ m.closed = e.closed /\ m.error = e.error
      /\ m.recorded = e.recorded
  BY <1>1, MadeFields
<1> HIDE DEF e, m
<1>5. ~e.closed
  BY <1>1, <1>2 DEF Settled
<1>6. CASE sess' = [sess EXCEPT ![i] = f1]
  <2>1. Append(m.chunks, m.made) \in Seq(Nat)
    BY <1>3, <1>4, AppendProperties
  <2>2. f1 \in Entries
    BY <1>4, <2>1, OneField
  <2>3. f1.chunks = Append(e.chunks, e.made + 1) /\ f1.made = e.made + 1
        /\ f1.held = e.held /\ f1.up = e.up /\ f1.pend = e.pend /\ f1.got = e.got
        /\ f1.closed = e.closed /\ f1.error = e.error
        /\ f1.recorded = e.recorded
    BY <1>4 DEF Entries
  <2> HIDE DEF f1
  <2>4. Settled(kind, f1) /\ SendKept(e, f1)
    <3>1. f1.made <= OutLen
      BY <1>2, <1>3, <2>3
    <3>2. Settled(kind, f1)
      BY <1>1, <1>2, <2>2, <2>3, <3>1, SettledAsData DEF Settled, Shell
    <3>3. SendKept(e, f1)
      BY <1>1, <1>2, <2>2, <2>3 DEF SendKept
    <3> QED
      BY <3>2, <3>3
  <2>5. sess' = [sess EXCEPT ![pipe.id] = f1]
    BY <1>2, <1>6
  <2> QED
    BY <1>2, <1>3, <1>5, <2>2, <2>3, <2>4, <2>5, MadeKeeps
<1>7. CASE sess' = [sess EXCEPT ![i] = f2]
  <2> DEFINE k == Killed(m)
  <2>1. /\ k \in Entries
        /\ k.up = FALSE /\ k.pend = <<>> /\ k.held = m.held /\ k.got = m.got
        /\ k.made = m.made /\ k.chunks = m.chunks /\ k.closed = m.closed
        /\ k.error = m.error /\ k.recorded = m.recorded
    BY <1>4, KilledFields
  <2> HIDE DEF k
  <2>2. f2 = [k EXCEPT !.error = TRUE]
    BY DEF k
  <2> HIDE DEF f2
  <2>3. f2 \in Entries
    BY <2>1, <2>2, OneField
  <2>4. f2.error = TRUE
        /\ f2.up = FALSE /\ f2.pend = <<>> /\ f2.held = k.held /\ f2.got = k.got
        /\ f2.made = k.made /\ f2.chunks = k.chunks /\ f2.closed = k.closed
        /\ f2.recorded = k.recorded
    BY <2>1, <2>2 DEF Entries
  <2>5. Settled(kind, f2) /\ SendKept(e, f2)
    <3>1. f2.made <= OutLen
      BY <1>2, <1>3, <1>4, <2>1, <2>4
    <3>2. Settled(kind, f2)
      BY <1>1, <1>2, <1>4, <2>1, <2>3, <2>4, <3>1, SettledAsData DEF Settled, Shell
    <3>3. SendKept(e, f2)
      BY <1>1, <1>2, <1>4, <2>1, <2>3, <2>4 DEF SendKept
    <3> QED
      BY <3>2, <3>3
  <2>6. sess' = [sess EXCEPT ![pipe.id] = f2] /\ f2.made = e.made + 1 /\ f2.held = e.held
    BY <1>2, <1>4, <1>7, <2>1, <2>4
  <2> QED
    BY <1>2, <1>3, <1>5, <2>3, <2>4, <2>5, <2>6, MadeKeeps
<1> QED
  BY <1>2, <1>6, <1>7

(* The shell prints: the same, with its end recorded at once.               *)
LEMMA ShellDataKeeps ==
  ASSUME IInv, NEW i \in Ids, ShellData(i)
  PROVE  IInv'
<1> DEFINE e == sess[i]
           m == [e EXCEPT !.made = @ + 1]
           n == [m EXCEPT !.chunks = Append(@, m.made)]
           f1 == [n EXCEPT !.idle = FALSE]
           f2 == ShellOverflow(m)
<1>1. e \in Entries /\ Settled(kind, e) /\ (i # pipe.id => Blank(e))
  BY SessIsAFunction DEF IInv, SettledInv
<1>2. /\ Behind /\ Shell /\ e.held /\ e.got # <<>> /\ e.made < OutLen
      /\ sess' = [sess EXCEPT ![i] = f1] \/ sess' = [sess EXCEPT ![i] = f2]
  BY DEF ShellData, Made, Kept, Touched
<1>3. i = pipe.id
  BY <1>1, <1>2 DEF Blank
<1>4. e = Mine /\ OutLen \in Nat /\ e.made \in Nat /\ e.chunks \in Seq(Nat)
  BY <1>1, <1>3, ConstantsInNat DEF Mine, Entries
<1>5. m \in Entries /\ m.made = e.made + 1
      /\ m.held = e.held /\ m.up = e.up /\ m.pend = e.pend /\ m.got = e.got
      /\ m.chunks = e.chunks /\ m.closed = e.closed /\ m.error = e.error
      /\ m.recorded = e.recorded
  BY <1>1, MadeFields
<1> HIDE DEF e, m
<1>6. e.closed => e.error
  BY <1>1, <1>2 DEF Settled, Shell
<1>7. CASE sess' = [sess EXCEPT ![i] = f1]
  <2>1. Append(m.chunks, m.made) \in Seq(Nat)
    BY <1>4, <1>5, AppendProperties
  <2>2. n \in Entries
    BY <1>5, <2>1, OneField
  <2>3. n.chunks = Append(e.chunks, e.made + 1) /\ n.made = e.made + 1
        /\ n.held = e.held /\ n.up = e.up /\ n.pend = e.pend /\ n.got = e.got
        /\ n.closed = e.closed /\ n.error = e.error
        /\ n.recorded = e.recorded
    BY <1>5 DEF Entries
  <2> HIDE DEF n
  <2>4. f1 \in Entries
    BY <2>2, OneField
  <2>5. f1.chunks = n.chunks /\ f1.made = n.made
        /\ f1.held = n.held /\ f1.up = n.up /\ f1.pend = n.pend /\ f1.got = n.got
        /\ f1.closed = n.closed /\ f1.error = n.error
        /\ f1.recorded = n.recorded
    BY <2>2 DEF Entries
  <2> HIDE DEF f1
  <2>6. Settled(kind, f1) /\ SendKept(e, f1)
    <3>1. f1.made <= OutLen
      BY <1>2, <1>4, <2>3, <2>5
    <3>2. Settled(kind, f1)
      BY <1>1, <1>2, <2>3, <2>4, <2>5, <3>1, SettledAsData DEF Settled, Shell
    <3>3. SendKept(e, f1)
      BY <1>1, <1>2, <2>3, <2>4, <2>5 DEF SendKept
    <3> QED
      BY <3>2, <3>3
  <2>7. sess' = [sess EXCEPT ![pipe.id] = f1] /\ f1.made = e.made + 1 /\ f1.held = e.held
        /\ f1.chunks = Append(e.chunks, e.made + 1) /\ f1.error = e.error
    BY <1>3, <1>7, <2>3, <2>5
  <2> QED
    BY <1>2, <1>3, <1>4, <1>6, <2>4, <2>6, <2>7, MadeKeeps
<1>8. CASE sess' = [sess EXCEPT ![i] = f2]
  <2> DEFINE k == Killed(m)
             a == [k EXCEPT !.error = TRUE]
             b == [a EXCEPT !.closed = TRUE]
  <2>1. /\ k \in Entries
        /\ k.up = FALSE /\ k.pend = <<>> /\ k.held = m.held /\ k.got = m.got
        /\ k.made = m.made /\ k.chunks = m.chunks /\ k.closed = m.closed
        /\ k.error = m.error /\ k.recorded = m.recorded
    BY <1>5, KilledFields
  <2>2. f2 = [k EXCEPT !.error = TRUE, !.closed = TRUE, !.recorded = TRUE]
    BY DEF ShellOverflow
  <2> HIDE DEF k, f2
  <2>3. f2 \in Entries
    <3>1. f2 = [b EXCEPT !.recorded = TRUE]
      BY <2>2
    <3>2. a \in Entries
      BY <2>1, OneField
    <3> HIDE DEF a
    <3>3. b \in Entries
      BY <3>2, OneField
    <3> HIDE DEF b
    <3> QED
      BY <3>1, <3>3, OneField
  <2>4. f2.error = TRUE /\ f2.closed = TRUE /\ f2.recorded = TRUE
        /\ f2.up = FALSE /\ f2.pend = <<>> /\ f2.held = k.held /\ f2.got = k.got
        /\ f2.made = k.made /\ f2.chunks = k.chunks
    BY <2>1, <2>2 DEF Entries
  <2>5. Settled(kind, f2) /\ SendKept(e, f2)
    <3>1. f2.made <= OutLen
      BY <1>2, <1>4, <1>5, <2>1, <2>4
    <3>2. Settled(kind, f2)
      BY <1>1, <1>2, <1>5, <2>1, <2>3, <2>4, <3>1, SettledAsData DEF Settled, Shell
    <3>3. SendKept(e, f2)
      BY <1>1, <1>2, <1>5, <2>1, <2>3, <2>4 DEF SendKept
    <3> QED
      BY <3>2, <3>3
  <2>6. sess' = [sess EXCEPT ![pipe.id] = f2] /\ f2.made = e.made + 1 /\ f2.held = e.held
    BY <1>3, <1>5, <1>8, <2>1, <2>4
  <2> QED
    BY <1>2, <1>3, <1>4, <1>6, <2>3, <2>4, <2>5, <2>6, MadeKeeps
<1> QED
  BY <1>2, <1>7, <1>8

-----------------------------------------------------------------------------
(* Handlers *)

Ok(id, data, closed) == [state |-> "ok", reply |-> [id |-> id, data |-> data, closed |-> closed]]

(* The answers there are.                                                   *)
LEMMA AnswerFacts ==
  /\ [state |-> "refused"] \in Answers
  /\ [state |-> "failed"] \in Answers
  /\ Pending \in Answers
  /\ \A id \in Nat, data \in Seq(Nat), closed \in BOOLEAN : Ok(id, data, closed) \in Answers
BY DEF Answers, Pending, Ok, Replies

(* What Served() yields.                                                    *)
LEMMA ServedFields ==
  ASSUME NEW s, NEW id, NEW data, NEW closed
  PROVE  LET h == Served(s, Reply(id, data, closed)) IN
         h.sess = s /\ h.answer = Ok(id, data, closed) /\ h.answer.state = "ok"
BY DEF Served, Reply, Ok

(* A session is opened blank.                                               *)
LEMMA EntryIsNew == Entry \in Entries /\ Settled(kind, Entry) /\ Blank(Entry)
<1>1. <<>> \in Seq(Nat)
  BY EmptySeq
<1>2. Entry \in Entries
  BY <1>1 DEF Entry, Entries
<1>3. OutLen \in Nat
  BY ConstantsInNat
<1>4. Settled(kind, Entry) /\ Blank(Entry)
  BY <1>3 DEF Entry, Settled, Blank
<1> QED
  BY <1>2, <1>4

(* Sessions that stay fade.                                                 *)
LEMMA SameSessions == TypeInv /\ SettledInv => FadesTo(sess)
<1>1. SUFFICES ASSUME TypeInv, SettledInv PROVE FadesTo(sess)
  OBVIOUS
<1>2. \A i \in Ids : Fades(kind, sess[i], sess[i])
  BY <1>1, SessIsAFunction, SameFades DEF SettledInv
<1> QED
  BY <1>1, <1>2 DEF FadesTo, TypeInv, Ids

(* What an open leaves: the sessions reaped, and perhaps one more, which it *)
(* names.                                                                   *)
LEMMA OpenHandled ==
  ASSUME TypeInv, SettledInv, NEW id, NEW data
  PROVE  LET h == Handled("open", id, data) IN
         /\ FadesTo(h.sess)
         /\ h.answer \in Answers /\ h.answer.state \in {"refused", "ok"}
         /\ h.answer.state = "ok" => h.answer.reply.id \in DOMAIN h.sess
<1> DEFINE h == Handled("open", id, data)
           s == Reaped(sess)
           t == Append(s, Entry)
           n == Len(s) + 1
<1>1. h = Refused(s) \/ h = Served(t, Reply(n, <<>>, FALSE))
  BY DEF Handled, OpenHandler
<1>2. FadesTo(s) /\ DOMAIN s = Ids /\ s \in Seq(Entries)
  BY ReapedSessions DEF FadesTo
<1> HIDE DEF h, s
<1>3. /\ t \in Seq(Entries) /\ Len(t) = n /\ n \in Nat
      /\ \A i \in 1..Len(s) : t[i] = s[i]
      /\ t[n] = Entry
  BY <1>2, EntryIsNew, AppendProperties, LenProperties
<1>4. Ids = 1..Len(s) /\ Len(s) \in Nat
  BY <1>2, LenProperties
<1> HIDE DEF t
<1>5. DOMAIN t = 1..n /\ DOMAIN t \ Ids = {n} /\ n \in DOMAIN t
  <2>1. DOMAIN t = 1..n
    BY <1>3, LenProperties
  <2> QED
    BY <1>4, <2>1
<1>6. FadesTo(t)
  BY <1>2, <1>3, <1>4, <1>5, EntryIsNew DEF FadesTo
<1>7. CASE h = Refused(s)
  <2>1. h.sess = s /\ h.answer = [state |-> "refused"]
    BY <1>7 DEF Refused
  <2>2. h.answer.state = "refused"
    BY <2>1
  <2> QED
    BY <1>2, <2>1, <2>2, AnswerFacts DEF h
<1>8. CASE h = Served(t, Reply(n, <<>>, FALSE))
  <2>1. h.sess = t /\ h.answer = Ok(n, <<>>, FALSE)
    BY <1>8 DEF Served, Reply, Ok
  <2>2. h.answer.state = "ok" /\ h.answer.reply.id = n
    BY <2>1 DEF Ok
  <2>3. h.answer \in Answers
    BY <1>3, <2>1, EmptySeq, AnswerFacts
  <2> QED
    BY <1>5, <1>6, <2>1, <2>2, <2>3 DEF h
<1> QED
  BY <1>1, <1>7, <1>8

(* A request for a session that is not in the map is refused.               *)
LEMMA GoneHandled ==
  ASSUME NEW path \in Paths \ {"open"}, NEW id, NEW data, ~sess[id].held
  PROVE  LET h == Handled(path, id, data) IN
         /\ h.sess = sess
         /\ h.answer \in Answers /\ h.answer.state = "refused"
<1>1. Handled(path, id, data) = Refused(sess)
  BY DEF Handled
<1>2. PICK h : h = Handled(path, id, data)
  OBVIOUS
<1>3. h.sess = sess /\ h.answer = [state |-> "refused"]
  BY <1>1, <1>2 DEF Refused
<1>4. h.answer.state = "refused"
  BY <1>3
<1> QED
  BY <1>2, <1>3, <1>4, AnswerFacts

(* What a close leaves.                                                     *)
LEMMA CloseHandled ==
  ASSUME TypeInv, SettledInv, NEW id \in Ids, NEW data, sess[id].held
  PROVE  LET h == Handled("close", id, data) IN
         /\ FadesTo(h.sess)
         /\ h.answer \in Answers /\ h.answer.state = "ok"
<1> DEFINE e == sess[id]
           f == Forgotten(Killed(e))
<1>1. Handled("close", id, data) = Served([sess EXCEPT ![id] = f], Reply(id, <<>>, TRUE))
  BY DEF Handled, CloseHandler, Ids
<1>2. e \in Entries /\ Settled(kind, e) /\ id \in Nat
  BY SessIsAFunction DEF SettledInv
<1>3. Fades(kind, e, f)
  BY <1>2, ReapedFades
<1>4. FadesTo([sess EXCEPT ![id] = f])
  BY <1>3, OneFades
<1> HIDE DEF e, f
<1>5. PICK h : h = Handled("close", id, data)
  OBVIOUS
<1>6. h.sess = [sess EXCEPT ![id] = f] /\ h.answer = Ok(id, <<>>, TRUE)
  <2> DEFINE t == [sess EXCEPT ![id] = f]
  <2>1. h = Served(t, Reply(id, <<>>, TRUE))
    BY <1>1, <1>5
  <2> HIDE DEF t
  <2>2. h.sess = t /\ h.answer = Ok(id, <<>>, TRUE)
    BY <2>1 DEF Served, Reply, Ok
  <2> QED
    BY <2>2 DEF t
<1>7. h.answer.state = "ok"
  BY <1>6 DEF Ok
<1>8. h.answer \in Answers
  BY <1>2, <1>6, EmptySeq, AnswerFacts
<1> QED
  BY <1>4, <1>5, <1>6, <1>7, <1>8

(* What Written() replaces.                                                 *)
LEMMA WrittenFields ==
  ASSUME NEW e \in Entries, NEW data \in Nat
  PROVE  LET f == Written(e, data) IN
         /\ f \in Entries
         /\ e.up => f.pend = Append(e.pend, data)
         /\ ~e.up => f = e
         /\ f.held = e.held /\ f.up = e.up /\ f.got = e.got /\ f.made = e.made
         /\ f.chunks = e.chunks /\ f.closed = e.closed /\ f.error = e.error
         /\ f.recorded = e.recorded
<1> DEFINE g == [e EXCEPT !.pend = Append(@, data)]
<1>1. Append(e.pend, data) \in Seq(Nat)
  BY AppendProperties DEF Entries
<1>2. g \in Entries
  BY <1>1, OneField
<1>3. /\ g.pend = Append(e.pend, data)
      /\ g.held = e.held /\ g.up = e.up /\ g.got = e.got /\ g.made = e.made
      /\ g.chunks = e.chunks /\ g.closed = e.closed /\ g.error = e.error
      /\ g.recorded = e.recorded
  BY DEF Entries
<1> HIDE DEF g
<1>4. CASE e.up
  <2>1. Written(e, data) = g
    BY <1>4 DEF Written, g
  <2> QED
    BY <1>2, <1>3, <1>4, <2>1
<1>5. CASE ~e.up
  <2>1. Written(e, data) = e
    BY <1>5 DEF Written
  <2> QED
    BY <1>5, <2>1
<1> QED
  BY <1>4, <1>5

(* What Touched() replaces.                                                 *)
LEMMA TouchedFields ==
  ASSUME NEW e \in Entries
  PROVE  LET f == Touched(e) IN
         /\ f \in Entries
         /\ f.held = e.held /\ f.up = e.up /\ f.pend = e.pend /\ f.got = e.got /\ f.made = e.made
         /\ f.chunks = e.chunks /\ f.closed = e.closed /\ f.error = e.error
         /\ f.recorded = e.recorded
<1>1. Touched(e) \in Entries
  BY OneField DEF Touched
<1> QED
  BY <1>1 DEF Touched, Entries

(* What Drained() replaces.                                                 *)
LEMMA DrainedFields ==
  ASSUME NEW e \in Entries
  PROVE  LET f == Drained(e) IN
         /\ f \in Entries /\ f.chunks = <<>>
         /\ f.held = e.held /\ f.up = e.up /\ f.pend = e.pend /\ f.got = e.got /\ f.made = e.made
         /\ f.closed = e.closed /\ f.error = e.error
         /\ f.recorded = e.recorded
<1>1. Drained(e) \in Entries
  BY OneField, EmptySeq DEF Drained
<1> QED
  BY <1>1 DEF Drained, Entries

(* What a send leaves of its session.                                       *)
Sends(e, f, data) ==
  /\ f \in Entries /\ Settled(kind, f)
  /\ f.got = e.got
  /\ f.up => e.up /\ f.pend = Append(e.pend, data)
  /\ PollKept(e, f)

(* What a send leaves, of either plugin: a closed session takes nothing,    *)
(* one whose socket or child is gone loses it.                              *)
LEMMA SendHandled ==
  ASSUME TypeInv, SettledInv, NEW id \in Ids, NEW data \in Nat, sess[id].held
  PROVE  LET h == Handled("send", id, data) IN
         /\ \E f : Sends(sess[id], f, data) /\ h.sess = [sess EXCEPT ![id] = f]
         /\ h.answer \in Answers /\ h.answer.state = "ok"
<1> DEFINE e == sess[id]
<1>1. e \in Entries /\ Settled(kind, e) /\ id \in Nat
  BY SessIsAFunction DEF SettledInv
<1>2. Handled("send", id, data) = IF Shell THEN ShellSend(id, data) ELSE TunnelSend(id, data)
  BY DEF Handled
<1>3. ASSUME NEW f, f = e \/ f = Touched(e), e.closed
      PROVE  Sends(e, f, data)
  <2>1. /\ f \in Entries
        /\ f.held = e.held /\ f.up = e.up /\ f.pend = e.pend /\ f.got = e.got /\ f.made = e.made
        /\ f.chunks = e.chunks /\ f.closed = e.closed /\ f.error = e.error
        /\ f.recorded = e.recorded
    BY <1>1, <1>3, TouchedFields
  <2>2. ~f.up
    BY <1>1, <1>3, <2>1 DEF Settled
  <2> QED
    BY <1>1, <2>1, <2>2 DEF Sends, Settled, PollKept
<1>4. Sends(e, Written(Touched(e), data), data)
  <2> DEFINE m == Touched(e)
             f == Written(m, data)
  <2>1. /\ m \in Entries
        /\ m.held = e.held /\ m.up = e.up /\ m.pend = e.pend /\ m.got = e.got /\ m.made = e.made
        /\ m.chunks = e.chunks /\ m.closed = e.closed /\ m.error = e.error
        /\ m.recorded = e.recorded
    BY <1>1, TouchedFields
  <2> HIDE DEF m
  <2>2. /\ f \in Entries
        /\ m.up => f.pend = Append(m.pend, data)
        /\ ~m.up => f = m
        /\ f.held = m.held /\ f.up = m.up /\ f.got = m.got /\ f.made = m.made
        /\ f.chunks = m.chunks /\ f.closed = m.closed /\ f.error = m.error
        /\ f.recorded = m.recorded
    BY <2>1, WrittenFields
  <2> HIDE DEF f, e
  <2>3. ~f.up => f.pend = <<>>
    BY <1>1, <2>1, <2>2 DEF Settled
  <2> QED
    BY <1>1, <2>1, <2>2, <2>3 DEF Sends, Settled, PollKept, m, f
<1>5. \E f, b : /\ Sends(e, f, data)
                /\ b \in BOOLEAN
                /\ Handled("send", id, data) = Served([sess EXCEPT ![id] = f], Reply(id, <<>>, b))
  <2>1. CASE Shell /\ e.closed
    <3>1. Handled("send", id, data) = Served([sess EXCEPT ![id] = e], Reply(id, <<>>, e.closed))
      BY <1>2, <2>1 DEF ShellSend
    <3>2. Sends(e, e, data) /\ e.closed \in BOOLEAN
      BY <1>1, <1>3, <2>1 DEF Entries
    <3> QED
      BY <3>1, <3>2
  <2>2. CASE Shell /\ ~e.closed
    <3>1. Handled("send", id, data) = Served([sess EXCEPT ![id] = Written(Touched(e), data)], Reply(id, <<>>, e.closed))
      BY <1>2, <2>2 DEF ShellSend
    <3>2. e.closed \in BOOLEAN
      BY <1>1 DEF Entries
    <3> QED
      BY <1>4, <3>1, <3>2
  <2>3. CASE ~Shell /\ Touched(e).closed
    <3>1. Handled("send", id, data) = Served([sess EXCEPT ![id] = Touched(e)], Reply(id, <<>>, Touched(e).closed))
      BY <1>2, <2>3 DEF TunnelSend
    <3>2. Touched(e).closed \in BOOLEAN /\ e.closed
      BY <1>1, <2>3, TouchedFields DEF Entries
    <3>3. Sends(e, Touched(e), data)
      BY <1>3, <3>2
    <3> QED
      BY <3>1, <3>2, <3>3
  <2>4. CASE ~Shell /\ ~Touched(e).closed
    <3>1. Handled("send", id, data) = Served([sess EXCEPT ![id] = Written(Touched(e), data)], Reply(id, <<>>, Touched(e).closed))
      BY <1>2, <2>4 DEF TunnelSend
    <3>2. Touched(e).closed \in BOOLEAN
      BY <1>1, TouchedFields DEF Entries
    <3> QED
      BY <1>4, <3>1, <3>2
  <2> QED
    BY <2>1, <2>2, <2>3, <2>4
<1>6. PICK f, b : /\ Sends(e, f, data)
                  /\ b \in BOOLEAN
                  /\ Handled("send", id, data) = Served([sess EXCEPT ![id] = f], Reply(id, <<>>, b))
  BY <1>5
<1>7. PICK h : h = Handled("send", id, data)
  OBVIOUS
<1>8. h.sess = [sess EXCEPT ![id] = f] /\ h.answer = Ok(id, <<>>, b)
  BY <1>6, <1>7, ServedFields
<1>9. h.answer.state = "ok"
  BY <1>8 DEF Ok
<1>10. h.answer \in Answers
  <2>1. <<>> \in Seq(Nat) /\ b \in BOOLEAN /\ id \in Nat
    BY <1>1, <1>6, EmptySeq
  <2>2. Ok(id, <<>>, b) \in Answers
    BY <2>1, AnswerFacts
  <2> QED
    BY <1>8, <2>2
<1> QED
  BY <1>6, <1>7, <1>8, <1>9, <1>10

(* What a poll leaves of its session.                                       *)
Polls(e, f) ==
  /\ f \in Entries /\ Settled(kind, f)
  /\ SendKept(e, f)
  /\ f.made = e.made /\ f.chunks = <<>> /\ f.closed = e.closed /\ f.error = e.error

(* What a poll leaves and answers, of either plugin.                        *)
LEMMA PollHandled ==
  ASSUME TypeInv, SettledInv, NEW id \in Ids, NEW data, sess[id].held
  PROVE  LET h == Handled("poll", id, data) IN
         /\ \E f : Polls(sess[id], f) /\ h.sess = [sess EXCEPT ![id] = f]
         /\ h.answer \in Answers /\ h.answer.state = "ok"
         /\ h.answer.reply.data = sess[id].chunks /\ h.answer.reply.closed = sess[id].closed
<1> DEFINE e == sess[id]
           m == Touched(e)
<1>1. e \in Entries /\ Settled(kind, e) /\ id \in Nat
  BY SessIsAFunction DEF SettledInv
<1>2. Handled("poll", id, data) = IF Shell THEN ShellPoll(id) ELSE TunnelPoll(id)
  BY DEF Handled
<1>3. /\ m \in Entries
      /\ m.held = e.held /\ m.up = e.up /\ m.pend = e.pend /\ m.got = e.got /\ m.made = e.made
      /\ m.chunks = e.chunks /\ m.closed = e.closed /\ m.error = e.error
      /\ m.recorded = e.recorded
  BY <1>1, TouchedFields
<1>4. PICK g : /\ g = e \/ g = m
               /\ Handled("poll", id, data) =
                    Served([sess EXCEPT ![id] = Drained(g)], Reply(id, e.chunks, e.closed))
  <2>1. CASE Shell
    <3>1. Handled("poll", id, data) =
            Served([sess EXCEPT ![id] = Drained(e)], Reply(id, e.chunks, e.closed))
      BY <1>2, <2>1 DEF ShellPoll, Ids
    <3> QED
      BY <3>1
  <2>2. CASE ~Shell
    <3>1. Handled("poll", id, data) =
            Served([sess EXCEPT ![id] = Drained(m)], Reply(id, m.chunks, m.closed))
      BY <1>2, <2>2 DEF TunnelPoll
    <3> QED
      BY <1>3, <3>1
  <2> QED
    BY <2>1, <2>2
<1> DEFINE f == Drained(g)
<1>5. /\ g \in Entries
      /\ g.held = e.held /\ g.up = e.up /\ g.pend = e.pend /\ g.got = e.got /\ g.made = e.made
      /\ g.closed = e.closed /\ g.error = e.error
      /\ g.recorded = e.recorded
  BY <1>1, <1>3, <1>4
<1> HIDE DEF m, e
<1>6. /\ f \in Entries /\ f.chunks = <<>>
      /\ f.held = g.held /\ f.up = g.up /\ f.pend = g.pend /\ f.got = g.got /\ f.made = g.made
      /\ f.closed = g.closed /\ f.error = g.error
      /\ f.recorded = g.recorded
  BY <1>5, DrainedFields
<1> HIDE DEF f
<1>7. Polls(e, f)
  BY <1>1, <1>5, <1>6 DEF Polls, Settled, SendKept
<1>8. PICK h : h = Handled("poll", id, data)
  OBVIOUS
<1>9. h.sess = [sess EXCEPT ![id] = f] /\ h.answer = Ok(id, e.chunks, e.closed)
  BY <1>4, <1>8, ServedFields DEF f
<1>10. h.answer.state = "ok" /\ h.answer.reply.data = e.chunks /\ h.answer.reply.closed = e.closed
  BY <1>9 DEF Ok
<1>11. h.answer \in Answers
  <2>1. e.chunks \in Seq(Nat) /\ e.closed \in BOOLEAN
    BY <1>1 DEF Entries
  <2> QED
    BY <1>1, <1>9, <2>1, AnswerFacts
<1> QED
  BY <1>7, <1>8, <1>9, <1>10, <1>11 DEF e

-----------------------------------------------------------------------------
(* A request is served *)

(* ClientInv is kept while the client does nothing, no call is made, and a  *)
(* request that is given up was one of its calls.                           *)
LEMMA ClientCarried ==
  ASSUME TypeInv, TypeInv', ClientInv, kind' = kind, pipe' = pipe, Ids \subseteq DOMAIN sess',
         \A p \in Paths : Phase(calls'[p]) # "none" =>
            PhaseOf(p) # "none" /\ calls'[p].id = calls[p].id /\ calls'[p].data = calls[p].data,
         Phase(calls'["open"]) = "ok" => calls'["open"].answer.reply.id \in DOMAIN sess',
         \A q \in strays' : q \in strays \/ (PhaseOf(q.path) # "none" /\ q.id = calls[q.path].id)
  PROVE  ClientInv'
<1>1. {"open", "send", "poll"} \subseteq Paths
  BY DEF Paths
<1>2. \A p \in Paths : PhaseOf(p)' # "none" =>
            PhaseOf(p) # "none" /\ calls'[p].id = calls[p].id /\ calls'[p].data = calls[p].data
  BY DEF PhaseOf
<1>3. \A p \in Paths \ {"open"} : PhaseOf(p) # "none" => calls[p].id = pipe.id
  BY DEF ClientInv
<1>4. \A q \in strays' : q.path \in Paths
  BY DEF TypeInv, Requests
<1>5. \A q \in strays' : q.path = "open" \/ q.id = pipe.id
  BY <1>3, <1>4 DEF ClientInv
<1>6. \A p \in Paths \ {"open"} : PhaseOf(p) = "none" /\ ~StrayOf(p) => PhaseOf(p)' = "none" /\ ~StrayOf(p)'
  BY <1>2 DEF StrayOf
<1>7. PhaseOf("open")' = "ok" => calls'["open"].answer.reply.id \in Ids'
  BY DEF PhaseOf, Ids
<1>8. \A i \in Ids : i \in Ids'
  BY DEF Ids
<1>9. pipe.id \in Ids' \cup {0}
  BY <1>8 DEF ClientInv
<1>10. pipe.pc = "start" => PhaseOf("open")' = "none"
  BY <1>1, <1>2 DEF ClientInv
<1>11. pipe.id = 0 => \A p \in Paths \ {"open"} : PhaseOf(p)' = "none" /\ ~StrayOf(p)'
  BY <1>6 DEF ClientInv
<1>12. PhaseOf("open")' # "none" => pipe.pc = "opening"
  BY <1>1, <1>2 DEF ClientInv
<1>13. \A p \in Paths \ {"open"} : PhaseOf(p)' # "none" => calls'[p].id = pipe.id
  BY <1>2, <1>3
<1>14. PhaseOf("send")' # "none" => pipe.reader = "send" /\ calls'["send"].data = pipe.sent
                                      /\ (Shell => pipe.poller = "off")
  BY <1>1, <1>2 DEF ClientInv
<1>15. PhaseOf("poll")' # "none" => pipe.poller = "poll"
  BY <1>1, <1>2 DEF ClientInv
<1>16. Shell' <=> Shell
  BY DEF Shell
<1> QED
  BY <1>5, <1>7, <1>9, <1>10, <1>11, <1>12, <1>13, <1>14, <1>15, <1>16 DEF ClientInv

(* What Serve() does, apart from the handler.                               *)
LEMMA ServeFacts ==
  ASSUME IInv, NEW path \in Paths, Serve(path)
  PROVE  LET h == Handled(path, calls[path].id, calls[path].data) IN
         /\ sess' = h.sess /\ UNCHANGED <<kind, strays, pipe, repeated>>
         /\ Phase(calls[path]) = "pending"
         /\ calls[path].id \in Nat /\ calls[path].data \in Nat
         /\ \A p \in Paths \ {path} : calls'[p] = calls[p]
         /\ path # "open" => calls[path].id = pipe.id /\ pipe.id \in Ids
         /\ h.answer \in Answers =>
              /\ calls' \in [Paths -> Calls]
              /\ Phase(calls'[path]) = h.answer.state /\ calls'[path].answer = h.answer
              /\ calls'[path].id = calls[path].id /\ calls'[path].data = calls[path].data
<1> DEFINE c == calls[path]
           h == Handled(path, c.id, c.data)
           d == [c EXCEPT !.answer = h.answer]
<1>1. TypeInv /\ ClientInv
  BY DEF IInv
<1>2. c.state = "out" /\ c.answer = Pending
  BY DEF Serve, Out
<1>3. c \in Calls /\ calls \in [Paths -> Calls]
  BY <1>1 DEF TypeInv
<1> HIDE DEF c
<1>4. c \in AskedCalls /\ Phase(c) = "pending" /\ c.answer.state = "pending"
  <2>1. c \in AskedCalls /\ Phase(c) # "none" /\ Phase(c) = c.answer.state
    BY <1>2, <1>3, CallFacts
  <2>2. Pending.state = "pending"
    BY DEF Pending
  <2> QED
    BY <1>2, <2>1, <2>2
<1>5. c.id \in Nat /\ c.data \in Nat
  BY <1>4 DEF AskedCalls
<1>6. sess' = h.sess /\ calls' = [calls EXCEPT ![path] = d] /\ UNCHANGED <<kind, strays, pipe, repeated>>
  BY DEF Serve, c
<1>7. path # "open" => c.id = pipe.id /\ pipe.id \in Ids
  BY <1>1, <1>4 DEF ClientInv, PhaseOf, c
<1> HIDE DEF h
<1>8. h.answer \in Answers =>
        d \in Calls /\ Phase(d) = h.answer.state /\ d.id = c.id /\ d.data = c.data /\ d.answer = h.answer
  BY <1>4, AnsweredFacts
<1> HIDE DEF d
<1>9. calls'[path] = d /\ (\A p \in Paths \ {path} : calls'[p] = calls[p])
      /\ (d \in Calls => calls' \in [Paths -> Calls])
  BY <1>3, <1>6
<1> QED
  BY <1>4, <1>5, <1>6, <1>7, <1>8, <1>9 DEF c, h

(* The types after it.                                                      *)
LEMMA ServeTypes ==
  ASSUME IInv, NEW path \in Paths, Serve(path),
         Handled(path, calls[path].id, calls[path].data).answer \in Answers,
         sess' \in Seq(Entries), Ids \subseteq DOMAIN sess',
         path = "open" /\ Phase(calls'["open"]) = "ok" =>
           calls'["open"].answer.reply.id \in DOMAIN sess'
  PROVE  TypeInv' /\ ClientInv'
<1>1. TypeInv /\ ClientInv
  BY DEF IInv
<1>2. /\ UNCHANGED <<kind, strays, pipe, repeated>>
      /\ Phase(calls[path]) = "pending"
      /\ \A p \in Paths \ {path} : calls'[p] = calls[p]
      /\ calls' \in [Paths -> Calls]
      /\ calls'[path].id = calls[path].id /\ calls'[path].data = calls[path].data
  BY ServeFacts
<1>3. TypeInv'
  BY <1>1, <1>2 DEF TypeInv
<1>4. \A p \in Paths : Phase(calls'[p]) # "none" =>
         PhaseOf(p) # "none" /\ calls'[p].id = calls[p].id /\ calls'[p].data = calls[p].data
  BY <1>2 DEF PhaseOf
<1>5. Phase(calls'["open"]) = "ok" => calls'["open"].answer.reply.id \in DOMAIN sess'
  <2>1. CASE path = "open"
    BY <2>1
  <2>2. CASE path # "open"
    <3>1. calls'["open"] = calls["open"]
      BY <1>2, <2>2 DEF Paths
    <3>2. Phase(calls["open"]) = "ok" => calls["open"].answer.reply.id \in Ids
      BY <1>1 DEF ClientInv, PhaseOf
    <3> QED
      BY <3>1, <3>2
  <2> QED
    BY <2>1, <2>2
<1>6. \A q \in strays' : q \in strays
  BY <1>2
<1>7. kind' = kind /\ pipe' = pipe
  BY <1>2
<1>8. ClientInv'
  BY <1>1, <1>3, <1>4, <1>5, <1>6, <1>7, ClientCarried
<1> QED
  BY <1>3, <1>8

(* The sessions fade and the call is not one the streams are about.         *)
LEMMA ServeOther ==
  ASSUME IInv, NEW path \in {"open", "close"}, Serve(path), TypeInv', ClientInv', FadesTo(sess')
  PROVE  IInv'
<1>1. TypeInv /\ SettledInv /\ ClientInv /\ SendInv /\ PollInv /\ path \in Paths
  BY DEF IInv, Paths
<1>2. /\ UNCHANGED <<kind, strays, pipe, repeated>>
      /\ \A p \in Paths \ {path} : calls'[p] = calls[p]
  BY <1>1, ServeFacts
<1>3. SettledInv'
  BY <1>1, <1>2, FadesToSettled
<1>4. /\ Ids \subseteq DOMAIN sess'
      /\ pipe.id # 0 => SendKept(sess[pipe.id], sess'[pipe.id]) /\ PollKept(sess[pipe.id], sess'[pipe.id])
  BY <1>1, FadesToCarries
<1>5. CallMoves(calls["send"], calls'["send"]) /\ CallMoves(calls["poll"], calls'["poll"])
  BY <1>1, <1>2 DEF CallMoves, Paths
<1>6. SendInv'
  BY <1>1, <1>2, <1>4, <1>5, SendCarried
<1>7. PollInv'
  BY <1>1, <1>2, <1>4, <1>5, PollCarried
<1> QED
  BY <1>3, <1>6, <1>7 DEF IInv

(* An open is served.                                                       *)
LEMMA ServeOpenKeeps ==
  ASSUME IInv, Serve("open")
  PROVE  IInv'
<1>1. TypeInv /\ SettledInv /\ "open" \in Paths
  BY DEF IInv, Paths
<1> DEFINE h == Handled("open", calls["open"].id, calls["open"].data)
<1>2. /\ FadesTo(h.sess)
      /\ h.answer \in Answers
      /\ h.answer.state = "ok" => h.answer.reply.id \in DOMAIN h.sess
  BY <1>1, OpenHandled
<1>3. sess' = h.sess /\ (h.answer \in Answers =>
                          Phase(calls'["open"]) = h.answer.state /\ calls'["open"].answer = h.answer)
  BY <1>1, ServeFacts
<1>4. sess' \in Seq(Entries) /\ Ids \subseteq DOMAIN sess' /\ FadesTo(sess')
  BY <1>2, <1>3 DEF FadesTo
<1>5. h.answer \in Answers
      /\ (Phase(calls'["open"]) = "ok" => calls'["open"].answer.reply.id \in DOMAIN sess')
  BY <1>2, <1>3
<1>6. TypeInv' /\ ClientInv'
  BY <1>1, <1>4, <1>5, ServeTypes
<1> QED
  BY <1>4, <1>6, ServeOther

(* A close is served: the streams end as a whole.                           *)
LEMMA ServeCloseKeeps ==
  ASSUME IInv, Serve("close")
  PROVE  IInv'
<1>1. TypeInv /\ SettledInv /\ "close" \in Paths /\ "close" # "open"
  BY DEF IInv, Paths
<1> DEFINE h == Handled("close", calls["close"].id, calls["close"].data)
<1>2. sess' = h.sess /\ calls["close"].id \in Ids
  BY <1>1, ServeFacts
<1>3. FadesTo(h.sess) /\ h.answer \in Answers
  <2>1. CASE sess[calls["close"].id].held
    BY <1>1, <1>2, <2>1, CloseHandled
  <2>2. CASE ~sess[calls["close"].id].held
    <3>1. h.sess = sess /\ h.answer \in Answers
      BY <1>1, <2>2, GoneHandled
    <3> QED
      BY <1>1, <3>1, SameSessions
  <2> QED
    BY <2>1, <2>2
<1>4. sess' \in Seq(Entries) /\ Ids \subseteq DOMAIN sess' /\ FadesTo(sess')
  BY <1>2, <1>3 DEF FadesTo
<1>5. TypeInv' /\ ClientInv'
  BY <1>1, <1>3, <1>4, ServeTypes
<1> QED
  BY <1>4, <1>5, ServeOther

(* A send or a poll comes too late.                                         *)
LEMMA ServeRefusedKeeps ==
  ASSUME IInv, NEW path \in {"send", "poll"}, Serve(path), ~Mine.held
  PROVE  IInv'
<1>1. TypeInv /\ SettledInv /\ ClientInv /\ SendInv /\ PollInv /\ path \in Paths \ {"open"}
  BY DEF IInv, Paths
<1> DEFINE h == Handled(path, calls[path].id, calls[path].data)
<1>2. /\ sess' = h.sess /\ UNCHANGED <<kind, strays, pipe, repeated>>
      /\ Phase(calls[path]) = "pending"
      /\ calls[path].id = pipe.id /\ pipe.id \in Ids
      /\ \A p \in Paths \ {path} : calls'[p] = calls[p]
      /\ (h.answer \in Answers => Phase(calls'[path]) = h.answer.state)
  BY <1>1, ServeFacts
<1>3. ~sess[calls[path].id].held
  BY <1>2 DEF Mine
<1>4. h.sess = sess /\ h.answer \in Answers /\ h.answer.state = "refused"
  BY <1>1, <1>3, GoneHandled
<1> HIDE DEF h
<1>5. sess' = sess /\ Phase(calls'[path]) = "refused" /\ DOMAIN sess' = Ids /\ sess' \in Seq(Entries)
  BY <1>1, <1>2, <1>4 DEF Ids, TypeInv
<1>6. TypeInv' /\ ClientInv'
  BY <1>1, <1>4, <1>5, ServeTypes DEF h
<1>7. FadesTo(sess')
  BY <1>1, <1>5, SameSessions
<1>8. SettledInv'
  BY <1>1, <1>2, <1>7, FadesToSettled
<1>9. Mine' = Mine /\ StrayOf("send")' = StrayOf("send") /\ StrayOf("poll")' = StrayOf("poll")
  BY <1>2, <1>5 DEF Mine, StrayOf
<1>10. Mine \in Entries /\ pipe.sent \in Nat /\ pipe.out \in Seq(Nat)
  BY <1>2, MineFacts
<1>11. SendInv'
  <2>1. CASE path = "send"
    <3>1. SUFFICES ASSUME pipe.id # 0, ~repeated
                   PROVE  /\ SendOK(Mine, pipe.sent, pipe.reader, calls'["send"], StrayOf("send"))
                          /\ \A q \in strays : q.path = "send" => q.data = pipe.sent
      BY <1>2, <1>9 DEF SendInv
    <3>2. /\ SendOK(Mine, pipe.sent, pipe.reader, calls["send"], StrayOf("send"))
          /\ \A q \in strays : q.path = "send" => q.data = pipe.sent
      BY <1>1, <3>1 DEF SendInv
    <3>3. Phase(calls["send"]) = "pending" /\ Phase(calls'["send"]) = "refused"
      BY <1>2, <1>5, <2>1
    <3> QED
      BY <1>10, <3>2, <3>3, SendRefused
  <2>2. CASE path # "send"
    <3>1. calls'["send"] = calls["send"]
      BY <1>2, <2>2 DEF Paths
    <3> QED
      BY <1>1, <1>2, <1>9, <3>1 DEF SendInv
  <2> QED
    BY <2>1, <2>2
<1>12. PollInv'
  <2>1. CASE path = "poll"
    <3>1. SUFFICES ASSUME pipe.id # 0, ~repeated
                   PROVE  PollOK(Mine, pipe.out, pipe.poller, calls'["poll"], pipe.why, StrayOf("poll"))
      BY <1>2, <1>9 DEF PollInv
    <3>2. PollOK(Mine, pipe.out, pipe.poller, calls["poll"], pipe.why, StrayOf("poll"))
      BY <1>1, <3>1 DEF PollInv
    <3>3. Phase(calls["poll"]) = "pending" /\ Phase(calls'["poll"]) = "refused"
      BY <1>2, <1>5, <2>1
    <3> QED
      BY <1>10, <3>2, <3>3, PollRefused
  <2>2. CASE path # "poll"
    <3>1. calls'["poll"] = calls["poll"]
      BY <1>2, <2>2 DEF Paths
    <3> QED
      BY <1>1, <1>2, <1>9, <3>1 DEF PollInv
  <2> QED
    BY <2>1, <2>2
<1> QED
  BY <1>6, <1>8, <1>11, <1>12 DEF IInv

(* A send is served: its chunk is the one after all that were.              *)
LEMMA ServeSendKeeps ==
  ASSUME IInv, Serve("send"), Mine.held
  PROVE  IInv'
<1>1. TypeInv /\ SettledInv /\ ClientInv /\ SendInv /\ PollInv /\ "send" \in Paths /\ "send" # "open"
  BY DEF IInv, Paths
<1> DEFINE data == calls["send"].data
           h == Handled("send", calls["send"].id, data)
<1>2. /\ sess' = h.sess /\ UNCHANGED <<kind, strays, pipe, repeated>>
      /\ Phase(calls["send"]) = "pending"
      /\ calls["send"].id = pipe.id /\ pipe.id \in Ids /\ data \in Nat
      /\ \A p \in Paths \ {"send"} : calls'[p] = calls[p]
      /\ (h.answer \in Answers => Phase(calls'["send"]) = h.answer.state)
  BY <1>1, ServeFacts
<1>3. /\ \E f : Sends(sess[calls["send"].id], f, data) /\ h.sess = [sess EXCEPT ![calls["send"].id] = f]
      /\ h.answer \in Answers /\ h.answer.state = "ok"
  <2>1. calls["send"].id \in Ids /\ sess[calls["send"].id].held
    BY <1>2 DEF Mine
  <2> QED
    BY <1>1, <1>2, <2>1, SendHandled
<1> HIDE DEF h
<1>4. PICK f : Sends(Mine, f, data) /\ sess' = [sess EXCEPT ![pipe.id] = f]
  BY <1>2, <1>3 DEF Mine
<1>5. f \in Entries /\ Settled(kind, f) /\ kind' = kind /\ pipe' = pipe
      /\ repeated' = repeated /\ strays' = strays /\ pipe.id \in Ids /\ pipe'.id = pipe.id
  BY <1>2, <1>4 DEF Sends
<1>6. sess' \in Seq(Entries) /\ DOMAIN sess' = Ids /\ sess'[pipe.id] = f /\ SettledInv'
  BY <1>1, <1>4, <1>5, OneChanged
<1>7. TypeInv' /\ ClientInv'
  BY <1>1, <1>3, <1>6, ServeTypes DEF h
<1>8. Mine \in Entries /\ pipe.sent \in Nat
  BY <1>2, MineFacts
<1>9. data = pipe.sent
  BY <1>1, <1>2 DEF ClientInv, PhaseOf
<1>10. SendInv'
  <2>1. SUFFICES ASSUME pipe.id # 0, ~repeated
                 PROVE  /\ SendOK(f, pipe.sent, pipe.reader, calls'["send"], StrayOf("send"))
                        /\ \A q \in strays : q.path = "send" => q.data = pipe.sent
    BY <1>5, <1>6 DEF SendInv, Mine, StrayOf
  <2>2. /\ SendOK(Mine, pipe.sent, pipe.reader, calls["send"], StrayOf("send"))
        /\ \A q \in strays : q.path = "send" => q.data = pipe.sent
    BY <1>1, <2>1 DEF SendInv
  <2>3. Phase(calls["send"]) = "pending" /\ Phase(calls'["send"]) = "ok"
    BY <1>2, <1>3
  <2>4. f.got = Mine.got /\ (f.up => Mine.up /\ f.pend = Append(Mine.pend, pipe.sent))
    BY <1>4, <1>9 DEF Sends
  <2> QED
    BY <1>5, <1>8, <2>2, <2>3, <2>4, SendServed
<1>11. CallMoves(calls["poll"], calls'["poll"])
  BY <1>2 DEF CallMoves, Paths
<1>12. PollKept(sess[pipe.id], sess'[pipe.id])
  BY <1>4, <1>6 DEF Sends, Mine
<1>13. PollInv'
  BY <1>1, <1>2, <1>6, <1>7, <1>11, <1>12, PollCarried
<1> QED
  BY <1>6, <1>7, <1>10, <1>13 DEF IInv

(* A poll is served: what waited is in its answer.                          *)
LEMMA ServePollKeeps ==
  ASSUME IInv, Serve("poll"), Mine.held
  PROVE  IInv'
<1>1. TypeInv /\ SettledInv /\ ClientInv /\ SendInv /\ PollInv /\ "poll" \in Paths /\ "poll" # "open"
  BY DEF IInv, Paths
<1> DEFINE data == calls["poll"].data
           h == Handled("poll", calls["poll"].id, data)
<1>2. /\ sess' = h.sess /\ UNCHANGED <<kind, strays, pipe, repeated>>
      /\ Phase(calls["poll"]) = "pending"
      /\ calls["poll"].id = pipe.id /\ pipe.id \in Ids
      /\ \A p \in Paths \ {"poll"} : calls'[p] = calls[p]
      /\ (h.answer \in Answers => /\ Phase(calls'["poll"]) = h.answer.state
                                  /\ calls'["poll"].answer = h.answer)
  BY <1>1, ServeFacts
<1>3. /\ \E f : Polls(sess[calls["poll"].id], f) /\ h.sess = [sess EXCEPT ![calls["poll"].id] = f]
      /\ h.answer \in Answers /\ h.answer.state = "ok"
      /\ h.answer.reply.data = sess[calls["poll"].id].chunks
      /\ h.answer.reply.closed = sess[calls["poll"].id].closed
  <2>1. calls["poll"].id \in Ids /\ sess[calls["poll"].id].held
    BY <1>2 DEF Mine
  <2> QED
    BY <1>1, <2>1, PollHandled
<1> HIDE DEF h
<1>4. PICK f : Polls(Mine, f) /\ sess' = [sess EXCEPT ![pipe.id] = f]
  BY <1>2, <1>3 DEF Mine
<1>5. f \in Entries /\ Settled(kind, f) /\ kind' = kind /\ pipe' = pipe
      /\ repeated' = repeated /\ strays' = strays /\ pipe.id \in Ids /\ pipe'.id = pipe.id
  BY <1>2, <1>4 DEF Polls
<1>6. sess' \in Seq(Entries) /\ DOMAIN sess' = Ids /\ sess'[pipe.id] = f /\ SettledInv'
  BY <1>1, <1>4, <1>5, OneChanged
<1>7. TypeInv' /\ ClientInv'
  BY <1>1, <1>3, <1>6, ServeTypes DEF h
<1>8. Mine \in Entries /\ pipe.out \in Seq(Nat)
  BY <1>2, MineFacts
<1>9. Phase(calls'["poll"]) = "ok" /\ calls'["poll"].answer.reply.data = Mine.chunks
      /\ calls'["poll"].answer.reply.closed = Mine.closed
  BY <1>2, <1>3 DEF Mine
<1>10. DataOf(calls'["poll"]) = Mine.chunks /\ (EndOf(calls'["poll"]) => Mine.closed)
  BY <1>9 DEF DataOf, EndOf
<1>11. PollInv'
  <2>1. SUFFICES ASSUME pipe.id # 0, ~repeated
                 PROVE  PollOK(f, pipe.out, pipe.poller, calls'["poll"], pipe.why, StrayOf("poll"))
    BY <1>5, <1>6 DEF PollInv, Mine, StrayOf
  <2>2. PollOK(Mine, pipe.out, pipe.poller, calls["poll"], pipe.why, StrayOf("poll"))
    BY <1>1, <2>1 DEF PollInv
  <2>3. f.made = Mine.made /\ f.chunks = <<>> /\ f.closed = Mine.closed /\ f.error = Mine.error
    BY <1>4 DEF Polls
  <2> QED
    BY <1>2, <1>5, <1>8, <1>9, <1>10, <2>2, <2>3, PollServed
<1>12. CallMoves(calls["send"], calls'["send"])
  BY <1>2 DEF CallMoves, Paths
<1>13. SendKept(sess[pipe.id], sess'[pipe.id])
  BY <1>4, <1>6 DEF Polls, Mine
<1>14. SendInv'
  BY <1>1, <1>2, <1>6, <1>7, <1>12, <1>13, SendCarried
<1> QED
  BY <1>6, <1>7, <1>11, <1>14 DEF IInv

(* Every request.                                                           *)
LEMMA ServeKeeps ==
  ASSUME IInv, NEW path \in Paths, Serve(path)
  PROVE  IInv'
<1>1. path \in {"open", "close", "send", "poll"}
  BY DEF Paths
<1>2. CASE path = "open"
  BY <1>2, ServeOpenKeeps
<1>3. CASE path = "close"
  BY <1>3, ServeCloseKeeps
<1>4. CASE path = "send"
  BY <1>4, ServeSendKeeps, ServeRefusedKeeps
<1>5. CASE path = "poll"
  BY <1>5, ServePollKeeps, ServeRefusedKeeps
<1> QED
  BY <1>1, <1>2, <1>3, <1>4, <1>5

-----------------------------------------------------------------------------
(* One is served whose client no longer waits *)

(* A request its client gave up names the client's session.                 *)
LEMMA StrayFacts ==
  ASSUME IInv, NEW q \in strays, ServeStray(q)
  PROVE  /\ sess' = Handled(q.path, q.id, q.data).sess
         /\ UNCHANGED <<kind, calls, pipe, repeated>> /\ strays' = strays \ {q}
         /\ q.path \in Paths /\ q.id \in Nat /\ q.data \in Nat
         /\ q.path # "open" => q.id = pipe.id /\ pipe.id \in Ids /\ StrayOf(q.path)
<1>1. TypeInv /\ ClientInv
  BY DEF IInv
<1>2. q.path \in Paths /\ q.id \in Nat /\ q.data \in Nat
  BY <1>1 DEF TypeInv, Requests
<1>3. StrayOf(q.path)
  BY DEF StrayOf
<1>4. q.path # "open" => q.id = pipe.id /\ pipe.id \in Ids
  BY <1>1, <1>2, <1>3 DEF ClientInv
<1> QED
  BY <1>2, <1>3, <1>4 DEF ServeStray

(* The types after it was served.                                           *)
LEMMA StrayTypes ==
  ASSUME IInv, NEW q \in strays, ServeStray(q),
         sess' \in Seq(Entries), Ids \subseteq DOMAIN sess'
  PROVE  TypeInv' /\ ClientInv'
<1>1. TypeInv /\ ClientInv
  BY DEF IInv
<1>2. UNCHANGED <<kind, calls, pipe, repeated>> /\ strays' = strays \ {q}
  BY StrayFacts
<1>3. TypeInv'
  BY <1>1, <1>2 DEF TypeInv
<1>4. \A p \in Paths : Phase(calls'[p]) # "none" =>
         PhaseOf(p) # "none" /\ calls'[p].id = calls[p].id /\ calls'[p].data = calls[p].data
  BY <1>2 DEF PhaseOf
<1>5. Phase(calls'["open"]) = "ok" => calls'["open"].answer.reply.id \in DOMAIN sess'
  <2>1. Phase(calls["open"]) = "ok" => calls["open"].answer.reply.id \in Ids
    BY <1>1 DEF ClientInv, PhaseOf
  <2> QED
    BY <1>2, <2>1
<1>6. \A r \in strays' : r \in strays
  BY <1>2
<1>7. kind' = kind /\ pipe' = pipe
  BY <1>2
<1>8. ClientInv'
  BY <1>1, <1>3, <1>4, <1>5, <1>6, <1>7, ClientCarried
<1> QED
  BY <1>3, <1>8

(* An open, a close, or a request for a session that is gone.               *)
LEMMA StrayFadingKeeps ==
  ASSUME IInv, NEW q \in strays, ServeStray(q), FadesTo(sess')
  PROVE  IInv'
<1>1. TypeInv /\ SettledInv /\ ClientInv /\ SendInv /\ PollInv
  BY DEF IInv
<1>2. UNCHANGED <<kind, calls, pipe, repeated>> /\ strays' = strays \ {q}
  BY StrayFacts
<1>3. SettledInv'
  BY <1>1, <1>2, FadesToSettled
<1>4. /\ Ids \subseteq DOMAIN sess'
      /\ pipe.id # 0 => SendKept(sess[pipe.id], sess'[pipe.id]) /\ PollKept(sess[pipe.id], sess'[pipe.id])
  BY <1>1, FadesToCarries
<1>5. sess' \in Seq(Entries)
  BY DEF FadesTo
<1>6. TypeInv' /\ ClientInv'
  BY <1>4, <1>5, StrayTypes
<1>7. CallMoves(calls["send"], calls'["send"]) /\ CallMoves(calls["poll"], calls'["poll"])
  BY <1>2 DEF CallMoves
<1>8. \A r \in strays' : r \in strays
  BY <1>2
<1>9. SendInv'
  BY <1>1, <1>2, <1>4, <1>6, <1>7, <1>8, SendCarried
<1>10. PollInv'
  BY <1>1, <1>2, <1>4, <1>6, <1>7, <1>8, PollCarried
<1> QED
  BY <1>3, <1>6, <1>9, <1>10 DEF IInv

(* A send that was given up is served: it was the last the client makes,    *)
(* and its chunk is the next.                                               *)
LEMMA StraySendKeeps ==
  ASSUME IInv, NEW q \in strays, ServeStray(q), q.path = "send", Mine.held
  PROVE  IInv'
<1>1. TypeInv /\ SettledInv /\ ClientInv /\ SendInv /\ PollInv
  BY DEF IInv
<1> DEFINE h == Handled("send", q.id, q.data)
<1>2. /\ sess' = h.sess /\ UNCHANGED <<kind, calls, pipe, repeated>> /\ strays' = strays \ {q}
      /\ q.id = pipe.id /\ pipe.id \in Ids /\ q.data \in Nat /\ StrayOf("send")
  BY StrayFacts
<1>3. \E f : Sends(sess[q.id], f, q.data) /\ h.sess = [sess EXCEPT ![q.id] = f]
  <2>1. q.id \in Ids /\ sess[q.id].held
    BY <1>2 DEF Mine
  <2> QED
    BY <1>1, <1>2, <2>1, SendHandled
<1> HIDE DEF h
<1>4. PICK f : Sends(Mine, f, q.data) /\ sess' = [sess EXCEPT ![pipe.id] = f]
  BY <1>2, <1>3 DEF Mine
<1>5. f \in Entries /\ Settled(kind, f) /\ kind' = kind /\ pipe' = pipe /\ repeated' = repeated
  BY <1>2, <1>4 DEF Sends
<1>6. sess' \in Seq(Entries) /\ DOMAIN sess' = Ids /\ sess'[pipe.id] = f /\ SettledInv'
  <2>1. pipe.id \in Ids
    BY <1>2
  <2> QED
    BY <1>1, <1>4, <1>5, <2>1, OneChanged
<1>7. TypeInv' /\ ClientInv'
  BY <1>6, StrayTypes
<1>8. Mine \in Entries /\ pipe.sent \in Nat
  BY <1>2, MineFacts
<1>9. SendInv'
  <2>1. SUFFICES ASSUME pipe.id # 0, ~repeated
                 PROVE  /\ SendOK(f, pipe.sent, pipe.reader, calls["send"], StrayOf("send")')
                        /\ \A r \in strays' : r.path = "send" => r.data = pipe.sent
    BY <1>2, <1>5, <1>6 DEF SendInv, Mine
  <2>2. /\ SendOK(Mine, pipe.sent, pipe.reader, calls["send"], StrayOf("send"))
        /\ \A r \in strays : r.path = "send" => r.data = pipe.sent
    BY <1>1, <2>1 DEF SendInv
  <2>3. f.got = Mine.got /\ (f.up => Mine.up /\ f.pend = Append(Mine.pend, pipe.sent))
    BY <1>4, <2>2 DEF Sends
  <2>4. ~StrayOf("send")'
    <3>1. SUFFICES ASSUME NEW r \in strays, r.path = "send" PROVE r = q
      BY <1>2 DEF StrayOf
    <3>2. r.id = pipe.id /\ r.data = pipe.sent /\ q.data = pipe.sent
      BY <1>1, <2>2, <3>1 DEF ClientInv
    <3>3. r \in Requests /\ q \in Requests
      BY <1>1 DEF TypeInv
    <3> QED
      BY <1>2, <3>1, <3>2, <3>3 DEF Requests
  <2>5. SendOK(f, pipe.sent, pipe.reader, calls["send"], StrayOf("send")')
    BY <1>2, <1>5, <1>8, <2>2, <2>3, <2>4, SendServed
  <2> QED
    BY <1>2, <2>2, <2>5
<1>10. CallMoves(calls["poll"], calls'["poll"])
  BY <1>2 DEF CallMoves
<1>11. PollKept(sess[pipe.id], sess'[pipe.id])
  BY <1>4, <1>6 DEF Sends, Mine
<1>12. \A r \in strays' : r \in strays
  BY <1>2
<1>13. PollInv'
  BY <1>1, <1>2, <1>6, <1>7, <1>10, <1>11, <1>12, PollCarried
<1> QED
  BY <1>6, <1>7, <1>9, <1>13 DEF IInv

(* A poll that was given up is served: what it drains is lost, and no other *)
(* will be asked.                                                           *)
LEMMA StrayPollKeeps ==
  ASSUME IInv, NEW q \in strays, ServeStray(q), q.path = "poll", Mine.held
  PROVE  IInv'
<1>1. TypeInv /\ SettledInv /\ ClientInv /\ SendInv /\ PollInv
  BY DEF IInv
<1> DEFINE h == Handled("poll", q.id, q.data)
<1>2. /\ sess' = h.sess /\ UNCHANGED <<kind, calls, pipe, repeated>> /\ strays' = strays \ {q}
      /\ q.id = pipe.id /\ pipe.id \in Ids /\ StrayOf("poll")
  BY StrayFacts
<1>3. \E f : Polls(sess[q.id], f) /\ h.sess = [sess EXCEPT ![q.id] = f]
  <2>1. q.id \in Ids /\ sess[q.id].held
    BY <1>2 DEF Mine
  <2> QED
    BY <1>1, <2>1, PollHandled
<1> HIDE DEF h
<1>4. PICK f : Polls(Mine, f) /\ sess' = [sess EXCEPT ![pipe.id] = f]
  BY <1>2, <1>3 DEF Mine
<1>5. f \in Entries /\ Settled(kind, f) /\ kind' = kind /\ pipe' = pipe /\ repeated' = repeated
  BY <1>2, <1>4 DEF Polls
<1>6. sess' \in Seq(Entries) /\ DOMAIN sess' = Ids /\ sess'[pipe.id] = f /\ SettledInv'
  <2>1. pipe.id \in Ids
    BY <1>2
  <2> QED
    BY <1>1, <1>4, <1>5, <2>1, OneChanged
<1>7. TypeInv' /\ ClientInv'
  BY <1>6, StrayTypes
<1>8. Mine \in Entries /\ pipe.out \in Seq(Nat)
  BY <1>2, MineFacts
<1>9. PollInv'
  <2>1. SUFFICES ASSUME pipe.id # 0, ~repeated
                 PROVE  PollOK(f, pipe.out, pipe.poller, calls["poll"], pipe.why, StrayOf("poll")')
    BY <1>2, <1>5, <1>6 DEF PollInv, Mine
  <2>2. PollOK(Mine, pipe.out, pipe.poller, calls["poll"], pipe.why, StrayOf("poll"))
    BY <1>1, <2>1 DEF PollInv
  <2>3. f.made = Mine.made /\ f.closed = Mine.closed /\ f.error = Mine.error
    BY <1>4 DEF Polls
  <2> QED
    BY <1>2, <1>5, <1>8, <2>2, <2>3, PollStrayServed
<1>10. CallMoves(calls["send"], calls'["send"])
  BY <1>2 DEF CallMoves
<1>11. SendKept(sess[pipe.id], sess'[pipe.id])
  BY <1>4, <1>6 DEF Polls, Mine
<1>12. \A r \in strays' : r \in strays
  BY <1>2
<1>13. SendInv'
  BY <1>1, <1>2, <1>6, <1>7, <1>10, <1>11, <1>12, SendCarried
<1> QED
  BY <1>6, <1>7, <1>9, <1>13 DEF IInv

(* Every request nobody waits for.                                          *)
LEMMA StrayKeeps ==
  ASSUME IInv, NEW q \in strays, ServeStray(q)
  PROVE  IInv'
<1>1. TypeInv /\ SettledInv
  BY DEF IInv
<1>2. /\ sess' = Handled(q.path, q.id, q.data).sess
      /\ q.path \in {"open", "send", "poll", "close"}
      /\ q.path # "open" => q.id = pipe.id /\ pipe.id \in Ids
  BY StrayFacts DEF Paths
<1>3. CASE q.path = "open"
  <2>1. FadesTo(sess')
    BY <1>1, <1>2, <1>3, OpenHandled
  <2> QED
    BY <2>1, StrayFadingKeeps
<1>4. CASE q.path # "open" /\ ~Mine.held
  <2>1. ~sess[q.id].held /\ q.path \in Paths \ {"open"}
    BY <1>2, <1>4 DEF Mine, Paths
  <2>2. sess' = sess
    BY <1>2, <2>1, GoneHandled
  <2>3. FadesTo(sess')
    BY <1>1, <2>2, SameSessions
  <2> QED
    BY <2>3, StrayFadingKeeps
<1>5. CASE q.path = "close" /\ Mine.held
  <2>1. q.id \in Ids /\ sess[q.id].held
    BY <1>2, <1>5 DEF Mine
  <2>2. FadesTo(sess')
    BY <1>1, <1>2, <1>5, <2>1, CloseHandled
  <2> QED
    BY <2>2, StrayFadingKeeps
<1>6. CASE q.path = "send" /\ Mine.held
  BY <1>6, StraySendKeeps
<1>7. CASE q.path = "poll" /\ Mine.held
  BY <1>7, StrayPollKeeps
<1> QED
  BY <1>2, <1>3, <1>4, <1>5, <1>6, <1>7

-----------------------------------------------------------------------------
(* A call goes wrong *)

(* A call as a request on the way.                                          *)
Request(path) == [path |-> path, id |-> calls[path].id, data |-> calls[path].data]

(* A call that is out, and its request.                                     *)
LEMMA OutFacts ==
  ASSUME TypeInv, NEW path \in Paths, Out(path)
  PROVE  /\ calls[path] \in AskedCalls
         /\ Phase(calls[path]) # "none" /\ calls[path].answer.state = Phase(calls[path])
         /\ calls[path].at \in Nat
         /\ Request(path) \in Requests
<1> DEFINE c == calls[path]
<1>1. c \in Calls /\ c.state = "out"
  BY DEF TypeInv, Out
<1> HIDE DEF c
<1>2. c \in AskedCalls /\ Phase(c) # "none" /\ Phase(c) = c.answer.state
  BY <1>1, CallFacts
<1>3. c.at \in Nat /\ c.id \in Nat /\ c.data \in Nat
  BY <1>2 DEF AskedCalls
<1>4. [path |-> path, id |-> c.id, data |-> c.data] \in Requests
  BY <1>3 DEF Requests
<1> QED
  BY <1>2, <1>3, <1>4 DEF c, Request

(* The next address is asked, or the call has failed.                       *)
LEMMA TriedFacts ==
  ASSUME TypeInv, NEW path \in Paths, Out(path)
  PROVE  \E d \in Calls : /\ TriedNext(path) = [calls EXCEPT ![path] = d]
                          /\ Phase(d) = IF calls[path].at < Addresses THEN "pending" ELSE "failed"
                          /\ d.id = calls[path].id /\ d.data = calls[path].data
<1> DEFINE c == calls[path]
           n == c.at + 1
           b == [c EXCEPT !.at = n, !.answer = Pending]
           f == [c EXCEPT !.answer = [state |-> "failed"]]
<1>1. c \in AskedCalls /\ n \in Nat
  BY OutFacts
<1>2. TriedNext(path) = IF c.at < Addresses THEN [calls EXCEPT ![path] = b] ELSE [calls EXCEPT ![path] = f]
  BY DEF TriedNext, TypeInv
<1> HIDE DEF c, n
<1>3. Pending.state = "pending" /\ [state |-> "failed"].state = "failed"
  BY DEF Pending
<1>4. b \in Calls /\ Phase(b) = "pending" /\ b.id = c.id /\ b.data = c.data
  <2> DEFINE g == [c EXCEPT !.at = n]
             a == Pending
  <2>1. g \in AskedCalls /\ g.id = c.id /\ g.data = c.data
    BY <1>1 DEF AskedCalls
  <2>2. a \in Answers /\ a.state = "pending"
    BY <1>3, AnswerFacts
  <2>3. b = [g EXCEPT !.answer = a]
    OBVIOUS
  <2> HIDE DEF a, b, g
  <2> QED
    BY <2>1, <2>2, <2>3, AnsweredFacts
<1>5. f \in Calls /\ Phase(f) = "failed" /\ f.id = c.id /\ f.data = c.data
  <2> DEFINE a == [state |-> "failed"]
  <2>1. a \in Answers /\ a.state = "failed"
    BY AnswerFacts
  <2> HIDE DEF a
  <2>2. [c EXCEPT !.answer = a] \in Calls /\ Phase([c EXCEPT !.answer = a]) = "failed"
        /\ [c EXCEPT !.answer = a].id = c.id /\ [c EXCEPT !.answer = a].data = c.data
    BY <1>1, <2>1, AnsweredFacts
  <2> QED
    BY <2>2 DEF a
<1> HIDE DEF b, f
<1>6. CASE c.at < Addresses
  BY <1>2, <1>4, <1>6 DEF c
<1>7. CASE ~(c.at < Addresses)
  BY <1>2, <1>5, <1>7 DEF c
<1> QED
  BY <1>6, <1>7

(* However a call goes wrong, the invariant is kept: what it might have     *)
(* done twice is in `repeated`.                                             *)
LEMMA CallGoesWrong ==
  ASSUME IInv, NEW path \in Paths, Out(path), NEW d \in Calls,
         UNCHANGED <<kind, sess, pipe>>, calls' = [calls EXCEPT ![path] = d],
         d.id = calls[path].id, d.data = calls[path].data,
         Phase(d) \in {"pending", "failed"},
         \/ Phase(d) = "failed"
         \/ Phase(calls[path]) \in {"pending", "refused"}
         \/ repeated',
         repeated' \in BOOLEAN, repeated => repeated',
         \/ strays' = strays
         \/ /\ strays' = strays \cup {Request(path)}
            /\ Phase(calls[path]) = "pending"
            /\ Phase(d) = "failed" \/ repeated'
  PROVE  IInv'
<1>1. TypeInv /\ SettledInv /\ ClientInv /\ SendInv /\ PollInv
  BY DEF IInv
<1>2. Phase(calls[path]) # "none" /\ Request(path) \in Requests
  BY <1>1, OutFacts
<1>3. /\ calls'[path] = d /\ \A p \in Paths \ {path} : calls'[p] = calls[p]
      /\ calls' \in [Paths -> Calls]
  BY <1>1 DEF TypeInv
<1>4. TypeInv'
  BY <1>1, <1>2, <1>3 DEF TypeInv
<1>5. SettledInv'
  BY <1>1 DEF SettledInv, Ids
<1>6. Ids \subseteq DOMAIN sess' /\ sess' = sess /\ pipe' = pipe /\ kind' = kind
  BY DEF Ids
<1>7. \A p \in Paths : Phase(calls'[p]) # "none" =>
         PhaseOf(p) # "none" /\ calls'[p].id = calls[p].id /\ calls'[p].data = calls[p].data
  BY <1>2, <1>3 DEF PhaseOf
<1>8. Phase(calls'["open"]) = "ok" => calls'["open"].answer.reply.id \in DOMAIN sess'
  <2>1. Phase(calls'["open"]) = "ok" => calls'["open"] = calls["open"]
    BY <1>3 DEF Paths
  <2>2. Phase(calls["open"]) = "ok" => calls["open"].answer.reply.id \in Ids
    BY <1>1 DEF ClientInv, PhaseOf
  <2> QED
    BY <1>6, <2>1, <2>2
<1>9. \A q \in strays' : \/ q \in strays
                         \/ /\ q.path = path /\ q.id = calls[path].id /\ q.data = calls[path].data
                            /\ Phase(calls[path]) = "pending"
                            /\ Phase(d) = "failed" \/ repeated'
  BY DEF Request
<1>10. \A q \in strays' : q \in strays \/ (PhaseOf(q.path) # "none" /\ q.id = calls[q.path].id)
  BY <1>2, <1>9 DEF PhaseOf
<1>11. ClientInv'
  BY <1>1, <1>4, <1>6, <1>7, <1>8, <1>10, ClientCarried
<1>12. CASE repeated'
  BY <1>4, <1>5, <1>11, <1>12 DEF IInv, SendInv, PollInv
<1>13. CASE ~repeated'
  <2>1. CallMoves(calls[path], d)
    BY <1>2, <1>13 DEF CallMoves
  <2>2. CallMoves(calls["send"], calls'["send"]) /\ CallMoves(calls["poll"], calls'["poll"])
    BY <1>3, <2>1 DEF CallMoves, Paths
  <2>3. pipe.id # 0 => SendKept(sess[pipe.id], sess'[pipe.id]) /\ PollKept(sess[pipe.id], sess'[pipe.id])
    BY <1>6 DEF SendKept, PollKept
  <2>4. \A q \in strays' : q.path = "send" =>
            \/ q \in strays
            \/ /\ Phase(calls["send"]) = "pending" /\ Phase(calls'["send"]) \in {"none", "failed"}
               /\ pipe'.reader # "read" /\ q.data = pipe.sent
    <3>1. SUFFICES ASSUME NEW q \in strays', q.path = "send", q \notin strays
                   PROVE  /\ Phase(calls["send"]) = "pending" /\ Phase(calls'["send"]) = "failed"
                          /\ pipe'.reader # "read" /\ q.data = pipe.sent
      OBVIOUS
    <3>2. /\ path = "send" /\ q.data = calls["send"].data /\ Phase(calls["send"]) = "pending"
          /\ Phase(calls'["send"]) = "failed"
      BY <1>3, <1>9, <1>13, <3>1
    <3> QED
      BY <1>1, <1>6, <3>2 DEF ClientInv, PhaseOf
  <2>5. \A q \in strays' : q.path = "poll" =>
            \/ q \in strays
            \/ /\ Phase(calls["poll"]) = "pending" /\ Phase(calls'["poll"]) \in {"none", "failed"}
               /\ pipe'.poller # "off"
    <3>1. SUFFICES ASSUME NEW q \in strays', q.path = "poll", q \notin strays
                   PROVE  /\ Phase(calls["poll"]) = "pending" /\ Phase(calls'["poll"]) = "failed"
                          /\ pipe'.poller # "off"
      OBVIOUS
    <3>2. /\ path = "poll" /\ Phase(calls["poll"]) = "pending" /\ Phase(calls'["poll"]) = "failed"
      BY <1>3, <1>9, <1>13, <3>1
    <3> QED
      BY <1>1, <1>6, <3>2 DEF ClientInv, PhaseOf
  <2>6. SendInv'
    BY <1>1, <1>4, <1>6, <2>2, <2>3, <2>4, SendCarried
  <2>7. PollInv'
    BY <1>1, <1>4, <1>6, <2>2, <2>3, <2>5, PollCarried
  <2> QED
    BY <1>4, <1>5, <1>11, <2>6, <2>7 DEF IInv
<1> QED
  BY <1>12, <1>13

(* A refusal: nothing was done, and the next address may be asked.          *)
LEMMA TurnedAwayKeeps ==
  ASSUME IInv, NEW path \in Paths, TurnedAway(path)
  PROVE  IInv'
<1>1. TypeInv
  BY DEF IInv
<1>2. Out(path) /\ calls[path].answer.state = "refused" /\ calls' = TriedNext(path)
      /\ UNCHANGED <<kind, sess, strays, pipe, repeated>>
  BY DEF TurnedAway
<1>3. Phase(calls[path]) = "refused"
  BY <1>1, <1>2, OutFacts
<1>4. PICK d \in Calls : /\ calls' = [calls EXCEPT ![path] = d]
                         /\ Phase(d) = IF calls[path].at < Addresses THEN "pending" ELSE "failed"
                         /\ d.id = calls[path].id /\ d.data = calls[path].data
  BY <1>1, <1>2, TriedFacts
<1>5. Phase(d) \in {"pending", "failed"}
  BY <1>4
<1>6. repeated' \in BOOLEAN /\ (repeated => repeated')
  BY <1>1, <1>2 DEF TypeInv
<1> QED
  BY <1>2, <1>3, <1>4, <1>5, <1>6, CallGoesWrong

(* No address can be reached.                                               *)
LEMMA UnreachableKeeps ==
  ASSUME IInv, NEW path \in Paths, Unreachable(path)
  PROVE  IInv'
<1> DEFINE a == [state |-> "failed"]
           d == [calls[path] EXCEPT !.answer = a]
<1>1. TypeInv
  BY DEF IInv
<1>2. Out(path) /\ UNCHANGED <<kind, sess, strays, pipe, repeated>>
  BY DEF Unreachable
<1>3. calls' = [calls EXCEPT ![path] = d]
  BY <1>1 DEF Unreachable, TypeInv
<1>4. a \in Answers /\ a.state = "failed" /\ calls[path] \in AskedCalls
  BY <1>1, <1>2, OutFacts, AnswerFacts
<1> HIDE DEF a
<1>5. d \in Calls /\ Phase(d) = "failed" /\ d.id = calls[path].id /\ d.data = calls[path].data
  BY <1>4, AnsweredFacts
<1>6. repeated' \in BOOLEAN /\ (repeated => repeated')
  BY <1>1, <1>2 DEF TypeInv
<1> HIDE DEF d
<1> QED
  BY <1>2, <1>3, <1>5, <1>6, CallGoesWrong

(* A request or its answer is lost, or late.                                *)
LEMMA CutOffKeeps ==
  ASSUME IInv, NEW path \in Paths, CutOff(path)
  PROVE  IInv'
<1>1. TypeInv
  BY DEF IInv
<1> DEFINE again == calls[path].at < Addresses
<1>2. /\ Out(path) /\ calls[path].answer.state \in {"pending", "ok"}
      /\ calls' = TriedNext(path) /\ UNCHANGED <<kind, sess, pipe>>
      /\ \/ calls[path].answer = Pending /\ strays' = strays /\ repeated' = repeated
         \/ /\ calls[path].answer = Pending /\ strays' = strays \cup {Request(path)}
            /\ repeated' = (repeated \/ again)
         \/ strays' = strays /\ repeated' = (repeated \/ again)
  BY DEF CutOff, Request
<1>3. PICK d \in Calls : /\ calls' = [calls EXCEPT ![path] = d]
                         /\ Phase(d) = IF again THEN "pending" ELSE "failed"
                         /\ d.id = calls[path].id /\ d.data = calls[path].data
  BY <1>1, <1>2, TriedFacts
<1> HIDE DEF again
<1>4. calls[path].answer = Pending => Phase(calls[path]) = "pending"
  <2>1. Phase(calls[path]) = calls[path].answer.state /\ Pending.state = "pending"
    BY <1>1, <1>2, OutFacts DEF Pending
  <2> QED
    BY <2>1
<1>5. Phase(d) \in {"pending", "failed"} /\ (Phase(d) = "failed" \/ again)
  BY <1>3
<1>6. repeated \in BOOLEAN
  BY <1>1 DEF TypeInv
<1>7. CASE calls[path].answer = Pending /\ strays' = strays /\ repeated' = repeated
  BY <1>2, <1>3, <1>4, <1>5, <1>6, <1>7, CallGoesWrong
<1>8. CASE /\ calls[path].answer = Pending /\ strays' = strays \cup {Request(path)}
           /\ repeated' = (repeated \/ again)
  <2>1. repeated' \in BOOLEAN /\ (repeated => repeated') /\ (Phase(d) = "failed" \/ repeated')
    BY <1>5, <1>8
  <2> QED
    BY <1>2, <1>3, <1>4, <1>5, <1>8, <2>1, CallGoesWrong
<1>9. CASE strays' = strays /\ repeated' = (repeated \/ again)
  <2>1. repeated' \in BOOLEAN /\ (repeated => repeated') /\ (Phase(d) = "failed" \/ repeated')
    BY <1>5, <1>9
  <2> QED
    BY <1>2, <1>3, <1>5, <1>9, <2>1, CallGoesWrong
<1> QED
  BY <1>2, <1>7, <1>8, <1>9

-----------------------------------------------------------------------------
(* The client *)

(* The reasons a client has to end.                                         *)
Reasons == {"none", "failed", "input ended", "send closed", "poll closed", "mark", "polls", "died"}

(* What finish() leaves of the client: the first reason.                    *)
LEMMA FinishedFacts ==
  ASSUME NEW p \in Clients, NEW why \in Reasons
  PROVE  LET f == Finished(p, why) IN
         /\ f \in Clients
         /\ f.pc = p.pc /\ f.id = p.id /\ f.reader = p.reader /\ f.poller = p.poller
         /\ f.sent = p.sent /\ f.out = p.out
         /\ p.why # "none" => f.why = p.why
         /\ p.why = "none" => f.why = why
<1> DEFINE g == [p EXCEPT !.why = why]
<1>1. /\ g \in Clients
      /\ g.pc = p.pc /\ g.id = p.id /\ g.reader = p.reader /\ g.poller = p.poller
      /\ g.sent = p.sent /\ g.out = p.out /\ g.why = why
  BY DEF Clients, Reasons
<1> HIDE DEF g
<1>2. Finished(p, why) = IF p.why # "none" THEN p ELSE g
  BY DEF Finished, g
<1>3. CASE p.why # "none"
  BY <1>2, <1>3
<1>4. CASE p.why = "none"
  BY <1>1, <1>2, <1>4
<1> QED
  BY <1>3, <1>4

(* One call replaced.                                                       *)
LEMMA PutCall ==
  ASSUME NEW c \in [Paths -> Calls], NEW path \in Paths, NEW d \in Calls
  PROVE  LET e == [c EXCEPT ![path] = d] IN
         e \in [Paths -> Calls] /\ e[path] = d /\ \A p \in Paths \ {path} : e[p] = c[p]
OBVIOUS

(* The calls after one is back.                                             *)
LEMMA BackFacts ==
  ASSUME TypeInv, NEW path \in Paths
  PROVE  LET e == Back(path) IN
         /\ e \in [Paths -> Calls] /\ Phase(e[path]) = "none"
         /\ \A p \in Paths \ {path} : e[p] = calls[p]
BY NoCallFacts, PutCall DEF Back, TypeInv

(* The calls after one is made.                                             *)
LEMMA AskFacts ==
  ASSUME NEW c \in [Paths -> Calls], NEW path \in Paths, NEW id \in Nat, NEW data \in Nat
  PROVE  LET e == [c EXCEPT ![path] = Asked(path, id, data)] IN
         /\ e \in [Paths -> Calls]
         /\ Phase(e[path]) = "pending" /\ e[path].id = id /\ e[path].data = data
         /\ \A p \in Paths \ {path} : e[p] = c[p]
<1> DEFINE d == Asked(path, id, data)
<1>1. d \in Calls /\ Phase(d) = "pending" /\ d.id = id /\ d.data = data
  BY AskedFacts
<1> HIDE DEF d
<1>2. LET e == [c EXCEPT ![path] = d] IN
         /\ e \in [Paths -> Calls]
         /\ Phase(e[path]) = "pending" /\ e[path].id = id /\ e[path].data = data
         /\ \A p \in Paths \ {path} : e[p] = c[p]
  BY <1>1, PutCall
<1> QED
  BY <1>2 DEF d

(* The calls after finish(): at most a close more.                          *)
LEMMA ClosingFacts ==
  ASSUME NEW c \in [Paths -> Calls], NEW p \in Clients
  PROVE  LET e == Closing(c, p) IN
         /\ e \in [Paths -> Calls]
         /\ \A q \in Paths \ {"close"} : e[q] = c[q]
         /\ e["close"] = c["close"] \/ e["close"].id = p.id
<1>1. p.id \in Nat /\ 0 \in Nat /\ "close" \in Paths
  BY DEF Clients, Paths
<1> DEFINE g == [c EXCEPT !["close"] = Asked("close", p.id, 0)]
<1>2. /\ g \in [Paths -> Calls]
      /\ g["close"].id = p.id
      /\ \A q \in Paths \ {"close"} : g[q] = c[q]
  BY <1>1, AskFacts
<1>3. Closing(c, p) = IF p.why # "none" THEN c ELSE g
  BY DEF Closing
<1> HIDE DEF g
<1> QED
  BY <1>2, <1>3

(* What came back, or failed.                                               *)
LEMMA CameFacts ==
  ASSUME TypeInv, NEW path \in Paths, Came(path)
  PROVE  /\ Phase(calls[path]) \in {"ok", "failed"}
         /\ Failed(path) <=> Phase(calls[path]) = "failed"
         /\ Phase(calls[path]) = "ok" =>
              /\ Answer(path) \in Replies
              /\ DataOf(calls[path]) = Answer(path).data
              /\ EndOf(calls[path]) <=> Answer(path).closed
<1> DEFINE c == calls[path]
<1>1. c \in Calls /\ c.state = "out" /\ c.answer.state \in {"ok", "failed"}
  BY DEF TypeInv, Came, Out
<1>2. /\ Answer(path) = c.answer.reply /\ (Failed(path) <=> c.answer.state = "failed")
  BY DEF Answer, Failed
<1> HIDE DEF c
<1>3. Phase(c) = c.answer.state /\ (Phase(c) = "ok" => c.answer.reply \in Replies)
  BY <1>1, CallFacts
<1>4. Phase(c) = "ok" => DataOf(c) = c.answer.reply.data /\ (EndOf(c) <=> c.answer.reply.closed)
  BY DEF DataOf, EndOf
<1> QED
  BY <1>1, <1>2, <1>3, <1>4 DEF c

(* ClientInv after a step of a client that has its session, from what such  *)
(* a step must show.                                                        *)
LEMMA OnClient ==
  ASSUME ClientInv, Quiet, pipe.id # 0, pipe'.id = pipe.id, pipe'.pc \in {pipe.pc, "over"},
         calls'["open"] = calls["open"],
         \A p \in Paths \ {"open"} : Phase(calls'[p]) # "none" => calls'[p].id = pipe.id,
         Phase(calls'["send"]) # "none" => pipe'.reader = "send" /\ calls'["send"].data = pipe'.sent
                                            /\ (Shell => pipe'.poller = "off"),
         Phase(calls'["poll"]) # "none" => pipe'.poller = "poll",
         Shell => pipe'.sent <= 1 /\ (pipe'.reader = "read" => pipe'.sent = 0 /\ pipe'.poller = "off"),
         pipe'.why \in {"poll closed", "mark"} => pipe'.poller = "end",
         pipe'.why = "mark" => Shell
  PROVE  ClientInv'
<1>1. /\ sess' = sess /\ strays' = strays /\ (Shell' <=> Shell) /\ Ids' = Ids
  BY DEF Quiet, Shell, Ids
<1>2. pipe.pc \notin {"start", "opening"} /\ pipe'.pc \notin {"start", "opening"}
  BY DEF ClientInv
<1>3. PhaseOf("open")' = "none"
  BY <1>2 DEF ClientInv, PhaseOf
<1>4. \A q \in strays' : q.path = "open" \/ q.id = pipe.id
  BY <1>1 DEF ClientInv
<1>5. pipe.id \in Ids
  BY DEF ClientInv
<1> QED
  BY <1>1, <1>2, <1>3, <1>4, <1>5 DEF ClientInv, PhaseOf

(* A step of the client leaves the sessions, and what is on the way.        *)
LEMMA QuietTypes ==
  ASSUME TypeInv, SettledInv, Quiet, pipe' \in Clients, pipe'.id = pipe.id, calls' \in [Paths -> Calls]
  PROVE  TypeInv' /\ SettledInv'
<1>1. sess' = sess /\ kind' = kind /\ strays' = strays /\ repeated' = repeated
  BY DEF Quiet
<1>2. TypeInv'
  BY <1>1 DEF TypeInv
<1>3. SettledInv'
  BY <1>1 DEF SettledInv, Ids
<1> QED
  BY <1>2, <1>3

(* It keeps the stream in unless it sends or goes on to.                    *)
LEMMA QuietSend ==
  ASSUME TypeInv, TypeInv', ClientInv, SendInv, Quiet,
         pipe'.id = pipe.id, pipe'.sent = pipe.sent,
         CallMoves(calls["send"], calls'["send"]),
         pipe'.reader = "read" => pipe.reader = "read"
  PROVE  SendInv'
<1>1. /\ sess' = sess /\ strays' = strays /\ (repeated => repeated') /\ Ids \subseteq DOMAIN sess'
      /\ SendKept(sess[pipe.id], sess'[pipe.id])
  BY DEF Quiet, Ids, SendKept
<1>2. \A q \in strays' : q \in strays
  BY <1>1
<1> QED
  BY <1>1, <1>2, SendCarried

(* It keeps the stream out unless it polls or writes out.                   *)
LEMMA QuietPoll ==
  ASSUME TypeInv, TypeInv', ClientInv, PollInv, Quiet,
         pipe'.id = pipe.id, pipe'.out = pipe.out,
         CallMoves(calls["poll"], calls'["poll"]),
         pipe'.poller = "off" => pipe.poller = "off",
         pipe'.why \in {"poll closed", "mark"} => pipe'.why = pipe.why
  PROVE  PollInv'
<1>1. /\ sess' = sess /\ strays' = strays /\ (repeated => repeated') /\ Ids \subseteq DOMAIN sess'
      /\ PollKept(sess[pipe.id], sess'[pipe.id])
  BY DEF Quiet, Ids, PollKept
<1>2. \A q \in strays' : q \in strays
  BY <1>1
<1> QED
  BY <1>1, <1>2, PollCarried

-----------------------------------------------------------------------------
(* What the client does *)

(* The session of a client that has one.                                    *)
LEMMA MineOf ==
  ASSUME TypeInv, ClientInv, pipe.id # 0
  PROVE  pipe.id \in Ids /\ Mine \in Entries /\ pipe.id \in Nat
<1>1. pipe.id \in Ids
  BY DEF ClientInv
<1> QED
  BY <1>1, SessIsAFunction DEF Mine, TypeInv, Clients

(* The client asks for a session.                                           *)
LEMMA OpenKeeps ==
  ASSUME IInv, Open
  PROVE  IInv'
<1>1. TypeInv /\ SettledInv /\ ClientInv
  BY DEF IInv
<1>2. pipe.pc = "start" /\ Quiet /\ pipe' = [pipe EXCEPT !.pc = "opening"]
  BY DEF Open
<1>3. pipe.id = 0 /\ pipe.reader = "off" /\ pipe.why = "none"
  BY <1>1, <1>2 DEF ClientInv
<1>4. /\ pipe' \in Clients /\ pipe'.pc = "opening" /\ pipe'.id = 0 /\ pipe'.reader = "off"
      /\ pipe'.why = "none" /\ pipe'.sent = pipe.sent /\ pipe'.out = pipe.out
      /\ pipe'.poller = pipe.poller
  BY <1>1, <1>2, <1>3 DEF TypeInv, Clients
<1>5. /\ calls' \in [Paths -> Calls] /\ Phase(calls'["open"]) = "pending"
      /\ \A p \in Paths \ {"open"} : calls'[p] = calls[p]
  <2>1. calls \in [Paths -> Calls] /\ "open" \in Paths /\ 0 \in Nat
    BY <1>1 DEF TypeInv, Paths
  <2>2. calls' = [calls EXCEPT !["open"] = Asked("open", 0, 0)]
    BY DEF Open
  <2> QED
    BY <2>1, <2>2, AskFacts
<1>6. TypeInv' /\ SettledInv'
  BY <1>1, <1>2, <1>3, <1>4, <1>5, QuietTypes
<1>7. sess' = sess /\ strays' = strays /\ (Shell' <=> Shell) /\ Ids' = Ids
  BY <1>2 DEF Quiet, Shell, Ids
<1>8. \A p \in Paths \ {"open"} : PhaseOf(p) = "none" /\ ~StrayOf(p)
  BY <1>1, <1>3 DEF ClientInv
<1>9. \A p \in Paths \ {"open"} : PhaseOf(p)' = "none" /\ ~StrayOf(p)'
  BY <1>5, <1>7, <1>8 DEF PhaseOf, StrayOf
<1>10. pipe.sent = 0 /\ pipe.out = <<>> /\ pipe.poller \in {"off", "end"}
  BY <1>1, <1>3 DEF ClientInv
<1>11. PhaseOf("send")' = "none" /\ PhaseOf("poll")' = "none" /\ PhaseOf("open")' = "pending"
  BY <1>5, <1>9 DEF PhaseOf, Paths
<1>12. \A q \in strays' : q.path = "open" \/ q.id = 0
  BY <1>1, <1>3, <1>7 DEF ClientInv
<1>13. ClientInv'
  BY <1>4, <1>9, <1>10, <1>11, <1>12 DEF ClientInv
<1>14. SendInv' /\ PollInv'
  BY <1>4 DEF SendInv, PollInv
<1> QED
  BY <1>6, <1>13, <1>14 DEF IInv

(* It gets one, and starts its loops; or there is none.                     *)
LEMMA OpenedKeeps ==
  ASSUME IInv, Opened
  PROVE  IInv'
<1>1. TypeInv /\ SettledInv /\ ClientInv
  BY DEF IInv
<1>2. "open" \in Paths /\ Came("open") /\ Quiet
  BY DEF Opened, Paths
<1>3. /\ Phase(calls["open"]) \in {"ok", "failed"}
      /\ Failed("open") <=> Phase(calls["open"]) = "failed"
      /\ Phase(calls["open"]) = "ok" => Answer("open") \in Replies
  BY <1>1, <1>2, CameFacts
<1>4. pipe.pc = "opening"
  BY <1>1, <1>3 DEF ClientInv, PhaseOf
<1>5. pipe.id = 0 /\ pipe.reader = "off" /\ pipe.why = "none"
  BY <1>1, <1>4 DEF ClientInv
<1>6. /\ \A p \in Paths \ {"open"} : PhaseOf(p) = "none" /\ ~StrayOf(p)
      /\ pipe.sent = 0 /\ pipe.out = <<>> /\ pipe.poller \in {"off", "end"}
  BY <1>1, <1>5 DEF ClientInv
<1>7. sess' = sess /\ strays' = strays /\ (Shell' <=> Shell) /\ Ids' = Ids /\ kind' = kind
      /\ repeated' = repeated
  BY <1>2 DEF Quiet, Shell, Ids
<1>8. \A p \in Paths \ {"open"} : ~StrayOf(p)'
  BY <1>6, <1>7 DEF StrayOf
<1> DEFINE b == Back("open")
<1>9. /\ b \in [Paths -> Calls] /\ Phase(b["open"]) = "none"
      /\ \A p \in Paths \ {"open"} : b[p] = calls[p]
  BY <1>1, <1>2, BackFacts
<1>10. CASE Failed("open")
  <2>1. pipe' = [pipe EXCEPT !.pc = "over", !.why = "failed"] /\ calls' = b
    BY <1>10 DEF Opened
  <2>2. /\ pipe' \in Clients /\ pipe'.pc = "over" /\ pipe'.id = 0 /\ pipe'.reader = "off"
        /\ pipe'.why = "failed" /\ pipe'.sent = 0 /\ pipe'.out = <<>>
        /\ pipe'.poller = pipe.poller
    BY <1>1, <1>5, <1>6, <2>1 DEF TypeInv, Clients
  <2> HIDE DEF b
  <2>3. TypeInv' /\ SettledInv'
    BY <1>1, <1>2, <1>5, <1>9, <2>1, <2>2, QuietTypes
  <2>4. \A p \in Paths : PhaseOf(p)' = "none"
    BY <1>6, <1>9, <2>1 DEF PhaseOf
  <2>5. PhaseOf("open")' = "none" /\ PhaseOf("send")' = "none" /\ PhaseOf("poll")' = "none"
    BY <2>4 DEF Paths
  <2>6. \A q \in strays' : q.path = "open" \/ q.id = 0
    BY <1>1, <1>5, <1>7 DEF ClientInv
  <2>7. ClientInv'
    BY <1>6, <1>8, <2>2, <2>4, <2>5, <2>6 DEF ClientInv
  <2>8. SendInv' /\ PollInv'
    BY <2>2 DEF SendInv, PollInv
  <2> QED
    BY <2>3, <2>7, <2>8 DEF IInv
<1>11. CASE ~Failed("open")
  <2> DEFINE id == Answer("open").id
             poller == IF Shell THEN "off" ELSE "poll"
  <2>1. /\ pipe' = [pipe EXCEPT !.pc = "on", !.id = id, !.reader = "read", !.poller = poller]
        /\ calls' = IF Shell THEN b ELSE [b EXCEPT !["poll"] = Asked("poll", id, 0)]
    BY <1>11 DEF Opened
  <2>2. Phase(calls["open"]) = "ok"
    BY <1>3, <1>11
  <2>3. id \in Ids /\ id \in Nat
    <3>1. Answer("open") \in Replies /\ Answer("open") = calls["open"].answer.reply
      BY <1>3, <2>2 DEF Answer
    <3>2. calls["open"].answer.reply.id \in Ids
      BY <1>1, <2>2 DEF ClientInv, PhaseOf
    <3> QED
      BY <3>1, <3>2 DEF Replies
  <2>4. id # 0
    BY <1>1, <2>3, SessIsAFunction
  <2> HIDE DEF id
  <2>5. poller \in {"off", "poll"} /\ (Shell => poller = "off")
    OBVIOUS
  <2>5a. Shell \/ poller = "poll"
    OBVIOUS
  <2> HIDE DEF poller
  <2>6. /\ pipe' \in Clients /\ pipe'.pc = "on" /\ pipe'.id = id /\ pipe'.reader = "read"
        /\ pipe'.why = "none" /\ pipe'.sent = 0 /\ pipe'.out = <<>> /\ pipe'.poller = poller
    <3> DEFINE p1 == [pipe EXCEPT !.pc = "on"]
               p2 == [p1 EXCEPT !.id = id]
               p3 == [p2 EXCEPT !.reader = "read"]
               p4 == [p3 EXCEPT !.poller = poller]
    <3>1. pipe' = p4
      BY <2>1
    <3>2. /\ p1 \in Clients /\ p1.pc = "on" /\ p1.why = "none" /\ p1.sent = 0 /\ p1.out = <<>>
      BY <1>1, <1>5, <1>6 DEF TypeInv, Clients
    <3> HIDE DEF p1
    <3>3. /\ p2 \in Clients /\ p2.pc = "on" /\ p2.why = "none" /\ p2.sent = 0 /\ p2.out = <<>>
          /\ p2.id = id
      BY <2>3, <3>2 DEF Clients
    <3> HIDE DEF p2
    <3>4. /\ p3 \in Clients /\ p3.pc = "on" /\ p3.why = "none" /\ p3.sent = 0 /\ p3.out = <<>>
          /\ p3.id = id /\ p3.reader = "read"
      BY <3>3 DEF Clients
    <3> HIDE DEF p3
    <3>5. /\ p4 \in Clients /\ p4.pc = "on" /\ p4.why = "none" /\ p4.sent = 0 /\ p4.out = <<>>
          /\ p4.id = id /\ p4.reader = "read" /\ p4.poller = poller
      BY <2>5, <3>4 DEF Clients
    <3> QED
      BY <3>1, <3>5
  <2> HIDE DEF b
  <2>7. /\ calls' \in [Paths -> Calls] /\ Phase(calls'["open"]) = "none"
        /\ \A p \in Paths \ {"open", "poll"} : calls'[p] = calls[p]
        /\ Phase(calls'["poll"]) \in {"none", "pending"}
        /\ Phase(calls'["poll"]) # "none" => ~Shell /\ calls'["poll"].id = id
    <3>1. "poll" \in Paths /\ 0 \in Nat
      BY DEF Paths
    <3> DEFINE g == [b EXCEPT !["poll"] = Asked("poll", id, 0)]
    <3>2. /\ g \in [Paths -> Calls] /\ Phase(g["poll"]) = "pending" /\ g["poll"].id = id
          /\ \A p \in Paths \ {"poll"} : g[p] = b[p]
      BY <1>9, <2>3, <3>1, AskFacts
    <3>3. calls' = IF Shell THEN b ELSE g
      BY <2>1
    <3> HIDE DEF g
    <3>4. CASE Shell
      <4>1. Phase(calls["poll"]) = "none"
        BY <1>6, <3>1 DEF PhaseOf
      <4> QED
        BY <1>9, <3>1, <3>3, <3>4, <4>1
    <3>5. CASE ~Shell
      BY <1>2, <1>9, <3>2, <3>3, <3>5
    <3> QED
      BY <3>4, <3>5
  <2>8. TypeInv'
    BY <1>1, <1>7, <2>6, <2>7 DEF TypeInv
  <2>9. \A i \in Ids : Blank(sess[i])
    <3>1. \A i \in Ids : i # 0
      BY <1>1, SessIsAFunction
    <3> QED
      BY <1>1, <1>5, <3>1 DEF SettledInv
  <2>10. SettledInv'
    BY <1>1, <1>7, <2>9 DEF SettledInv
  <2>11. \A p \in Paths \ {"open"} : PhaseOf(p)' # "none" => p = "poll"
    BY <1>6, <2>7 DEF PhaseOf
  <2>12. PhaseOf("open")' = "none" /\ PhaseOf("send")' = "none"
    BY <2>7, <2>11 DEF PhaseOf, Paths
  <2>13. \A q \in strays' : q.path = "open"
    <3>1. \A q \in strays' : q.path \in Paths
      BY <1>1, <1>7 DEF TypeInv, Requests
    <3> QED
      BY <1>8, <3>1 DEF StrayOf
  <2>14. \A p \in Paths \ {"open"} : PhaseOf(p)' # "none" => calls'[p].id = pipe'.id
    BY <2>6, <2>7, <2>11 DEF PhaseOf
  <2>15. PhaseOf("poll")' # "none" => pipe'.poller = "poll"
    BY <2>5a, <2>6, <2>7 DEF PhaseOf
  <2>16. ClientInv'
    BY <1>7, <2>3, <2>4, <2>5, <2>6, <2>12, <2>13, <2>14, <2>15 DEF ClientInv
  <2>17. Mine' = sess[id] /\ Blank(Mine') /\ Mine' \in Entries
    BY <1>1, <1>7, <2>3, <2>6, <2>9, SessIsAFunction DEF Mine
  <2>18. StrayOf("send")' = FALSE /\ StrayOf("poll")' = FALSE
    BY <2>13 DEF StrayOf
  <2>19. SendInv'
    <3>1. Phase(calls'["send"]) = "none"
      BY <2>12 DEF PhaseOf
    <3>2. SendOK(Mine', 0, "read", calls'["send"], FALSE)
      BY <2>17, <3>1, SendStarts
    <3> QED
      BY <2>6, <2>13, <2>18, <3>2 DEF SendInv
  <2>20. PollInv'
    <3>1. PollOK(Mine', <<>>, poller, calls'["poll"], "none", FALSE)
      BY <2>7, <2>17, PollStarts
    <3> QED
      BY <2>6, <2>18, <3>1 DEF PollInv
  <2> QED
    BY <2>8, <2>10, <2>16, <2>19, <2>20 DEF IInv
<1> QED
  BY <1>10, <1>11

(* Both clients send alike: the reader has all sent before where it         *)
(* belongs.                                                                 *)
LEMMA SendKeeps ==
  ASSUME IInv, Quiet, pipe.reader = "read", Send(pipe)
  PROVE  IInv'
<1>1. TypeInv /\ SettledInv /\ ClientInv /\ SendInv /\ PollInv
  BY DEF IInv
<1>2. pipe.id # 0
  BY <1>1 DEF ClientInv
<1>3. /\ pipe' \in Clients /\ pipe'.pc = pipe.pc /\ pipe'.id = pipe.id /\ pipe'.reader = "send"
      /\ pipe'.poller = pipe.poller /\ pipe'.sent = pipe.sent + 1 /\ pipe'.out = pipe.out
      /\ pipe'.why = pipe.why
  <2> DEFINE p1 == [pipe EXCEPT !.reader = "send"]
             n == p1.sent + 1
             p2 == [p1 EXCEPT !.sent = n]
  <2>1. /\ p1 \in Clients /\ p1.pc = pipe.pc /\ p1.id = pipe.id /\ p1.reader = "send"
        /\ p1.poller = pipe.poller /\ p1.sent = pipe.sent /\ p1.out = pipe.out /\ p1.why = pipe.why
    BY <1>1 DEF TypeInv, Clients
  <2>2. pipe' = p2
    BY DEF Send
  <2> HIDE DEF p1
  <2>3. n \in Nat /\ n = pipe.sent + 1
    <3>1. p1.sent = pipe.sent /\ pipe.sent \in Nat
      BY <1>1, <2>1 DEF TypeInv, Clients
    <3> QED
      BY <3>1
  <2> HIDE DEF n
  <2>4. /\ p2 \in Clients /\ p2.pc = p1.pc /\ p2.id = p1.id /\ p2.reader = "send"
        /\ p2.poller = p1.poller /\ p2.sent = n /\ p2.out = p1.out /\ p2.why = p1.why
    BY <2>1, <2>3 DEF Clients
  <2> HIDE DEF p2
  <2> QED
    BY <2>1, <2>2, <2>3, <2>4
<1>4. pipe.sent \in Nat /\ pipe.id \in Nat
  BY <1>1 DEF TypeInv, Clients
<1>5. /\ calls' \in [Paths -> Calls] /\ Phase(calls'["send"]) = "pending"
      /\ calls'["send"].id = pipe.id /\ calls'["send"].data = pipe.sent + 1
      /\ \A p \in Paths \ {"send"} : calls'[p] = calls[p]
  <2> DEFINE n == pipe.sent + 1
  <2>1. n \in Nat /\ "send" \in Paths /\ calls \in [Paths -> Calls]
    BY <1>1, <1>4 DEF Paths, TypeInv
  <2>2. calls' = [calls EXCEPT !["send"] = Asked("send", pipe.id, n)]
    BY DEF Send
  <2> HIDE DEF n
  <2>3. /\ calls' \in [Paths -> Calls] /\ Phase(calls'["send"]) = "pending"
        /\ calls'["send"].id = pipe.id /\ calls'["send"].data = n
        /\ \A p \in Paths \ {"send"} : calls'[p] = calls[p]
    BY <1>4, <2>1, <2>2, AskFacts
  <2> QED
    BY <2>3 DEF n
<1>6. TypeInv' /\ SettledInv'
  BY <1>1, <1>3, <1>5, QuietTypes
<1>7. calls'["open"] = calls["open"] /\ calls'["poll"] = calls["poll"]
  BY <1>5 DEF Paths
<1>8. ClientInv'
  <2>1. \A p \in Paths \ {"open"} : Phase(calls'[p]) # "none" => calls'[p].id = pipe.id
    BY <1>1, <1>5 DEF ClientInv, PhaseOf
  <2>2. Shell => pipe.sent = 0 /\ pipe'.poller = "off"
    BY <1>1, <1>3 DEF ClientInv
  <2>3. Shell => pipe'.sent <= 1
    BY <1>3, <2>2
  <2>4. Phase(calls'["poll"]) # "none" => pipe'.poller = "poll"
    BY <1>1, <1>3, <1>7 DEF ClientInv, PhaseOf
  <2>5. /\ pipe'.why \in {"poll closed", "mark"} => pipe'.poller = "end"
        /\ pipe'.why = "mark" => Shell
    BY <1>1, <1>3 DEF ClientInv
  <2>6. pipe'.reader = "send" /\ calls'["send"].data = pipe'.sent
    BY <1>3, <1>5
  <2> QED
    BY <1>1, <1>2, <1>3, <1>7, <2>1, <2>2, <2>3, <2>4, <2>5, <2>6, OnClient
<1>9. SendInv'
  <2>1. CASE repeated'
    BY <2>1 DEF SendInv
  <2>2. CASE ~repeated'
    <3>1. ~repeated /\ strays' = strays /\ sess' = sess
      BY <2>2 DEF Quiet
    <3> DEFINE stray == StrayOf("send")
    <3>2. SendOK(Mine, pipe.sent, "read", calls["send"], stray)
      BY <1>1, <1>2, <3>1 DEF SendInv
    <3>3. ~stray
      BY <3>2 DEF SendOK
    <3>4. \A q \in strays' : q.path # "send"
      BY <3>1, <3>3 DEF StrayOf
    <3>5. StrayOf("send")' = stray
      BY <3>1 DEF StrayOf
    <3>6. Mine' = Mine /\ Mine \in Entries
      BY <1>1, <1>2, <1>3, <3>1, MineOf DEF Mine
    <3> HIDE DEF stray
    <3>7. SendOK(Mine, pipe.sent + 1, "send", calls'["send"], stray)
      BY <1>4, <1>5, <3>2, <3>6, SendIssued
    <3> QED
      BY <1>3, <3>4, <3>5, <3>6, <3>7 DEF SendInv
  <2> QED
    BY <2>1, <2>2
<1>10. PollInv'
  <2>1. CallMoves(calls["poll"], calls'["poll"])
    BY <1>7 DEF CallMoves
  <2> QED
    BY <1>1, <1>3, <1>6, <2>1, QuietPoll
<1> QED
  BY <1>6, <1>8, <1>9, <1>10 DEF IInv

(* A loop of the client ends, or the pipe is over. *)
LEMMA StopsKeep ==
  ASSUME IInv, Quiet, pipe.id # 0,
         pipe' \in Clients, pipe'.id = pipe.id, pipe'.pc \in {pipe.pc, "over"},
         pipe'.sent = pipe.sent, pipe'.out = pipe.out,
         pipe'.reader \in {pipe.reader, "end"}, pipe'.poller \in {pipe.poller, "end"},
         pipe'.why \in {"poll closed", "mark"} => pipe'.why = pipe.why,
         calls' \in [Paths -> Calls],
         \A p \in Paths \ {"close"} : calls'[p] = calls[p] \/ Phase(calls'[p]) = "none",
         calls'["close"] = calls["close"] \/ calls'["close"].id = pipe.id
            \/ Phase(calls'["close"]) = "none",
         Phase(calls'["send"]) # "none" => pipe'.reader = pipe.reader,
         Phase(calls'["poll"]) # "none" => pipe'.poller = pipe.poller,
         Shell /\ (Phase(calls'["send"]) # "none" \/ pipe'.reader = "read") =>
            pipe'.poller = pipe.poller
  PROVE  IInv'
<1>1. TypeInv /\ SettledInv /\ ClientInv /\ SendInv /\ PollInv
  BY DEF IInv
<1>2. TypeInv' /\ SettledInv'
  BY <1>1, QuietTypes
<1>3. /\ calls'["open"] = calls["open"] \/ Phase(calls'["open"]) = "none"
      /\ calls'["send"] = calls["send"] \/ Phase(calls'["send"]) = "none"
      /\ calls'["poll"] = calls["poll"] \/ Phase(calls'["poll"]) = "none"
  BY DEF Paths
<1>4. pipe.pc \notin {"start", "opening"} /\ Phase(calls["open"]) = "none"
  BY <1>1 DEF ClientInv, PhaseOf
<1>5. CallMoves(calls["send"], calls'["send"]) /\ CallMoves(calls["poll"], calls'["poll"])
  BY <1>3 DEF CallMoves
<1>6. SendInv'
  <2>1. pipe'.reader = "read" => pipe.reader = "read"
    OBVIOUS
  <2> QED
    BY <1>1, <1>2, <1>5, <2>1, QuietSend
<1>7. PollInv'
  <2>1. pipe'.poller = "off" => pipe.poller = "off"
    OBVIOUS
  <2> QED
    BY <1>1, <1>2, <1>5, <2>1, QuietPoll
<1>8. ClientInv'
  <2>1. \A p \in Paths \ {"open"} : Phase(calls'[p]) # "none" => calls'[p].id = pipe.id
    BY <1>1 DEF ClientInv, PhaseOf
  <2>2. /\ Phase(calls'["send"]) # "none" => pipe'.reader = "send" /\ calls'["send"].data = pipe'.sent
                                             /\ (Shell => pipe'.poller = "off")
        /\ Phase(calls'["poll"]) # "none" => pipe'.poller = "poll"
    BY <1>1, <1>3 DEF ClientInv, PhaseOf
  <2>3. Shell => pipe'.sent <= 1 /\ (pipe'.reader = "read" => pipe'.sent = 0 /\ pipe'.poller = "off")
    BY <1>1 DEF ClientInv
  <2>4. /\ pipe'.why \in {"poll closed", "mark"} => pipe'.poller = "end"
        /\ pipe'.why = "mark" => Shell
    BY <1>1 DEF ClientInv
  <2>5. /\ pipe.pc \notin {"start", "opening"} /\ pipe'.pc \notin {"start", "opening"}
        /\ Phase(calls'["open"]) = "none"
    BY <1>3, <1>4
  <2>6. sess' = sess /\ strays' = strays /\ (Shell' <=> Shell) /\ Ids' = Ids
    BY DEF Quiet, Shell, Ids
  <2>7. \A q \in strays' : q.path = "open" \/ q.id = pipe.id
    BY <1>1, <2>6 DEF ClientInv
  <2>8. pipe.id \in Ids
    BY <1>1 DEF ClientInv
  <2> QED
    BY <2>1, <2>2, <2>3, <2>4, <2>5, <2>6, <2>7, <2>8 DEF ClientInv, PhaseOf
<1> QED
  BY <1>2, <1>6, <1>7, <1>8 DEF IInv

(* The reader of pipeTunnel().                                              *)
LEMMA ReadChunkKeeps ==
  ASSUME IInv, ReadChunk
  PROVE  IInv'
<1>1. pipe.reader = "read" /\ Quiet /\ ~Shell
  BY DEF ReadChunk
<1>2. CASE Done
  <2>1. pipe' = [pipe EXCEPT !.reader = "end"] /\ calls' = calls
    BY <1>2 DEF ReadChunk
  <2>2. TypeInv /\ ClientInv
    BY DEF IInv
  <2>3. pipe.id # 0 /\ Phase(calls["send"]) = "none" /\ pipe \in Clients
    BY <1>1, <2>2 DEF ClientInv, PhaseOf, TypeInv
  <2>4. /\ pipe' \in Clients /\ pipe'.pc = pipe.pc /\ pipe'.id = pipe.id /\ pipe'.reader = "end"
        /\ pipe'.poller = pipe.poller /\ pipe'.sent = pipe.sent /\ pipe'.out = pipe.out
        /\ pipe'.why = pipe.why
    BY <2>1, <2>3 DEF Clients
  <2>5. calls' \in [Paths -> Calls]
    BY <2>1, <2>2 DEF TypeInv
  <2> QED
    BY <1>1, <2>1, <2>3, <2>4, <2>5, StopsKeep
<1>3. CASE ~Done
  BY <1>1, <1>3, SendKeeps DEF ReadChunk
<1> QED
  BY <1>2, <1>3

(* The line of execShell().                                                 *)
LEMMA SendLineKeeps ==
  ASSUME IInv, SendLine
  PROVE  IInv'
BY SendKeeps DEF SendLine

(* finish(), with what was called. *)
LEMMA FinishKeeps ==
  ASSUME IInv, Quiet, pipe.id # 0, NEW p \in Clients, NEW c \in [Paths -> Calls],
         NEW why \in {"failed", "input ended", "send closed"},
         p.id = pipe.id, p.pc = pipe.pc, p.sent = pipe.sent, p.out = pipe.out, p.why = pipe.why,
         p.reader \in {pipe.reader, "end"}, p.poller \in {pipe.poller, "end"},
         \A q \in Paths : c[q] = calls[q] \/ Phase(c[q]) = "none",
         Phase(c["send"]) # "none" => p.reader = pipe.reader,
         Phase(c["poll"]) # "none" => p.poller = pipe.poller,
         Shell /\ (Phase(c["send"]) # "none" \/ p.reader = "read") => p.poller = pipe.poller,
         pipe' = Finished(p, why), calls' = Closing(c, pipe)
  PROVE  IInv'
<1>1. pipe \in Clients
  BY DEF IInv, TypeInv
<1>2. why \in Reasons
  BY DEF Reasons
<1>3. /\ pipe' \in Clients
      /\ pipe'.pc = pipe.pc /\ pipe'.id = pipe.id /\ pipe'.reader = p.reader
      /\ pipe'.poller = p.poller /\ pipe'.sent = pipe.sent /\ pipe'.out = pipe.out
      /\ pipe'.why = pipe.why \/ pipe'.why = why
  <2>1. p.why # "none" \/ p.why = "none"
    OBVIOUS
  <2> QED
    BY <1>2, <2>1, FinishedFacts
<1>4. /\ calls' \in [Paths -> Calls]
      /\ \A q \in Paths \ {"close"} : calls'[q] = c[q]
      /\ calls'["close"] = c["close"] \/ calls'["close"].id = pipe.id
  BY <1>1, ClosingFacts
<1>5. calls'["send"] = c["send"] /\ calls'["poll"] = c["poll"] /\ "close" \in Paths
  BY <1>4 DEF Paths
<1>6. /\ pipe'.why \in {"poll closed", "mark"} => pipe'.why = pipe.why
      /\ pipe'.pc \in {pipe.pc, "over"}
      /\ pipe'.reader \in {pipe.reader, "end"} /\ pipe'.poller \in {pipe.poller, "end"}
  BY <1>3
<1>7. /\ \A q \in Paths \ {"close"} : calls'[q] = calls[q] \/ Phase(calls'[q]) = "none"
      /\ calls'["close"] = calls["close"] \/ calls'["close"].id = pipe.id
           \/ Phase(calls'["close"]) = "none"
  BY <1>4, <1>5
<1>8. /\ Phase(calls'["send"]) # "none" => pipe'.reader = pipe.reader
      /\ Phase(calls'["poll"]) # "none" => pipe'.poller = pipe.poller
      /\ Shell /\ (Phase(calls'["send"]) # "none" \/ pipe'.reader = "read") =>
            pipe'.poller = pipe.poller
  BY <1>3, <1>5
<1> QED
  BY <1>3, <1>4, <1>6, <1>7, <1>8, StopsKeep

(* The reader has ended.                                                    *)
LEMMA ReaderEnds ==
  ASSUME NEW p \in Clients
  PROVE  LET f == [p EXCEPT !.reader = "end"] IN
         /\ f \in Clients /\ f.pc = p.pc /\ f.id = p.id /\ f.reader = "end"
         /\ f.poller = p.poller /\ f.sent = p.sent /\ f.out = p.out /\ f.why = p.why
BY DEF Clients

(* The poller has.                                                          *)
LEMMA PollerEnds ==
  ASSUME NEW p \in Clients
  PROVE  LET f == [p EXCEPT !.poller = "end"] IN
         /\ f \in Clients /\ f.pc = p.pc /\ f.id = p.id /\ f.poller = "end"
         /\ f.reader = p.reader /\ f.sent = p.sent /\ f.out = p.out /\ f.why = p.why
BY DEF Clients

(* The local stream ends.                                                   *)
LEMMA InputEndsKeeps ==
  ASSUME IInv, InputEnds
  PROVE  IInv'
<1>1. TypeInv /\ ClientInv
  BY DEF IInv
<1>2. pipe.reader = "read" /\ ~Shell /\ Quiet
  BY DEF InputEnds
<1>3. pipe.id # 0 /\ Phase(calls["send"]) = "none"
  BY <1>1, <1>2 DEF ClientInv, PhaseOf
<1>4. pipe \in Clients /\ calls \in [Paths -> Calls]
  BY <1>1 DEF TypeInv
<1> DEFINE p == [pipe EXCEPT !.reader = "end"]
<1>5. /\ p \in Clients /\ p.pc = pipe.pc /\ p.id = pipe.id /\ p.reader = "end"
      /\ p.poller = pipe.poller /\ p.sent = pipe.sent /\ p.out = pipe.out /\ p.why = pipe.why
  BY <1>4, ReaderEnds
<1>6. pipe' = Finished(p, "input ended") /\ calls' = Closing(calls, pipe)
  BY DEF InputEnds
<1> HIDE DEF p
<1> QED
  BY <1>2, <1>3, <1>4, <1>5, <1>6, FinishKeeps

(* pipeTunnel() goes on to the next chunk, or ends.                         *)
LEMMA SentKeeps ==
  ASSUME IInv, Sent
  PROVE  IInv'
<1>1. TypeInv /\ SettledInv /\ ClientInv /\ SendInv /\ PollInv
  BY DEF IInv
<1>2. "send" \in Paths /\ Came("send") /\ ~Shell /\ Quiet
  BY DEF Sent, Paths
<1>3. /\ Phase(calls["send"]) \in {"ok", "failed"}
      /\ Failed("send") <=> Phase(calls["send"]) = "failed"
  BY <1>1, <1>2, CameFacts
<1>4. pipe.id # 0 /\ pipe.reader = "send"
  BY <1>1, <1>2, <1>3 DEF ClientInv, PhaseOf
<1>5. pipe \in Clients
  BY <1>1 DEF TypeInv
<1> DEFINE b == Back("send")
           p == [pipe EXCEPT !.reader = "end"]
<1>6. /\ b \in [Paths -> Calls] /\ Phase(b["send"]) = "none"
      /\ \A q \in Paths \ {"send"} : b[q] = calls[q]
  BY <1>1, <1>2, BackFacts
<1>7. /\ p \in Clients /\ p.pc = pipe.pc /\ p.id = pipe.id /\ p.reader = "end"
      /\ p.poller = pipe.poller /\ p.sent = pipe.sent /\ p.out = pipe.out /\ p.why = pipe.why
  BY <1>5, ReaderEnds
<1>8. \A q \in Paths : b[q] = calls[q] \/ Phase(b[q]) = "none"
  BY <1>6
<1>9. CASE Failed("send")
  <2>1. pipe' = Finished(p, "failed") /\ calls' = Closing(b, pipe)
    BY <1>9 DEF Sent
  <2> HIDE DEF b, p
  <2> QED
    BY <1>2, <1>4, <1>6, <1>7, <1>8, <2>1, FinishKeeps
<1>10. CASE ~Failed("send") /\ Answer("send").closed
  <2>1. pipe' = Finished(p, "send closed") /\ calls' = Closing(b, pipe)
    BY <1>10 DEF Sent
  <2> HIDE DEF b, p
  <2> QED
    BY <1>2, <1>4, <1>6, <1>7, <1>8, <2>1, FinishKeeps
<1>11. CASE ~Failed("send") /\ ~Answer("send").closed
  <2>1. pipe' = [pipe EXCEPT !.reader = "read"] /\ calls' = b
    BY <1>11 DEF Sent
  <2>2. /\ pipe' \in Clients /\ pipe'.pc = pipe.pc /\ pipe'.id = pipe.id /\ pipe'.reader = "read"
        /\ pipe'.poller = pipe.poller /\ pipe'.sent = pipe.sent /\ pipe'.out = pipe.out
        /\ pipe'.why = pipe.why
    BY <1>5, <2>1 DEF Clients
  <2> HIDE DEF b, p
  <2>3. calls'["open"] = calls["open"] /\ calls'["poll"] = calls["poll"]
    BY <1>6, <2>1 DEF Paths
  <2>4. TypeInv' /\ SettledInv'
    BY <1>1, <1>2, <1>6, <2>1, <2>2, QuietTypes
  <2>5. ClientInv'
    <3>1. \A q \in Paths \ {"open"} : Phase(calls'[q]) # "none" => calls'[q].id = pipe.id
      BY <1>1, <1>6, <2>1 DEF ClientInv, PhaseOf
    <3>2. Phase(calls'["send"]) = "none"
      BY <1>6, <2>1
    <3>3. Phase(calls'["poll"]) # "none" => pipe'.poller = "poll"
      BY <1>1, <2>2, <2>3 DEF ClientInv, PhaseOf
    <3>4. /\ pipe'.why \in {"poll closed", "mark"} => pipe'.poller = "end"
          /\ pipe'.why = "mark" => Shell
      BY <1>1, <2>2 DEF ClientInv
    <3>5. pipe'.pc \in {pipe.pc, "over"} /\ pipe'.id = pipe.id
      BY <2>2
    <3> QED
      BY <1>1, <1>2, <1>4, <2>3, <3>1, <3>2, <3>3, <3>4, <3>5, OnClient
  <2>6. SendInv'
    <3>1. CASE repeated'
      BY <3>1 DEF SendInv
    <3>2. CASE ~repeated'
      <4>1. ~repeated /\ strays' = strays /\ sess' = sess
        BY <1>2, <3>2 DEF Quiet
      <4> DEFINE stray == StrayOf("send")
      <4>2. /\ SendOK(Mine, pipe.sent, pipe.reader, calls["send"], stray)
            /\ \A q \in strays : q.path = "send" => q.data = pipe.sent
        BY <1>1, <1>4, <4>1 DEF SendInv
      <4>3. StrayOf("send")' = stray
        BY <4>1 DEF StrayOf
      <4>4. Mine' = Mine /\ Mine \in Entries
        BY <1>1, <1>4, <2>2, <4>1, MineOf DEF Mine
      <4>5. Phase(calls["send"]) = "ok" /\ Phase(calls'["send"]) = "none" /\ pipe.sent \in Nat
        BY <1>3, <1>5, <1>6, <1>11, <2>1 DEF Clients
      <4> HIDE DEF stray
      <4>6. SendOK(Mine, pipe.sent, "read", calls'["send"], stray)
        BY <4>2, <4>4, <4>5, SendReturned
      <4> QED
        BY <2>2, <4>1, <4>2, <4>3, <4>4, <4>6 DEF SendInv
    <3> QED
      BY <3>1, <3>2
  <2>7. PollInv'
    <3>1. CallMoves(calls["poll"], calls'["poll"])
      BY <2>3 DEF CallMoves
    <3> QED
      BY <1>1, <1>2, <2>2, <2>4, <3>1, QuietPoll
  <2> QED
    BY <2>4, <2>5, <2>6, <2>7 DEF IInv
<1> QED
  BY <1>9, <1>10, <1>11

(* execShell() goes on to poll, or ends.                                    *)
LEMMA LineSentKeeps ==
  ASSUME IInv, LineSent
  PROVE  IInv'
<1>1. TypeInv /\ SettledInv /\ ClientInv /\ SendInv /\ PollInv
  BY DEF IInv
<1>2. "send" \in Paths /\ "poll" \in Paths /\ Came("send") /\ Shell /\ Quiet
  BY DEF LineSent, Paths
<1>3. /\ Phase(calls["send"]) \in {"ok", "failed"}
      /\ Failed("send") <=> Phase(calls["send"]) = "failed"
  BY <1>1, <1>2, CameFacts
<1>4. pipe.id # 0 /\ pipe.reader = "send" /\ pipe.poller = "off"
  BY <1>1, <1>2, <1>3 DEF ClientInv, PhaseOf
<1>5. pipe \in Clients
  BY <1>1 DEF TypeInv
<1> DEFINE b == Back("send")
           r == [pipe EXCEPT !.reader = "end"]
<1>6. /\ b \in [Paths -> Calls] /\ Phase(b["send"]) = "none"
      /\ \A q \in Paths \ {"send"} : b[q] = calls[q]
  BY <1>1, <1>2, BackFacts
<1>7. /\ r \in Clients /\ r.pc = pipe.pc /\ r.id = pipe.id /\ r.reader = "end"
      /\ r.poller = pipe.poller /\ r.sent = pipe.sent /\ r.out = pipe.out /\ r.why = pipe.why
  BY <1>5, ReaderEnds
<1>8. Phase(calls["poll"]) = "none"
  BY <1>1, <1>4 DEF ClientInv, PhaseOf
<1>9. CASE Failed("send")
  <2> DEFINE p == [r EXCEPT !.poller = "end"]
  <2>1. pipe' = Finished(p, "failed") /\ calls' = Closing(b, pipe)
    BY <1>9 DEF LineSent
  <2> HIDE DEF b, r
  <2>2. /\ p \in Clients /\ p.pc = pipe.pc /\ p.id = pipe.id /\ p.reader = "end"
        /\ p.poller = "end" /\ p.sent = pipe.sent /\ p.out = pipe.out /\ p.why = pipe.why
    BY <1>7, PollerEnds
  <2>3. \A q \in Paths : b[q] = calls[q] \/ Phase(b[q]) = "none"
    BY <1>6
  <2>4. Phase(b["send"]) = "none" /\ Phase(b["poll"]) = "none"
    BY <1>2, <1>6, <1>8
  <2> HIDE DEF p
  <2> QED
    BY <1>2, <1>4, <1>6, <2>1, <2>2, <2>3, <2>4, FinishKeeps
<1>10. CASE ~Failed("send")
  <2> DEFINE p == [r EXCEPT !.poller = "poll"]
  <2>1. /\ pipe' = p
        /\ calls' = [b EXCEPT !["poll"] = Asked("poll", pipe.id, 0)]
    BY <1>10 DEF LineSent
  <2> HIDE DEF b, r
  <2>2. /\ p \in Clients /\ p.pc = pipe.pc /\ p.id = pipe.id /\ p.reader = "end"
        /\ p.poller = "poll" /\ p.sent = pipe.sent /\ p.out = pipe.out /\ p.why = pipe.why
    BY <1>7 DEF Clients
  <2> HIDE DEF p
  <2>3. pipe.id \in Nat /\ 0 \in Nat
    BY <1>5 DEF Clients
  <2>4. /\ calls' \in [Paths -> Calls] /\ Phase(calls'["poll"]) = "pending"
        /\ calls'["poll"].id = pipe.id
        /\ \A q \in Paths \ {"poll"} : calls'[q] = b[q]
    BY <1>2, <1>6, <2>1, <2>3, AskFacts
  <2>5. calls'["open"] = calls["open"] /\ Phase(calls'["send"]) = "none"
    BY <1>6, <2>4 DEF Paths
  <2>6. TypeInv' /\ SettledInv'
    BY <1>1, <1>2, <2>1, <2>2, <2>4, QuietTypes
  <2>7. ClientInv'
    <3>1. \A q \in Paths \ {"open"} : Phase(calls'[q]) # "none" => calls'[q].id = pipe.id
      <4>1. \A q \in Paths \ {"send", "poll"} : calls'[q] = calls[q]
        BY <1>6, <2>4
      <4>2. \A q \in Paths \ {"open"} : Phase(calls[q]) # "none" => calls[q].id = pipe.id
        BY <1>1 DEF ClientInv, PhaseOf
      <4> QED
        BY <2>4, <2>5, <4>1, <4>2
    <3>2. pipe'.why \notin {"poll closed", "mark"} /\ pipe'.poller = "poll" /\ pipe'.reader = "end"
      BY <1>1, <1>4, <2>1, <2>2 DEF ClientInv
    <3>3. pipe'.sent <= 1
      BY <1>1, <1>2, <2>1, <2>2 DEF ClientInv
    <3>4. pipe'.pc \in {pipe.pc, "over"} /\ pipe'.id = pipe.id
      BY <2>1, <2>2
    <3> QED
      BY <1>1, <1>2, <1>4, <2>5, <3>1, <3>2, <3>3, <3>4, OnClient
  <2>8. SendInv'
    <3>1. CallMoves(calls["send"], calls'["send"])
      BY <2>5 DEF CallMoves
    <3> QED
      BY <1>1, <1>2, <2>1, <2>2, <2>6, <3>1, QuietSend
  <2>9. PollInv'
    <3>1. CASE repeated'
      BY <3>1 DEF PollInv
    <3>2. CASE ~repeated'
      <4>1. ~repeated /\ strays' = strays /\ sess' = sess
        BY <1>2, <3>2 DEF Quiet
      <4> DEFINE stray == StrayOf("poll")
      <4>2. PollOK(Mine, pipe.out, "off", calls["poll"], pipe.why, stray)
        BY <1>1, <1>4, <4>1 DEF PollInv
      <4>3. StrayOf("poll")' = stray
        BY <4>1 DEF StrayOf
      <4>4. Mine' = Mine /\ Mine \in Entries /\ pipe.out \in Seq(Nat)
        BY <1>1, <1>4, <1>5, <2>1, <2>2, <4>1, MineOf DEF Mine, Clients
      <4> HIDE DEF stray
      <4>5. PollOK(Mine, pipe.out, "poll", calls'["poll"], pipe.why, stray)
        BY <1>8, <2>4, <4>2, <4>4, PollIssued
      <4> QED
        BY <2>1, <2>2, <4>3, <4>4, <4>5 DEF PollInv
    <3> QED
      BY <3>1, <3>2
  <2> QED
    BY <2>6, <2>7, <2>8, <2>9 DEF IInv
<1> QED
  BY <1>9, <1>10

(* The close is back.                                                       *)
LEMMA ClosedKeeps ==
  ASSUME IInv, Closed
  PROVE  IInv'
<1>1. TypeInv /\ ClientInv
  BY DEF IInv
<1>2. "close" \in Paths /\ Came("close") /\ Quiet /\ pipe' = pipe /\ calls' = Back("close")
  BY DEF Closed, Paths
<1>3. Phase(calls["close"]) # "none"
  BY <1>1, <1>2, CameFacts
<1>4. pipe.id # 0 /\ pipe \in Clients
  BY <1>1, <1>2, <1>3 DEF ClientInv, PhaseOf, TypeInv
<1>5. /\ calls' \in [Paths -> Calls] /\ Phase(calls'["close"]) = "none"
      /\ \A q \in Paths \ {"close"} : calls'[q] = calls[q]
  BY <1>1, <1>2, BackFacts
<1> QED
  BY <1>2, <1>4, <1>5, StopsKeep

(* pipeTunnel() returns.                                                    *)
LEMMA ReturnKeeps ==
  ASSUME IInv, Return
  PROVE  IInv'
<1>1. TypeInv /\ ClientInv
  BY DEF IInv
<1>2. pipe.pc = "on" /\ Quiet /\ pipe' = [pipe EXCEPT !.pc = "over"] /\ calls' = calls
  BY DEF Return
<1>3. pipe.id # 0 /\ pipe \in Clients /\ calls' \in [Paths -> Calls]
  BY <1>1, <1>2 DEF ClientInv, TypeInv
<1>4. /\ pipe' \in Clients /\ pipe'.pc = "over" /\ pipe'.id = pipe.id /\ pipe'.reader = pipe.reader
      /\ pipe'.poller = pipe.poller /\ pipe'.sent = pipe.sent /\ pipe'.out = pipe.out
      /\ pipe'.why = pipe.why
  BY <1>2, <1>3 DEF Clients
<1> QED
  BY <1>2, <1>3, <1>4, StopsKeep

(* What a poll brought is written out. *)
LEMMA TakenKeeps ==
  ASSUME IInv, Quiet, Phase(calls["poll"]) = "ok",
         pipe' \in Clients, pipe'.id = pipe.id, pipe'.pc = pipe.pc,
         pipe'.sent = pipe.sent, pipe'.reader = pipe.reader,
         pipe'.out = pipe.out \o DataOf(calls["poll"]),
         pipe'.poller \in {"poll", "end"},
         calls' \in [Paths -> Calls],
         \A q \in Paths \ {"poll", "close"} : calls'[q] = calls[q],
         calls'["close"] = calls["close"] \/ calls'["close"].id = pipe.id,
         Phase(calls'["poll"]) \in {"none", "pending"},
         Phase(calls'["poll"]) # "none" => pipe'.poller = "poll" /\ calls'["poll"].id = pipe.id,
         pipe'.why \in {"poll closed", "mark"} => pipe'.poller = "end",
         pipe'.why = "poll closed" => pipe.why = "poll closed" \/ EndOf(calls["poll"]),
         pipe'.why = "mark" => pipe.why = "mark" \/ (Shell /\ Sentinel(pipe'.out))
  PROVE  IInv'
<1>1. TypeInv /\ SettledInv /\ ClientInv /\ SendInv /\ PollInv
  BY DEF IInv
<1>2. pipe.poller = "poll" /\ pipe.id # 0
  BY <1>1 DEF ClientInv, PhaseOf, Paths
<1>3. pipe.why \notin {"poll closed", "mark"}
  BY <1>1, <1>2 DEF ClientInv
<1>4. calls'["open"] = calls["open"] /\ calls'["send"] = calls["send"]
  BY DEF Paths
<1>5. TypeInv' /\ SettledInv'
  BY <1>1, QuietTypes
<1>6. ClientInv'
  <2>1. \A q \in Paths \ {"open"} : Phase(calls'[q]) # "none" => calls'[q].id = pipe.id
    <3>1. \A q \in Paths \ {"open"} : Phase(calls[q]) # "none" => calls[q].id = pipe.id
      BY <1>1 DEF ClientInv, PhaseOf
    <3> QED
      BY <3>1
  <2>2. Phase(calls'["send"]) # "none" => pipe'.reader = "send" /\ calls'["send"].data = pipe'.sent
                                          /\ ~Shell
    BY <1>1, <1>2, <1>4 DEF ClientInv, PhaseOf
  <2>3. Shell => pipe'.sent <= 1 /\ pipe'.reader # "read"
    BY <1>1, <1>2 DEF ClientInv
  <2>4. pipe'.why = "mark" => Shell
    BY <1>3
  <2> QED
    BY <1>1, <1>2, <1>4, <2>1, <2>2, <2>3, <2>4, OnClient
<1>7. SendInv'
  <2>1. CallMoves(calls["send"], calls'["send"])
    BY <1>4 DEF CallMoves
  <2> QED
    BY <1>1, <1>5, <2>1, QuietSend
<1>8. PollInv'
  <2>1. CASE repeated'
    BY <2>1 DEF PollInv
  <2>2. CASE ~repeated'
    <3>1. ~repeated /\ strays' = strays /\ sess' = sess
      BY <2>2 DEF Quiet
    <3> DEFINE stray == StrayOf("poll")
               c == calls["poll"]
               d == calls'["poll"]
               out2 == pipe'.out
               poller2 == pipe'.poller
               why2 == pipe'.why
    <3>2. PollOK(Mine, pipe.out, pipe.poller, c, pipe.why, stray)
      BY <1>1, <1>2, <3>1 DEF PollInv
    <3>3. StrayOf("poll")' = stray
      BY <3>1 DEF StrayOf
    <3>4. Mine' = Mine /\ Mine \in Entries
      BY <1>1, <1>2, <3>1, MineOf DEF Mine
    <3>5. Mine.made <= OutLen
      BY <1>1, <1>2, MineOf DEF SettledInv, Settled, Mine
    <3>6. pipe.out \in Seq(Nat) /\ out2 \in Seq(Nat)
      BY <1>1 DEF TypeInv, Clients
    <3>7. /\ why2 = "poll closed" => EndOf(c)
          /\ why2 = "mark" => Sentinel(out2)
      BY <1>3
    <3>8. Phase(c) = "ok" /\ Phase(d) \in {"none", "pending"} /\ poller2 # "off"
          /\ out2 = pipe.out \o DataOf(c)
      OBVIOUS
    <3> HIDE DEF stray, c, d, out2, poller2, why2
    <3>9. PollOK(Mine, out2, poller2, d, why2, stray)
      BY <3>2, <3>4, <3>5, <3>6, <3>7, <3>8, PollTaken
    <3> QED
      BY <3>3, <3>4, <3>9 DEF PollInv, d, out2, poller2, why2
  <2> QED
    BY <2>1, <2>2
<1> QED
  BY <1>5, <1>6, <1>7, <1>8 DEF IInv

(* The loop of polls ends, or asks again. *)
LEMMA PollsEndKeeps ==
  ASSUME IInv, Quiet, Phase(calls["poll"]) = "ok", NEW p \in Clients,
         NEW why \in {"none", "poll closed", "mark", "polls"},
         p.id = pipe.id, p.pc = pipe.pc, p.sent = pipe.sent, p.reader = pipe.reader,
         p.poller = pipe.poller, p.why = pipe.why, p.out = pipe.out \o DataOf(calls["poll"]),
         PollsEnd(p, why),
         why = "poll closed" => EndOf(calls["poll"]),
         why = "mark" => Shell /\ Sentinel(p.out)
  PROVE  IInv'
<1>1. TypeInv /\ pipe \in Clients /\ "poll" \in Paths
  BY DEF IInv, TypeInv, Paths
<1> DEFINE b == Back("poll")
           r == [p EXCEPT !.poller = "end"]
<1>2. /\ b \in [Paths -> Calls] /\ Phase(b["poll"]) = "none"
      /\ \A q \in Paths \ {"poll"} : b[q] = calls[q]
  BY <1>1, BackFacts
<1>3. /\ r \in Clients /\ r.pc = p.pc /\ r.id = p.id /\ r.poller = "end"
      /\ r.reader = p.reader /\ r.sent = p.sent /\ r.out = p.out /\ r.why = p.why
  BY PollerEnds
<1>4. pipe' = Finished(r, why) /\ calls' = IF why = "none" THEN b ELSE Closing(b, pipe)
  BY DEF PollsEnd
<1> HIDE DEF b, r
<1>5. why \in Reasons
  BY DEF Reasons
<1>6. /\ pipe' \in Clients /\ pipe'.pc = pipe.pc /\ pipe'.id = pipe.id /\ pipe'.poller = "end"
      /\ pipe'.reader = pipe.reader /\ pipe'.sent = pipe.sent /\ pipe'.out = p.out
      /\ pipe'.why = pipe.why \/ pipe'.why = why
  <2>1. r.why # "none" \/ r.why = "none"
    OBVIOUS
  <2> QED
    BY <1>3, <1>4, <1>5, <2>1, FinishedFacts
<1>7. /\ calls' \in [Paths -> Calls]
      /\ \A q \in Paths \ {"close"} : calls'[q] = b[q]
      /\ calls'["close"] = b["close"] \/ calls'["close"].id = pipe.id
  <2>1. CASE why = "none"
    BY <1>2, <1>4, <2>1
  <2>2. CASE why # "none"
    BY <1>1, <1>2, <1>4, <2>2, ClosingFacts
  <2> QED
    BY <2>1, <2>2
<1>8. /\ \A q \in Paths \ {"poll", "close"} : calls'[q] = calls[q]
      /\ calls'["close"] = calls["close"] \/ calls'["close"].id = pipe.id
      /\ Phase(calls'["poll"]) = "none"
  <2>1. "close" \in Paths \ {"poll"} /\ "poll" \in Paths \ {"close"}
    BY DEF Paths
  <2> QED
    BY <1>2, <1>7, <2>1
<1>9. /\ pipe'.why = "poll closed" => pipe.why = "poll closed" \/ EndOf(calls["poll"])
      /\ pipe'.why = "mark" => pipe.why = "mark" \/ (Shell /\ Sentinel(pipe'.out))
  BY <1>6
<1> QED
  BY <1>6, <1>7, <1>8, <1>9, TakenKeeps

(* The next poll: what it will bring follows what was written out.          *)
LEMMA PollAgainKeeps ==
  ASSUME IInv, Quiet, Phase(calls["poll"]) = "ok", NEW p \in Clients,
         p.id = pipe.id, p.pc = pipe.pc, p.sent = pipe.sent, p.reader = pipe.reader,
         p.poller = pipe.poller, p.why = pipe.why, p.out = pipe.out \o DataOf(calls["poll"]),
         PollAgain(p)
  PROVE  IInv'
<1>1. TypeInv /\ ClientInv /\ "poll" \in Paths
  BY DEF IInv, Paths
<1>2. pipe.poller = "poll" /\ pipe.why \notin {"poll closed", "mark"}
  BY <1>1 DEF ClientInv, PhaseOf
<1>3. pipe.id \in Nat /\ 0 \in Nat
  BY <1>1 DEF TypeInv, Clients
<1> DEFINE b == Back("poll")
<1>4. /\ b \in [Paths -> Calls]
      /\ \A q \in Paths \ {"poll"} : b[q] = calls[q]
  BY <1>1, BackFacts
<1>5. pipe' = p /\ calls' = [b EXCEPT !["poll"] = Asked("poll", pipe.id, 0)]
  BY DEF PollAgain
<1> HIDE DEF b
<1>6. /\ calls' \in [Paths -> Calls] /\ Phase(calls'["poll"]) = "pending"
      /\ calls'["poll"].id = pipe.id
      /\ \A q \in Paths \ {"poll"} : calls'[q] = b[q]
  BY <1>1, <1>3, <1>4, <1>5, AskFacts
<1>7. /\ \A q \in Paths \ {"poll", "close"} : calls'[q] = calls[q]
      /\ calls'["close"] = calls["close"]
  BY <1>4, <1>6 DEF Paths
<1> QED
  BY <1>2, <1>5, <1>6, <1>7, TakenKeeps

(* A poll without an answer ends the pipe. *)
LEMMA PollFails ==
  ASSUME IInv, Quiet, Phase(calls["poll"]) = "failed", PollsEnd(pipe, "failed")
  PROVE  IInv'
<1>1. TypeInv /\ ClientInv /\ "poll" \in Paths
  BY DEF IInv, Paths
<1>2. pipe.poller = "poll" /\ pipe.id # 0
  BY <1>1 DEF ClientInv, PhaseOf
<1>3. pipe \in Clients
  BY <1>1 DEF TypeInv
<1> DEFINE b == Back("poll")
           r == [pipe EXCEPT !.poller = "end"]
<1>4. /\ b \in [Paths -> Calls] /\ Phase(b["poll"]) = "none"
      /\ \A q \in Paths \ {"poll"} : b[q] = calls[q]
  BY <1>1, BackFacts
<1>5. /\ r \in Clients /\ r.pc = pipe.pc /\ r.id = pipe.id /\ r.poller = "end"
      /\ r.reader = pipe.reader /\ r.sent = pipe.sent /\ r.out = pipe.out /\ r.why = pipe.why
  BY <1>3, PollerEnds
<1>6. pipe' = Finished(r, "failed") /\ calls' = Closing(b, pipe)
  BY DEF PollsEnd
<1> HIDE DEF b, r
<1>7. b["send"] = calls["send"]
  BY <1>4 DEF Paths
<1>8. ~(Shell /\ (Phase(b["send"]) # "none" \/ r.reader = "read"))
  BY <1>1, <1>2, <1>5, <1>7 DEF ClientInv, PhaseOf
<1>9. \A q \in Paths : b[q] = calls[q] \/ Phase(b[q]) = "none"
  BY <1>4
<1> QED
  BY <1>2, <1>4, <1>5, <1>6, <1>8, <1>9, FinishKeeps

(* The client after it wrote out what came.                                 *)
LEMMA TookFacts ==
  ASSUME TypeInv, NEW data \in Seq(Nat)
  PROVE  LET p == [pipe EXCEPT !.out = @ \o data] IN
         /\ p \in Clients /\ p.id = pipe.id /\ p.pc = pipe.pc /\ p.sent = pipe.sent
         /\ p.reader = pipe.reader /\ p.poller = pipe.poller /\ p.why = pipe.why
         /\ p.polls = pipe.polls
         /\ p.out = pipe.out \o data
<1> DEFINE o == pipe.out \o data
<1>1. pipe \in Clients /\ o \in Seq(Nat)
  BY ConcatProperties DEF TypeInv, Clients
<1> HIDE DEF o
<1>2. LET p == [pipe EXCEPT !.out = o] IN
         /\ p \in Clients /\ p.id = pipe.id /\ p.pc = pipe.pc /\ p.sent = pipe.sent
         /\ p.reader = pipe.reader /\ p.poller = pipe.poller /\ p.why = pipe.why
         /\ p.polls = pipe.polls
         /\ p.out = o
  BY <1>1 DEF Clients
<1>3. [pipe EXCEPT !.out = @ \o data] = [pipe EXCEPT !.out = o]
  BY DEF o
<1> QED
  BY <1>2, <1>3 DEF o

(* The poller of pipeTunnel().                                              *)
LEMMA PipePolledKeeps ==
  ASSUME IInv, PipePolled
  PROVE  IInv'
<1>1. TypeInv /\ "poll" \in Paths /\ Came("poll") /\ Quiet
  BY DEF IInv, PipePolled, Paths
<1>2. /\ Phase(calls["poll"]) \in {"ok", "failed"}
      /\ Failed("poll") <=> Phase(calls["poll"]) = "failed"
      /\ Phase(calls["poll"]) = "ok" =>
           /\ Answer("poll") \in Replies
           /\ DataOf(calls["poll"]) = Answer("poll").data
           /\ EndOf(calls["poll"]) <=> Answer("poll").closed
  BY <1>1, CameFacts
<1>3. CASE Failed("poll")
  <2>1. PollsEnd(pipe, "failed")
    BY <1>3 DEF PipePolled
  <2> QED
    BY <1>1, <1>2, <1>3, <2>1, PollFails
<1>4. CASE ~Failed("poll")
  <2> DEFINE data == Answer("poll").data
             p == [pipe EXCEPT !.out = @ \o data]
  <2>1. \/ Answer("poll").closed /\ PollsEnd(p, "poll closed")
        \/ PollsEnd(p, "none")
        \/ PollAgain(p)
    BY <1>4 DEF PipePolled
  <2>2. Phase(calls["poll"]) = "ok" /\ data \in Seq(Nat) /\ data = DataOf(calls["poll"])
    BY <1>2, <1>4 DEF Replies
  <2> HIDE DEF data
  <2>3. /\ p \in Clients /\ p.id = pipe.id /\ p.pc = pipe.pc /\ p.sent = pipe.sent
        /\ p.reader = pipe.reader /\ p.poller = pipe.poller /\ p.why = pipe.why
        /\ p.out = pipe.out \o DataOf(calls["poll"])
    BY <1>1, <2>2, TookFacts
  <2> HIDE DEF p
  <2>4. CASE Answer("poll").closed /\ PollsEnd(p, "poll closed")
    <3>1. EndOf(calls["poll"])
      BY <1>2, <2>2, <2>4
    <3> QED
      BY <1>1, <2>2, <2>3, <2>4, <3>1, PollsEndKeeps
  <2>5. CASE PollsEnd(p, "none")
    BY <1>1, <2>2, <2>3, <2>5, PollsEndKeeps
  <2>6. CASE PollAgain(p)
    BY <1>1, <2>2, <2>3, <2>6, PollAgainKeeps
  <2> QED
    BY <2>1, <2>4, <2>5, <2>6
<1> QED
  BY <1>3, <1>4

(* The polls of execShell().                                                *)
LEMMA ExecPolledKeeps ==
  ASSUME IInv, ExecPolled
  PROVE  IInv'
<1>1. TypeInv /\ "poll" \in Paths /\ Came("poll") /\ Quiet /\ Shell
  BY DEF IInv, ExecPolled, Paths
<1>2. /\ Phase(calls["poll"]) \in {"ok", "failed"}
      /\ Failed("poll") <=> Phase(calls["poll"]) = "failed"
      /\ Phase(calls["poll"]) = "ok" =>
           /\ Answer("poll") \in Replies
           /\ DataOf(calls["poll"]) = Answer("poll").data
           /\ EndOf(calls["poll"]) <=> Answer("poll").closed
  BY <1>1, CameFacts
<1>3. CASE Failed("poll")
  <2>1. PollsEnd(pipe, "failed")
    BY <1>3 DEF ExecPolled
  <2> QED
    BY <1>1, <1>2, <1>3, <2>1, PollFails
<1>4. CASE ~Failed("poll")
  <2> DEFINE data == Answer("poll").data
             o == [pipe EXCEPT !.out = @ \o data]
             n == o.polls + 1
             p == [o EXCEPT !.polls = n]
  <2>1. \/ Sentinel(p.out) /\ PollsEnd(p, "mark")
        \/ Answer("poll").closed /\ PollsEnd(p, "poll closed")
        \/ PollsEnd(p, "polls")
        \/ PollAgain(p)
    BY <1>4 DEF ExecPolled
  <2>2. Phase(calls["poll"]) = "ok" /\ data \in Seq(Nat) /\ data = DataOf(calls["poll"])
    BY <1>2, <1>4 DEF Replies
  <2> HIDE DEF data
  <2>3. /\ o \in Clients /\ o.id = pipe.id /\ o.pc = pipe.pc /\ o.sent = pipe.sent
        /\ o.reader = pipe.reader /\ o.poller = pipe.poller /\ o.why = pipe.why
        /\ o.out = pipe.out \o DataOf(calls["poll"])
    BY <1>1, <2>2, TookFacts
  <2> HIDE DEF o
  <2>4. n \in Nat
    <3>1. o.polls \in Nat
      BY <2>3 DEF Clients
    <3> QED
      BY <3>1
  <2> HIDE DEF n
  <2>5. /\ p \in Clients /\ p.id = pipe.id /\ p.pc = pipe.pc /\ p.sent = pipe.sent
        /\ p.reader = pipe.reader /\ p.poller = pipe.poller /\ p.why = pipe.why
        /\ p.out = pipe.out \o DataOf(calls["poll"])
    BY <2>3, <2>4 DEF Clients
  <2> HIDE DEF p
  <2>6. CASE Sentinel(p.out) /\ PollsEnd(p, "mark")
    BY <1>1, <2>2, <2>5, <2>6, PollsEndKeeps
  <2>7. CASE Answer("poll").closed /\ PollsEnd(p, "poll closed")
    <3>1. EndOf(calls["poll"])
      BY <1>2, <2>2, <2>7
    <3> QED
      BY <1>1, <2>2, <2>5, <2>7, <3>1, PollsEndKeeps
  <2>8. CASE PollsEnd(p, "polls")
    BY <1>1, <2>2, <2>5, <2>8, PollsEndKeeps
  <2>9. CASE PollAgain(p)
    BY <1>1, <2>2, <2>5, <2>9, PollAgainKeeps
  <2> QED
    BY <2>1, <2>6, <2>7, <2>8, <2>9
<1> QED
  BY <1>3, <1>4

(* The client is killed: what it had asked is on the way, and it asks no    *)
(* more.                                                                    *)
LEMMA DieKeeps ==
  ASSUME IInv, Die
  PROVE  IInv'
<1>1. TypeInv /\ SettledInv /\ ClientInv /\ SendInv /\ PollInv
  BY DEF IInv
<1>2. /\ pipe.pc \in {"opening", "on"} /\ UNCHANGED <<kind, sess, repeated>>
      /\ pipe' = [pipe EXCEPT !.pc = "over", !.why = "died", !.reader = "end", !.poller = "end"]
      /\ calls' = [path \in Paths |-> NoCall]
  BY DEF Die
<1>3. /\ pipe' \in Clients /\ pipe'.pc = "over" /\ pipe'.id = pipe.id /\ pipe'.reader = "end"
      /\ pipe'.poller = "end" /\ pipe'.sent = pipe.sent /\ pipe'.out = pipe.out
      /\ pipe'.why = "died"
  <2> DEFINE p1 == [pipe EXCEPT !.pc = "over", !.why = "died"]
             p2 == [p1 EXCEPT !.reader = "end"]
             p3 == [p2 EXCEPT !.poller = "end"]
  <2>1. pipe' = p3
    BY <1>2
  <2>2. /\ p1 \in Clients /\ p1.pc = "over" /\ p1.why = "died" /\ p1.id = pipe.id
        /\ p1.sent = pipe.sent /\ p1.out = pipe.out
    BY <1>1 DEF TypeInv, Clients
  <2> HIDE DEF p1
  <2>3. /\ p2 \in Clients /\ p2.pc = p1.pc /\ p2.id = p1.id /\ p2.reader = "end"
        /\ p2.poller = p1.poller /\ p2.sent = p1.sent /\ p2.out = p1.out /\ p2.why = p1.why
    BY <2>2, ReaderEnds
  <2> HIDE DEF p2
  <2>4. /\ p3 \in Clients /\ p3.pc = p2.pc /\ p3.id = p2.id /\ p3.poller = "end"
        /\ p3.reader = p2.reader /\ p3.sent = p2.sent /\ p3.out = p2.out /\ p3.why = p2.why
    BY <2>3, PollerEnds
  <2> QED
    BY <2>1, <2>2, <2>3, <2>4
<1>4. calls' \in [Paths -> Calls] /\ \A path \in Paths : Phase(calls'[path]) = "none"
  BY <1>2, NoCallFacts
<1>5. \A q \in strays' :
        \/ q \in strays
        \/ /\ q.path \in Paths /\ Out(q.path) /\ calls[q.path].answer = Pending
           /\ q = Request(q.path)
  BY DEF Die, Request
<1>6. \A q \in strays' :
        \/ q \in strays
        \/ /\ q.path \in Paths /\ Phase(calls[q.path]) = "pending" /\ q \in Requests
           /\ q.id = calls[q.path].id /\ q.data = calls[q.path].data
  <2>1. SUFFICES ASSUME NEW q \in strays', q \notin strays
                 PROVE  /\ q.path \in Paths /\ Phase(calls[q.path]) = "pending" /\ q \in Requests
                        /\ q.id = calls[q.path].id /\ q.data = calls[q.path].data
    OBVIOUS
  <2> DEFINE path == q.path
  <2>2. path \in Paths /\ Out(path) /\ calls[path].answer = Pending /\ q = Request(path)
    BY <1>5, <2>1
  <2> HIDE DEF path
  <2>3. calls[path].answer.state = Phase(calls[path]) /\ Request(path) \in Requests
    BY <1>1, <2>2, OutFacts
  <2>4. Phase(calls[path]) = "pending"
    BY <2>2, <2>3 DEF Pending
  <2>5. q.id = calls[path].id /\ q.data = calls[path].data
    BY <2>2 DEF Request
  <2> QED
    BY <2>2, <2>3, <2>4, <2>5 DEF path
<1>7. TypeInv'
  <2>1. strays' \subseteq Requests
    BY <1>1, <1>6 DEF TypeInv
  <2> QED
    BY <1>1, <1>2, <1>3, <1>4, <2>1 DEF TypeInv
<1>8. SettledInv'
  BY <1>1, <1>2, <1>3 DEF SettledInv, Ids
<1>9. (Shell' <=> Shell) /\ Ids' = Ids /\ Ids \subseteq DOMAIN sess' /\ sess' = sess
  BY <1>2 DEF Shell, Ids
<1>10. ClientInv'
  <2>1. \A q \in strays' : q.path = "open" \/ q.id = pipe'.id
    BY <1>1, <1>3, <1>6 DEF ClientInv, PhaseOf
  <2>2. pipe'.id = 0 => /\ \A path \in Paths \ {"open"} : ~StrayOf(path)'
                        /\ pipe'.sent = 0 /\ pipe'.out = <<>>
    <3>1. SUFFICES ASSUME pipe.id = 0
                   PROVE  /\ \A path \in Paths \ {"open"} : ~StrayOf(path)'
                          /\ pipe'.sent = 0 /\ pipe'.out = <<>>
      BY <1>3
    <3>2. /\ \A path \in Paths \ {"open"} : Phase(calls[path]) = "none" /\ ~StrayOf(path)
          /\ pipe.sent = 0 /\ pipe.out = <<>>
      BY <1>1, <3>1 DEF ClientInv, PhaseOf
    <3>3. \A q \in strays' : q.path \in Paths \ {"open"} => q \in strays
      BY <1>6, <3>2
    <3>4. \A path \in Paths \ {"open"} : ~StrayOf(path)'
      BY <3>2, <3>3 DEF StrayOf
    <3> QED
      BY <1>3, <3>2, <3>4
  <2>3. \A path \in Paths : PhaseOf(path)' = "none"
    BY <1>4 DEF PhaseOf
  <2>4. PhaseOf("open")' = "none" /\ PhaseOf("send")' = "none" /\ PhaseOf("poll")' = "none"
    BY <2>3 DEF Paths
  <2>5. pipe.id \in Ids \cup {0} /\ (Shell => pipe.sent <= 1)
    BY <1>1 DEF ClientInv
  <2> QED
    BY <1>3, <1>9, <2>1, <2>2, <2>3, <2>4, <2>5 DEF ClientInv
<1>11. CallMoves(calls["send"], calls'["send"]) /\ CallMoves(calls["poll"], calls'["poll"])
       /\ Phase(calls'["send"]) = "none" /\ Phase(calls'["poll"]) = "none"
  BY <1>4 DEF CallMoves, Paths
<1>12. pipe.id # 0 => SendKept(sess[pipe.id], sess'[pipe.id]) /\ PollKept(sess[pipe.id], sess'[pipe.id])
  BY <1>9 DEF SendKept, PollKept
<1>13. repeated => repeated'
  BY <1>2
<1>14. \A q \in strays' : q.path = "send" =>
          \/ q \in strays
          \/ /\ Phase(calls["send"]) = "pending" /\ Phase(calls'["send"]) \in {"none", "failed"}
             /\ pipe'.reader # "read" /\ q.data = pipe.sent
  BY <1>1, <1>3, <1>6, <1>11 DEF ClientInv, PhaseOf
<1>15. \A q \in strays' : q.path = "poll" =>
          \/ q \in strays
          \/ /\ Phase(calls["poll"]) = "pending" /\ Phase(calls'["poll"]) \in {"none", "failed"}
             /\ pipe'.poller # "off"
  BY <1>3, <1>6, <1>11
<1>16. SendInv'
  BY <1>1, <1>3, <1>7, <1>9, <1>11, <1>12, <1>13, <1>14, SendCarried
<1>17. PollInv'
  BY <1>1, <1>3, <1>7, <1>9, <1>11, <1>12, <1>13, <1>15, PollCarried
<1> QED
  BY <1>7, <1>8, <1>10, <1>16, <1>17 DEF IInv

-----------------------------------------------------------------------------
(* The theorems *)

(* The invariant holds before anything is opened,                           *)
THEOREM InitIInv == Init => IInv
<1>1. SUFFICES ASSUME Init PROVE IInv
  OBVIOUS
<1>2. /\ sess = <<>> /\ calls = [path \in Paths |-> NoCall] /\ strays = {} /\ pipe = Start
      /\ repeated = FALSE
  BY <1>1 DEF Init
<1>3. <<>> \in Seq(Entries) /\ <<>> \in Seq(Nat) /\ Ids = {}
  BY <1>2, EmptySeq DEF Ids
<1>4. /\ pipe \in Clients /\ pipe.pc = "start" /\ pipe.id = 0 /\ pipe.reader = "off"
      /\ pipe.poller = "off" /\ pipe.sent = 0 /\ pipe.out = <<>> /\ pipe.why = "none"
  BY <1>2, <1>3 DEF Start, Clients
<1>5. calls \in [Paths -> Calls] /\ \A path \in Paths : PhaseOf(path) = "none"
  BY <1>2, NoCallFacts DEF PhaseOf
<1>6. TypeInv
  BY <1>2, <1>3, <1>4, <1>5 DEF TypeInv
<1>7. SettledInv
  BY <1>3 DEF SettledInv
<1>8. PhaseOf("open") = "none" /\ PhaseOf("send") = "none" /\ PhaseOf("poll") = "none"
  BY <1>5 DEF Paths
<1>9. ClientInv
  BY <1>2, <1>4, <1>5, <1>8 DEF ClientInv, StrayOf
<1>10. SendInv /\ PollInv
  BY <1>4 DEF SendInv, PollInv
<1> QED
  BY <1>6, <1>7, <1>9, <1>10 DEF IInv

(* and every step keeps it,                                                 *)
THEOREM NextIInv == IInv /\ [Next]_vars => IInv'
<1>1. SUFFICES ASSUME IInv, [Next]_vars PROVE IInv'
  OBVIOUS
<1>2. CASE Open \/ Opened \/ SendLine \/ Sent \/ LineSent
  BY <1>1, <1>2, OpenKeeps, OpenedKeeps, SendLineKeeps, SentKeeps, LineSentKeeps
<1>3. CASE PipePolled \/ ExecPolled \/ Closed \/ Return
  BY <1>1, <1>3, PipePolledKeeps, ExecPolledKeeps, ClosedKeeps, ReturnKeeps
<1>4. CASE ReadChunk \/ InputEnds \/ Die
  BY <1>1, <1>4, ReadChunkKeeps, InputEndsKeeps, DieKeeps
<1>5. ASSUME NEW path \in Paths, Serve(path) \/ TurnedAway(path) \/ CutOff(path) \/ Unreachable(path)
      PROVE  IInv'
  BY <1>1, <1>5, ServeKeeps, TurnedAwayKeeps, CutOffKeeps, UnreachableKeeps
<1>6. ASSUME NEW q \in strays, ServeStray(q)
      PROVE  IInv'
  BY <1>1, <1>6, StrayKeeps
<1>7. ASSUME NEW i \in Ids, Deliver(i) \/ TunnelData(i) \/ ShellData(i)
      PROVE  IInv'
  BY <1>1, <1>7, DeliverKeeps, TunnelDataKeeps, ShellDataKeeps
<1>8. ASSUME NEW i \in Ids, \/ Ends(i) \/ EndEvent(i) \/ SocketFails(i) \/ ChildFails(i)
                            \/ Age(i) \/ GrowOld(i) \/ Types(i)
      PROVE  IInv'
  BY <1>1, <1>8, EventsKeep
<1>9. CASE Sweep \/ Stop
  BY <1>1, <1>9, SweepKeeps, StopKeeps
<1>10. CASE UNCHANGED vars \/ \E i \in Ids : PrintsOn(i)
  <2>1. /\ UNCHANGED <<kind, calls, strays, pipe, repeated>> /\ sess' = sess
    BY <1>10 DEF vars, PrintsOn, Behind
  <2>2. FadesTo(sess')
    BY <1>1, <2>1, SameSessions DEF IInv
  <2> QED
    BY <1>1, <2>1, <2>2, SessionsFade
<1> QED
  BY <1>1, <1>2, <1>3, <1>4, <1>5, <1>6, <1>7, <1>8, <1>9, <1>10 DEF Next, ClientStep

(* so it holds of every behaviour, for any numbers of addresses, sessions,  *)
(* chunks, polls and losses.                                                *)
THEOREM SpecIInv == Spec => []IInv
<1>1. Init => IInv
  BY InitIInv
<1>2. IInv /\ [Next]_vars => IInv'
  BY NextIInv
<1> QED
  BY <1>1, <1>2, PTL DEF Spec

(* What the invariant says of the client's session as long as no call was   *)
(* made twice.                                                              *)
LEMMA SeenByClient ==
  ASSUME IInv, pipe.id # 0, ~repeated
  PROVE  /\ Mine \in Entries /\ pipe.sent \in Nat /\ pipe.out \in Seq(Nat)
         /\ Settled(kind, Mine)
         /\ Begins(Mine.got, pipe.sent)
         /\ ~Mine.error => Begins(pipe.out, Mine.made)
<1>1. TypeInv /\ SettledInv /\ ClientInv /\ SendInv /\ PollInv
  BY DEF IInv
<1>2. Mine \in Entries /\ Settled(kind, Mine)
  BY <1>1, MineOf DEF SettledInv, Mine
<1>3. pipe.sent \in Nat /\ pipe.out \in Seq(Nat)
  BY <1>1 DEF TypeInv, Clients
<1>4. Begins(Mine.got, pipe.sent)
  BY <1>1 DEF SendInv, SendOK
<1>5. ~Mine.error => Begins(pipe.out, Mine.made)
  <2> DEFINE d == DataOf(calls["poll"])
  <2>1. calls["poll"] \in Calls
    BY <1>1 DEF TypeInv, Paths
  <2>2. d \in Seq(Nat)
    BY <2>1, CallFacts
  <2>3. ~Mine.error => Begins(pipe.out \o d, Mine.made)
    BY <1>1 DEF PollInv, PollOK
  <2>4. Mine.made \in Nat
    BY <1>2 DEF Entries
  <2> HIDE DEF d
  <2> QED
    BY <1>3, <2>2, <2>3, <2>4, BeginsLeft
<1> QED
  BY <1>2, <1>3, <1>4, <1>5

(* Sessions.StreamsAreKept: what the far side has read of a pipe, and the   *)
(* client of it, is the beginning of what was written, without a gap or a   *)
(* repetition, whatever was lost, killed, swept or stopped.                 *)
THEOREM StreamsKept == Spec => []StreamsAreKept
<1>1. IInv => StreamsAreKept
  <2>1. SUFFICES ASSUME IInv, pipe.id # 0, ~repeated
                 PROVE  /\ IsPrefix(Mine.got, UpTo(pipe.sent))
                        /\ ~Mine.error => IsPrefix(pipe.out, UpTo(Mine.made))
    BY DEF StreamsAreKept
  <2>2. /\ Mine \in Entries /\ pipe.sent \in Nat /\ pipe.out \in Seq(Nat)
        /\ Begins(Mine.got, pipe.sent)
        /\ ~Mine.error => Begins(pipe.out, Mine.made)
    BY <2>1, SeenByClient
  <2>3. Mine.got \in Seq(Nat) /\ Mine.made \in Nat
    BY <2>2 DEF Entries
  <2>4. IsPrefix(Mine.got, UpTo(pipe.sent))
    BY <2>2, <2>3, BeginsIsPrefix
  <2>5. ~Mine.error => IsPrefix(pipe.out, UpTo(Mine.made))
    BY <2>2, <2>3, BeginsIsPrefix
  <2> QED
    BY <2>4, <2>5
<1> QED
  BY <1>1, SpecIInv, PTL

(* Sessions.EndsAreWhole: a pipe whose poll found the end has all that the  *)
(* far side made, and an execShell() that saw its sentinel ran its line     *)
(* once and has its whole output.                                           *)
THEOREM EndsWhole == Spec => []EndsAreWhole
<1>1. IInv => EndsAreWhole
  <2>1. SUFFICES ASSUME IInv, pipe.id # 0, ~repeated, ~Mine.error
                 PROVE  /\ pipe.why = "poll closed" => pipe.out = UpTo(Mine.made)
                        /\ pipe.why = "mark" => pipe.out = UpTo(OutLen) /\ Mine.got = <<1>>
    BY DEF EndsAreWhole
  <2>2. ClientInv /\ PollInv
    BY <2>1 DEF IInv
  <2>3. /\ pipe.why = "poll closed" => pipe.out = UpTo(Mine.made)
        /\ pipe.why = "mark" => pipe.out = UpTo(OutLen)
    BY <2>1, <2>2 DEF PollInv, PollOK
  <2>4. ASSUME pipe.why = "mark"
        PROVE  Mine.got = <<1>>
    <3>1. Shell /\ pipe.sent <= 1
      BY <2>2, <2>4 DEF ClientInv
    <3>2. /\ Mine \in Entries /\ pipe.sent \in Nat
          /\ Settled(kind, Mine)
          /\ Begins(Mine.got, pipe.sent)
          /\ Begins(pipe.out, Mine.made)
      BY <2>1, SeenByClient
    <3>3. Len(pipe.out) = OutLen /\ OutLen \in Nat \ {0}
      BY <2>3, <2>4, UpToIsASeq, ConstantsInNat
    <3>4. Mine.made \in Nat /\ Mine.got \in Seq(Nat)
      BY <3>2 DEF Entries
    <3>5. Len(pipe.out) <= Mine.made
      BY <3>2 DEF Begins
    <3>6. Mine.made > 0
      BY <3>3, <3>4, <3>5
    <3>7. Mine.got # <<>>
      BY <3>1, <3>2, <3>6 DEF Settled, Shell
    <3>8. Len(Mine.got) \in Nat /\ Len(Mine.got) # 0
      BY <3>4, <3>7, LenProperties, EmptySeq
    <3>9. Len(Mine.got) <= pipe.sent /\ Mine.got = UpTo(Len(Mine.got))
      BY <3>2 DEF Begins
    <3>10. Len(Mine.got) = 1
      <4>1. \A k, n \in Nat : k # 0 /\ k <= n /\ n <= 1 => k = 1
        OBVIOUS
      <4>2. pipe.sent \in Nat
        BY <3>2
      <4> QED
        BY <3>1, <3>8, <3>9, <4>1, <4>2
    <3>11. UpTo(1) = <<1>>
      <4>1. Append(UpTo(0), 0 + 1) = UpTo(0 + 1)
        BY UpToNext
      <4>2. UpTo(0) = <<>>
        BY UpToZero
      <4> QED
        BY <4>1, <4>2
    <3> QED
      BY <3>9, <3>10, <3>11
  <2> QED
    BY <2>3, <2>4
<1> QED
  BY <1>1, SpecIInv, PTL

-----------------------------------------------------------------------------
(* The history *)

Endings == {"idle", "lifetime", "closed", "exited"}
Events == {"opened", "limit", "not started"} \cup Endings
Records == [id: Nat, event: Events]

(* The k-th record of history l, with sessions s. All but "opened" are of a *)
(* session whose end is recorded; of such a session the list has, after     *)
(* "opened", another record; a session that is gone is such a one; and an   *)
(* end that is no error's is of one that is gone, without error.            *)
RecordOK(l, s, k) ==
  LET i == l[k].id IN
  /\ i \in DOMAIN s
  /\ l[k].event # "opened" => s[i].recorded
  /\ l[k].event = "opened" /\ s[i].recorded => \E j \in DOMAIN l : k < j /\ l[j].id = i
  /\ ~s[i].held => s[i].recorded
  /\ l[k].event \in Endings => ~s[i].held /\ ~s[i].error

(* What two records are, one after the other.                               *)
InTurn(r, q) == r.id = q.id => r.event = "opened" \/ q.event = "limit"

(* What holds of history l, however much was cut off it, with sessions s.   *)
LogOK(l, s) ==
  /\ l \in Seq(Records)
  /\ \A k \in DOMAIN l : RecordOK(l, s, k)
  /\ \A j, k \in DOMAIN l : j < k => InTurn(l[j], l[k])

(* The history of shells; tunnels have none.                                *)
LogInv == IF Shell THEN LogOK(log, sess) ELSE log = <<>>

(* From e to f with nothing to record.                                      *)
Unnoted(e, f) ==
  /\ f.recorded <=> e.recorded
  /\ f.held => e.held
  /\ (f.held <=> e.held) \/ e.recorded
  /\ f.error => e.error \/ e.held

(* From s to t with r to record: a session that is opened;                  *)
Opens(s, t, r) ==
  /\ r.event = "opened" /\ r.id \in DOMAIN t \ DOMAIN s
  /\ t[r.id].held /\ ~t[r.id].recorded

(* one that is forgotten; one that overflows, in the map or out of it.      *)
Goes(s, t, r) ==
  /\ r.event \in Endings \cup {"not started"} /\ r.id \in DOMAIN s
  /\ ~s[r.id].recorded /\ t[r.id].recorded /\ ~t[r.id].held
  /\ r.event \in Endings => ~t[r.id].error

Overflows(s, t, r) ==
  /\ r.event = "limit" /\ r.id \in DOMAIN s
  /\ t[r.id].recorded /\ (t[r.id].held <=> s[r.id].held)
  /\ t[r.id].error => s[r.id].error \/ s[r.id].held

(* es are the records of a step from s to t: at most one of a session.      *)
Noting(s, t, es) ==
  /\ es \in Seq(Records)
  /\ DOMAIN s \subseteq DOMAIN t
  /\ \A j, k \in DOMAIN es : j < k => es[j].id # es[k].id
  /\ \A k \in DOMAIN es : Opens(s, t, es[k]) \/ Goes(s, t, es[k]) \/ Overflows(s, t, es[k])
  /\ \A i \in DOMAIN s : Unnoted(s[i], t[i]) \/ \E k \in DOMAIN es : es[k].id = i

(* The records of a concatenation.                                          *)
LEMMA ConcatRecords ==
  ASSUME NEW l \in Seq(Records), NEW es \in Seq(Records)
  PROVE  LET n == l \o es IN
         /\ n \in Seq(Records) /\ DOMAIN n = 1..(Len(l) + Len(es))
         /\ DOMAIN l = 1..Len(l) /\ DOMAIN es = 1..Len(es)
         /\ Len(l) \in Nat /\ Len(es) \in Nat
         /\ \A k \in DOMAIN l : n[k] = l[k]
         /\ \A k \in DOMAIN es : n[Len(l) + k] = es[k]
         /\ \A k \in DOMAIN n : k \in DOMAIN l \/ \E m \in DOMAIN es : k = Len(l) + m
<1> DEFINE n == l \o es
<1>1. /\ Len(l) \in Nat /\ Len(es) \in Nat
      /\ DOMAIN l = 1..Len(l) /\ DOMAIN es = 1..Len(es)
  BY LenProperties
<1>2. /\ n \in Seq(Records) /\ Len(n) = Len(l) + Len(es)
      /\ \A k \in 1..Len(l) : n[k] = l[k]
      /\ \A k \in 1..Len(es) : n[Len(l) + k] = es[k]
  BY <1>1, ConcatProperties
<1>3. DOMAIN n = 1..(Len(l) + Len(es))
  BY <1>2, LenProperties
<1> HIDE DEF n
<1>4. ASSUME NEW k \in DOMAIN n, k \notin DOMAIN l
      PROVE  \E m \in DOMAIN es : k = Len(l) + m
  <2> DEFINE m == k - Len(l)
  <2>1. m \in 1..Len(es) /\ k = Len(l) + m
    BY <1>1, <1>3, <1>4
  <2> QED
    BY <1>1, <2>1
<1> QED
  BY <1>1, <1>2, <1>3, <1>4 DEF n

(* A record that was right stays so, with what is recorded after it.        *)
LEMMA OldRecordStays ==
  ASSUME NEW l, NEW s, NEW t, NEW es, NEW n, NEW k \in DOMAIN l,
         LogOK(l, s), Noting(s, t, es), n[k] = l[k],
         DOMAIN l \subseteq DOMAIN n,
         \A j \in DOMAIN l : n[j] = l[j],
         \A m \in DOMAIN es : \E j \in DOMAIN n : k < j /\ n[j] = es[m]
  PROVE  RecordOK(n, t, k)
<1> DEFINE i == l[k].id
<1>1. /\ i \in DOMAIN s /\ i \in DOMAIN t
      /\ l[k].event # "opened" => s[i].recorded
      /\ l[k].event = "opened" /\ s[i].recorded => \E j \in DOMAIN l : k < j /\ l[j].id = i
      /\ ~s[i].held => s[i].recorded
      /\ l[k].event \in Endings => ~s[i].held /\ ~s[i].error
  BY DEF LogOK, RecordOK, Noting
<1>2. n[k].id = i /\ n[k].event = l[k].event
  OBVIOUS
<1> HIDE DEF i
<1>3. CASE Unnoted(s[i], t[i])
  <2>1. l[k].event = "opened" /\ t[i].recorded => \E j \in DOMAIN n : k < j /\ n[j].id = i
    BY <1>1, <1>3 DEF Unnoted
  <2> QED
    BY <1>1, <1>2, <1>3, <2>1 DEF Unnoted, RecordOK
<1>4. CASE ~Unnoted(s[i], t[i])
  <2>1. PICK m \in DOMAIN es : es[m].id = i
    BY <1>1, <1>4 DEF Noting
  <2>2. \E j \in DOMAIN n : k < j /\ n[j].id = i
    BY <2>1
  <2>3. Goes(s, t, es[m]) \/ Overflows(s, t, es[m])
    BY <1>1, <2>1 DEF Noting, Opens
  <2>4. CASE Goes(s, t, es[m])
    <3>1. ~s[i].recorded /\ t[i].recorded
      BY <2>1, <2>4 DEF Goes
    <3>2. l[k].event = "opened" /\ l[k].event \notin Endings
      BY <1>1, <3>1 DEF Endings
    <3> QED
      BY <1>1, <1>2, <2>2, <3>1, <3>2 DEF RecordOK
  <2>5. CASE Overflows(s, t, es[m])
    <3>1. t[i].recorded /\ (t[i].held <=> s[i].held) /\ (t[i].error => s[i].error \/ s[i].held)
      BY <2>1, <2>5 DEF Overflows
    <3> QED
      BY <1>1, <1>2, <2>2, <3>1 DEF RecordOK
  <2> QED
    BY <2>3, <2>4, <2>5
<1> QED
  BY <1>3, <1>4

(* A record that comes is right.                                            *)
LEMMA NewRecordFits ==
  ASSUME NEW s, NEW t, NEW n, NEW k, DOMAIN s \subseteq DOMAIN t,
         Opens(s, t, n[k]) \/ Goes(s, t, n[k]) \/ Overflows(s, t, n[k])
  PROVE  RecordOK(n, t, k)
BY DEF RecordOK, Opens, Goes, Overflows, Endings

(* The history grows.                                                       *)
LEMMA LogGrows ==
  ASSUME NEW l, NEW s, NEW t, NEW es, LogOK(l, s), Noting(s, t, es)
  PROVE  LogOK(l \o es, t)
<1> DEFINE n == l \o es
<1>1. l \in Seq(Records) /\ es \in Seq(Records) /\ DOMAIN s \subseteq DOMAIN t
  BY DEF LogOK, Noting
<1>2. /\ n \in Seq(Records) /\ DOMAIN n = 1..(Len(l) + Len(es))
      /\ DOMAIN l = 1..Len(l) /\ DOMAIN es = 1..Len(es)
      /\ Len(l) \in Nat /\ Len(es) \in Nat
      /\ \A k \in DOMAIN l : n[k] = l[k]
      /\ \A k \in DOMAIN es : n[Len(l) + k] = es[k]
      /\ \A k \in DOMAIN n : k \in DOMAIN l \/ \E m \in DOMAIN es : k = Len(l) + m
  BY <1>1, ConcatRecords
<1> HIDE DEF n
<1>3. DOMAIN l \subseteq DOMAIN n
  BY <1>2
<1>4. ASSUME NEW k \in DOMAIN l, NEW m \in DOMAIN es
      PROVE  Len(l) + m \in DOMAIN n /\ k < Len(l) + m /\ n[Len(l) + m] = es[m]
  BY <1>2
<1>5. ASSUME NEW k \in DOMAIN n
      PROVE  RecordOK(n, t, k)
  <2>1. CASE k \in DOMAIN l
    <3>1. \A m \in DOMAIN es : \E j \in DOMAIN n : k < j /\ n[j] = es[m]
      BY <1>4, <2>1
    <3>2. n[k] = l[k] /\ \A j \in DOMAIN l : n[j] = l[j]
      BY <1>2, <2>1
    <3> QED
      BY <1>3, <2>1, <3>1, <3>2, OldRecordStays
  <2>2. CASE \E m \in DOMAIN es : k = Len(l) + m
    <3>1. PICK m \in DOMAIN es : k = Len(l) + m
      BY <2>2
    <3>2. n[k] = es[m]
      BY <1>2, <3>1
    <3>3. Opens(s, t, n[k]) \/ Goes(s, t, n[k]) \/ Overflows(s, t, n[k])
      BY <3>2 DEF Noting
    <3> QED
      BY <1>1, <3>3, NewRecordFits
  <2> QED
    BY <1>2, <2>1, <2>2
<1>6. ASSUME NEW j \in DOMAIN n, NEW k \in DOMAIN n, j < k
      PROVE  InTurn(n[j], n[k])
  <2>1. CASE j \in DOMAIN l /\ k \in DOMAIN l
    <3>1. n[j] = l[j] /\ n[k] = l[k] /\ InTurn(l[j], l[k])
      BY <1>2, <1>6, <2>1 DEF LogOK
    <3> QED
      BY <3>1
  <2>2. CASE k \notin DOMAIN l
    <3>1. PICK m \in DOMAIN es : k = Len(l) + m
      BY <1>2, <2>2
    <3>2. n[k] = es[m]
      BY <1>2, <3>1
    <3>3. CASE j \in DOMAIN l
      <4>1. n[j] = l[j] /\ RecordOK(l, s, j)
        BY <1>2, <3>3 DEF LogOK
      <4>2. CASE Opens(s, t, es[m])
        BY <3>2, <4>1, <4>2 DEF Opens, RecordOK, InTurn
      <4>3. CASE Goes(s, t, es[m])
        BY <3>2, <4>1, <4>3 DEF Goes, RecordOK, InTurn
      <4>4. CASE Overflows(s, t, es[m])
        BY <3>2, <4>4 DEF Overflows, InTurn
      <4> QED
        BY <4>2, <4>3, <4>4 DEF Noting
    <3>4. CASE j \notin DOMAIN l
      <4>1. PICK p \in DOMAIN es : j = Len(l) + p
        BY <1>2, <3>4
      <4>2. n[j] = es[p] /\ p < m
        BY <1>2, <1>6, <3>1, <4>1
      <4>3. es[p].id # es[m].id
        BY <4>2 DEF Noting
      <4> QED
        BY <3>2, <4>2, <4>3 DEF InTurn
    <3> QED
      BY <3>3, <3>4
  <2>3. CASE j \notin DOMAIN l /\ k \in DOMAIN l
    <3>1. PICK p \in DOMAIN es : j = Len(l) + p
      BY <1>2, <2>3
    <3> QED
      BY <1>2, <1>6, <2>3, <3>1
  <2> QED
    BY <2>1, <2>2, <2>3
<1>7. LogOK(n, t)
  BY <1>2, <1>5, <1>6 DEF LogOK
<1> QED
  BY <1>7 DEF n

(* The history is cut: what is listed after a record stays with it.         *)
LEMMA LogCut ==
  ASSUME NEW l, NEW s, LogOK(l, s)
  PROVE  LogOK(Newest(l), s)
<1>1. MaxLog \in Nat \ {0}
  BY SessionsAssumption
<1>2. l \in Seq(Records) /\ Len(l) \in Nat /\ DOMAIN l = 1..Len(l)
  BY LenProperties DEF LogOK
<1>3. CASE Len(l) <= MaxLog
  BY <1>3 DEF Newest
<1>4. CASE Len(l) > MaxLog
  <2> DEFINE c == Len(l) - MaxLog
             n == SubSeq(l, c + 1, Len(l))
  <2>1. Newest(l) = n
    BY <1>1, <1>2, <1>4 DEF Newest
  <2>2. c \in Nat /\ c + MaxLog = Len(l)
    BY <1>1, <1>2, <1>4
  <2>3. /\ n \in Seq(Records) /\ Len(n) = MaxLog
        /\ \A k \in 1..MaxLog : n[k] = l[c + k]
    <3>1. \A k \in (c + 1)..Len(l) : l[k] \in Records
      BY <1>2, <2>2, ElementOfSeq
    <3>2. /\ SubSeq(l, c + 1, Len(l)) \in Seq(Records)
          /\ Len(SubSeq(l, c + 1, Len(l))) = IF c + 1 <= Len(l) THEN Len(l) - (c + 1) + 1 ELSE 0
          /\ \A k \in 1..(Len(l) - (c + 1) + 1) : SubSeq(l, c + 1, Len(l))[k] = l[c + 1 + k - 1]
      BY <1>2, <2>2, <3>1, SubSeqProperties
    <3> HIDE DEF c
    <3>3. c + 1 <= Len(l) /\ Len(l) - (c + 1) + 1 = MaxLog
      <4>1. \A a, b \in Nat, m \in Nat \ {0} : a + m = b => a + 1 <= b /\ b - (a + 1) + 1 = m
        OBVIOUS
      <4> QED
        BY <1>1, <1>2, <2>2, <4>1
    <3>4. \A k \in Nat : c + 1 + k - 1 = c + k
      BY <2>2
    <3>5. n \in Seq(Records) /\ Len(n) = MaxLog
      BY <3>2, <3>3
    <3>6. \A k \in 1..MaxLog : n[k] = l[c + 1 + k - 1]
      BY <3>2, <3>3
    <3>7. \A k \in 1..MaxLog : n[k] = l[c + k]
      <4>1. \A k \in 1..MaxLog : k \in Nat
        BY <1>1
      <4> QED
        BY <3>4, <3>6, <4>1
    <3> QED
      BY <3>5, <3>7
  <2>4. DOMAIN n = 1..MaxLog
    BY <2>3, LenProperties
  <2> HIDE DEF n, c
  <2>5. ASSUME NEW k \in DOMAIN n
        PROVE  c + k \in DOMAIN l /\ n[k] = l[c + k] /\ k \in Nat
    BY <1>1, <1>2, <2>2, <2>3, <2>4
  <2>6. ASSUME NEW k \in DOMAIN n
        PROVE  RecordOK(n, s, k)
    <3> DEFINE i == n[k].id
    <3>1. RecordOK(l, s, c + k) /\ n[k] = l[c + k]
      BY <2>5 DEF LogOK
    <3>2. ASSUME NEW j \in DOMAIN l, c + k < j
          PROVE  \E m \in DOMAIN n : k < m /\ n[m] = l[j]
      <4>1. j - c \in 1..MaxLog /\ k < j - c /\ c + (j - c) = j
        BY <1>1, <1>2, <2>2, <2>5, <3>2
      <4> QED
        BY <2>3, <2>4, <4>1
    <3> QED
      BY <3>1, <3>2 DEF RecordOK
  <2>7. ASSUME NEW j \in DOMAIN n, NEW k \in DOMAIN n, j < k
        PROVE  InTurn(n[j], n[k])
    <3>1. /\ c + j \in DOMAIN l /\ n[j] = l[c + j] /\ j \in Nat
          /\ c + k \in DOMAIN l /\ n[k] = l[c + k] /\ k \in Nat
      BY <2>5
    <3>2. c + j < c + k
      BY <2>2, <2>7, <3>1
    <3> QED
      BY <3>1, <3>2 DEF LogOK
  <2> QED
    BY <2>1, <2>3, <2>6, <2>7 DEF LogOK
<1> QED
  BY <1>1, <1>2, <1>3, <1>4

(* record()                                                                 *)
LEMMA RecordedLog ==
  ASSUME NEW es, LogOK(log, sess), Noting(sess, sess', es), Recorded(es)
  PROVE  LogOK(log', sess')
BY LogGrows, LogCut DEF Recorded

(* Nothing is recorded.                                                     *)
LEMMA UnrecordedLog ==
  ASSUME NEW l, NEW s, NEW t, LogOK(l, s), DOMAIN s \subseteq DOMAIN t,
         \A i \in DOMAIN s : Unnoted(s[i], t[i])
  PROVE  LogOK(l, t) /\ Noting(s, t, <<>>)
<1>1. <<>> \in Seq(Records) /\ DOMAIN <<>> = {}
  BY EmptySeq
<1>2. Noting(s, t, <<>>)
  BY <1>1 DEF Noting
<1>3. l \o <<>> = l
  BY ConcatEmptySeq DEF LogOK
<1> QED
  BY <1>2, <1>3, LogGrows

(* One session changes, and nothing is recorded.                            *)
LEMMA OneUnnoted ==
  ASSUME LogOK(log, sess), NEW i \in Ids, NEW f, Unnoted(sess[i], f),
         NEW t, t = [sess EXCEPT ![i] = f]
  PROVE  LogOK(log, t) /\ Noting(sess, t, <<>>)
<1>1. DOMAIN t = Ids /\ DOMAIN sess = Ids /\ \A j \in Ids : t[j] = IF j = i THEN f ELSE sess[j]
  BY DEF Ids
<1>2. \A j \in Ids : Unnoted(sess[j], sess[j])
  BY DEF Unnoted
<1>3. \A j \in DOMAIN sess : Unnoted(sess[j], t[j])
  BY <1>1, <1>2
<1> QED
  BY <1>1, <1>3, UnrecordedLog

(* A single record.                                                         *)
LEMMA OneRecord ==
  ASSUME TypeInv, NEW i \in Ids, NEW event \in Events
  PROVE  LET r == [id |-> i, event |-> event]
             es == Listed(i, event)
         IN  /\ r.id = i /\ r.event = event
             /\ es \in Seq(Records) /\ DOMAIN es = {1} /\ es[1] = r
             /\ \A j, k \in DOMAIN es : ~(j < k)
<1> DEFINE r == [id |-> i, event |-> event]
           es == Listed(i, event)
<1>1. i \in Nat
  BY SessIsAFunction
<1>2. r \in Records /\ r.id = i /\ r.event = event
  BY <1>1 DEF Records
<1>3. es = <<r>>
  BY DEF Listed
<1> HIDE DEF es, r
<1>4. es \in Seq(Records) /\ DOMAIN es = 1..1 /\ es[1] = r
  BY <1>2, <1>3
<1>5. DOMAIN es = {1}
  BY <1>4
<1>6. ~(1 < 1)
  OBVIOUS
<1>7. \A j, k \in DOMAIN es : ~(j < k)
  BY <1>5, <1>6, Zenon
<1> QED
  BY <1>2, <1>4, <1>5, <1>7 DEF es, r

(* One session changes, and one event of it is recorded.                    *)
LEMMA OneNoted ==
  ASSUME TypeInv, LogOK(log, sess), NEW i \in Ids, NEW f, NEW event,
         sess' = [sess EXCEPT ![i] = f], Recorded(Listed(i, event)),
         \/ /\ event \in Endings \cup {"not started"}
            /\ ~sess[i].recorded /\ f.recorded /\ ~f.held
            /\ event \in Endings => ~f.error
         \/ /\ event = "limit"
            /\ f.recorded /\ (f.held <=> sess[i].held)
            /\ f.error => sess[i].error \/ sess[i].held
  PROVE  LogOK(log', sess')
<1> DEFINE es == Listed(i, event)
           r == [id |-> i, event |-> event]
<1>1. event \in Events
  BY DEF Events
<1>2. /\ r.id = i /\ r.event = event
      /\ es \in Seq(Records) /\ DOMAIN es = {1} /\ es[1] = r
      /\ \A j, k \in DOMAIN es : ~(j < k)
  BY <1>1, OneRecord
<1> HIDE DEF es, r
<1>4. DOMAIN sess' = Ids /\ DOMAIN sess = Ids
      /\ \A j \in Ids : sess'[j] = IF j = i THEN f ELSE sess[j]
  BY DEF Ids
<1>5. Goes(sess, sess', r) \/ Overflows(sess, sess', r)
  BY <1>2, <1>4 DEF Goes, Overflows
<1>6. \A j \in Ids : Unnoted(sess[j], sess'[j]) \/ j = i
  BY <1>4 DEF Unnoted
<1>7. Noting(sess, sess', es)
  <2>1. \A j, k \in DOMAIN es : j < k => es[j].id # es[k].id
    BY <1>2
  <2>2. \A j \in DOMAIN sess : Unnoted(sess[j], sess'[j]) \/ \E k \in DOMAIN es : es[k].id = j
    BY <1>2, <1>4, <1>6
  <2> QED
    BY <1>2, <1>4, <1>5, <2>1, <2>2 DEF Noting
<1> QED
  BY <1>7, RecordedLog DEF es

(* forget(): the end is recorded, unless it was.                            *)
LEMMA OneForgotten ==
  ASSUME TypeInv, Shell, LogOK(log, sess), NEW i \in Ids, NEW f, NEW event,
         sess' = [sess EXCEPT ![i] = f], Recorded(Ending(i, event)),
         ~f.held, f.recorded, event \in Endings \cup {"not started"},
         event \in Endings /\ ~sess[i].recorded => ~f.error,
         f.error => sess[i].error \/ sess[i].held
  PROVE  LogOK(log', sess')
<1>1. CASE sess[i].recorded
  <2>1. Ending(i, event) = <<>>
    BY <1>1 DEF Ending
  <2>2. Unnoted(sess[i], f)
    BY <1>1 DEF Unnoted
  <2>3. Noting(sess, sess', <<>>)
    BY <2>2, OneUnnoted
  <2> QED
    BY <2>1, <2>3, RecordedLog
<1>2. CASE ~sess[i].recorded
  <2>1. Recorded(Listed(i, event))
    BY <1>2 DEF Ending
  <2> QED
    BY <1>2, <2>1, OneNoted
<1> QED
  BY <1>1, <1>2

(* Nothing happens to the sessions.                                         *)
LEMMA SameLog ==
  ASSUME LogOK(log, sess), sess' = sess, log' = log
  PROVE  LogOK(log', sess')
OBVIOUS

(* Output, and what becomes of too much of it, of a shell in the map and of *)
(* one that is not.                                                         *)
LEMMA OutputLogged ==
  ASSUME IInv, LogOK(log, sess), NEW i \in Ids, ShellData(i) \/ PrintsOn(i)
  PROVE  LogOK(log', sess')
<1> DEFINE e == sess[i]
           m == Made(i)
           n == Kept(m)
           k == Killed(m)
           o == ShellOverflow(m)
<1>1. TypeInv /\ e \in Entries
  BY SessIsAFunction DEF IInv
<1>2. CASE PrintsOn(i)
  <2>1. e.recorded /\ ~e.held /\ sess' = sess /\ Recorded(Listed(i, "limit"))
    BY <1>2 DEF PrintsOn
  <2>2. sess' = [sess EXCEPT ![i] = e]
    BY <1>1, <2>1 DEF TypeInv
  <2> QED
    BY <1>1, <2>1, <2>2, OneNoted
<1>3. m \in Entries /\ (m.held = e.held) /\ m.error = e.error /\ m.recorded = e.recorded
      /\ m.chunks = e.chunks /\ m.made \in Nat
  <2>1. m = [e EXCEPT !.made = @ + 1]
    BY DEF Made
  <2> HIDE DEF m, e
  <2>2. m \in Entries /\ (m.held = e.held) /\ m.error = e.error /\ m.recorded = e.recorded
        /\ m.chunks = e.chunks
    BY <1>1, <2>1, MadeFields
  <2> QED
    BY <2>2 DEF Entries
<1> HIDE DEF m
<1>4. ASSUME Shell, e.held, sess' = [sess EXCEPT ![i] = Touched(n)], log' = log
      PROVE  LogOK(log', sess')
  <2>1. n \in Entries /\ n.held = m.held /\ n.error = m.error /\ n.recorded = m.recorded
    <3>1. Append(m.chunks, m.made) \in Seq(Nat)
      BY <1>1, <1>3, AppendProperties DEF Entries
    <3>2. n = [m EXCEPT !.chunks = Append(m.chunks, m.made)]
      BY DEF Kept
    <3> HIDE DEF n
    <3>3. n \in Entries
      BY <1>3, <3>1, <3>2, OneField
    <3> QED
      BY <1>3, <3>2, <3>3 DEF Entries
  <2> HIDE DEF n
  <2>2. Unnoted(e, Touched(n))
    BY <1>3, <2>1, TouchedFields DEF Unnoted
  <2> QED
    BY <1>4, <2>2, OneUnnoted
<1>5. ASSUME Shell, e.held, sess' = [sess EXCEPT ![i] = o], Recorded(Listed(i, "limit"))
      PROVE  LogOK(log', sess')
  <2>1. k \in Entries /\ k.held = m.held
    BY <1>3, KilledFields
  <2>2. o = [k EXCEPT !.error = TRUE, !.closed = TRUE, !.recorded = TRUE]
    BY DEF ShellOverflow
  <2> HIDE DEF o, k
  <2>3. o.recorded = TRUE /\ o.held = e.held
    BY <1>3, <2>1, <2>2 DEF Entries
  <2> QED
    BY <1>1, <1>5, <2>3, OneNoted
<1>6. CASE ShellData(i)
  BY <1>4, <1>5, <1>6 DEF ShellData, m
<1> QED
  BY <1>2, <1>6

(* The end of a child, and a shell that does not start.                     *)
LEMMA EndLogged ==
  ASSUME IInv, LogOK(log, sess), Shell, NEW i \in Ids, ChildExits(i) \/ ChildFails(i)
  PROVE  LogOK(log', sess')
<1> DEFINE e == sess[i]
           c == [e EXCEPT !.closed = TRUE]
<1>1. TypeInv /\ e \in Entries /\ Settled(kind, e)
  BY SessIsAFunction DEF IInv, SettledInv
<1>2. CASE ChildExits(i)
  <2>1. /\ e.held /\ sess' = [sess EXCEPT ![i] = Forgotten(c)] /\ Recorded(Ending(i, "exited"))
    BY <1>2 DEF ChildExits
  <2>2. c \in Entries /\ c.error = e.error
    BY <1>1 DEF Entries
  <2> HIDE DEF c
  <2>3. /\ Forgotten(c).held = FALSE /\ Forgotten(c).recorded = TRUE /\ Forgotten(c).error = c.error
    BY <2>2, ForgottenFields
  <2>4. ~e.recorded => ~e.error
    BY <1>1, <2>1 DEF Settled, Shell
  <2>5. "exited" \in Endings
    BY DEF Endings
  <2> QED
    BY <1>1, <2>1, <2>2, <2>3, <2>4, <2>5, OneForgotten
<1>3. CASE ChildFails(i)
  <2> DEFINE b == Broken(e)
  <2>1. e.held /\ sess' = [sess EXCEPT ![i] = Forgotten(b)] /\ Recorded(Ending(i, "not started"))
    BY <1>3 DEF ChildFails
  <2>2. b \in Entries
    BY <1>1, BrokenFields
  <2> HIDE DEF b
  <2>3. Forgotten(b).held = FALSE /\ Forgotten(b).recorded = TRUE
    BY <2>2, ForgottenFields
  <2>4. "not started" \notin Endings
    BY DEF Endings
  <2> QED
    BY <1>1, <2>1, <2>3, <2>4, OneForgotten
<1> QED
  BY <1>2, <1>3

(* What is read, and time.                                                  *)
LEMMA TimeLogged ==
  ASSUME IInv, LogOK(log, sess), NEW i \in Ids,
         Deliver(i) \/ Ends(i) \/ Age(i) \/ GrowOld(i) \/ Types(i)
  PROVE  LogOK(log', sess')
<1> DEFINE e == sess[i]
           d == [e EXCEPT !.got = Append(@, Head(e.pend)), !.pend = Tail(@)]
<1>1. e \in Entries
  BY SessIsAFunction DEF IInv
<1>2. /\ log' = log
      /\ \/ sess' = [sess EXCEPT ![i] = d]
         \/ sess' = [sess EXCEPT ![i] = Killed(e)]
         \/ \E b \in BOOLEAN : \/ sess' = [sess EXCEPT ![i] = [e EXCEPT !.idle = b]]
                               \/ sess' = [sess EXCEPT ![i] = [e EXCEPT !.old = b]]
  BY DEF Deliver, Ends, Age, GrowOld, Types
<1>3. Unnoted(e, d)
  BY <1>1 DEF Unnoted, Entries
<1>4. Unnoted(e, Killed(e))
  BY <1>1, KilledFields DEF Unnoted
<1>5. \A b \in BOOLEAN : Unnoted(e, [e EXCEPT !.idle = b]) /\ Unnoted(e, [e EXCEPT !.old = b])
  BY <1>1 DEF Unnoted, Entries
<1> HIDE DEF d
<1> QED
  BY <1>2, <1>3, <1>4, <1>5, OneUnnoted

(* What reap() records is of the sessions that go.                          *)
LEMMA ReapNotes ==
  ASSUME IInv, Shell, NEW es \in Reapings
  PROVE  Noting(sess, Reaped(sess), es)
<1> DEFINE Going(i) == [id |-> i, event |-> IF sess[i].old THEN "lifetime" ELSE "idle"]
           going == {i \in Ids : Shell /\ Expired(sess[i]) /\ ~sess[i].recorded}
           ends == {Going(i) : i \in going}
           t == Reaped(sess)
<1>1. TypeInv /\ SettledInv
  BY DEF IInv
<1>2. /\ es \in SeqOf(ends, Len(sess))
      /\ \A r \in ends : \E k \in DOMAIN es : es[k] = r
      /\ \A j, k \in DOMAIN es : j < k => es[j].id < es[k].id
  BY DEF Reapings
<1>3. ASSUME NEW i \in going
      PROVE  /\ i \in Ids /\ i \in Nat /\ Expired(sess[i]) /\ ~sess[i].recorded
             /\ Going(i) \in Records /\ Going(i).id = i /\ Going(i).event \in Endings
  <2>1. i \in Nat
    BY <1>1, <1>3, SessIsAFunction
  <2> QED
    BY <2>1 DEF Records, Events, Endings
<1> HIDE DEF Going
<1>4. ASSUME NEW i \in Ids, Expired(sess[i]), ~sess[i].recorded
      PROVE  i \in going
  BY <1>4
<1>5. ASSUME NEW i \in Ids
      PROVE  t[i] = IF Expired(sess[i]) THEN Forgotten(Killed(sess[i])) ELSE sess[i]
  BY DEF Reaped, Ids
<1>6. DOMAIN t = Ids /\ DOMAIN sess = Ids
  BY DEF Reaped, Ids
<1> HIDE DEF going, t
<1>7. PICK m \in Nat : es \in [1..m -> ends]
  BY <1>1, <1>2, SessIsAFunction DEF SeqOf
<1>8. ASSUME NEW k \in DOMAIN es
      PROVE  \E i \in going : es[k] = Going(i)
  BY <1>7
<1>9. es \in Seq(Records)
  <2>1. \A r \in ends : r \in Records
    BY <1>3
  <2> HIDE DEF ends
  <2>2. es \in [1..m -> Records]
    BY <1>7, <2>1
  <2> QED
    BY <2>2, SeqDef
<1>10. ASSUME NEW j \in DOMAIN es, NEW k \in DOMAIN es, j < k
       PROVE  es[j].id # es[k].id
  <2>1. PICK a \in going : es[j] = Going(a)
    BY <1>8
  <2>2. PICK b \in going : es[k] = Going(b)
    BY <1>8
  <2>3. a \in Nat /\ b \in Nat /\ es[j].id = a /\ es[k].id = b
    BY <1>3, <2>1, <2>2
  <2>4. es[j].id < es[k].id
    BY <1>2, <1>10
  <2>5. \A x, y \in Nat : x < y => x # y
    OBVIOUS
  <2> QED
    BY <2>3, <2>4, <2>5
<1>11. ASSUME NEW i \in Ids, Expired(sess[i])
       PROVE  /\ t[i].held = FALSE /\ t[i].recorded = TRUE /\ t[i].error = sess[i].error
              /\ ~sess[i].recorded => ~sess[i].error
  <2>1. sess[i] \in Entries /\ Settled(kind, sess[i])
    BY <1>1, SessIsAFunction DEF SettledInv
  <2>2. Killed(sess[i]) \in Entries /\ Killed(sess[i]).error = sess[i].error
    BY <2>1, KilledFields
  <2>3. /\ Forgotten(Killed(sess[i])).held = FALSE
        /\ Forgotten(Killed(sess[i])).recorded = TRUE
        /\ Forgotten(Killed(sess[i])).error = Killed(sess[i]).error
    BY <2>2, ForgottenFields
  <2>4. sess[i].held
    BY <1>11 DEF Expired
  <2>5. t[i] = Forgotten(Killed(sess[i]))
    BY <1>5, <1>11
  <2>6. ~sess[i].recorded => ~sess[i].error
    BY <2>1, <2>4 DEF Settled, Shell
  <2> QED
    BY <2>2, <2>3, <2>5, <2>6
<1>12. ASSUME NEW k \in DOMAIN es
       PROVE  Goes(sess, t, es[k])
  <2>1. PICK i \in going : es[k] = Going(i)
    BY <1>8
  <2>2. i \in Ids /\ Expired(sess[i]) /\ ~sess[i].recorded /\ es[k].id = i /\ es[k].event \in Endings
    BY <1>3, <2>1
  <2> QED
    BY <1>6, <1>11, <2>2 DEF Goes
<1>13. ASSUME NEW i \in Ids
       PROVE  Unnoted(sess[i], t[i]) \/ \E k \in DOMAIN es : es[k].id = i
  <2>1. CASE ~Expired(sess[i])
    <3>1. t[i] = sess[i]
      BY <1>5, <2>1
    <3> QED
      BY <3>1 DEF Unnoted
  <2>2. CASE Expired(sess[i]) /\ sess[i].recorded
    BY <1>11, <2>2 DEF Unnoted
  <2>3. CASE Expired(sess[i]) /\ ~sess[i].recorded
    <3>1. i \in going /\ Going(i) \in ends
      BY <1>4, <2>3
    <3>2. PICK k \in DOMAIN es : es[k] = Going(i)
      BY <1>2, <3>1
    <3> QED
      BY <1>3, <3>1, <3>2
  <2> QED
    BY <2>1, <2>2, <2>3
<1>14. Noting(sess, t, es)
  BY <1>6, <1>9, <1>10, <1>12, <1>13 DEF Noting
<1> QED
  BY <1>14 DEF t

(* The sweep.                                                               *)
LEMMA SweepLogged ==
  ASSUME IInv, Shell, LogOK(log, sess), Sweep
  PROVE  LogOK(log', sess')
<1>1. PICK es \in Reapings : Recorded(es)
  BY DEF Sweep
<1>2. sess' = Reaped(sess)
  BY DEF Sweep
<1> QED
  BY <1>1, <1>2, ReapNotes, RecordedLog

(* An open: what it reaps is recorded, then the session it opens.           *)
LEMMA OpenLogged ==
  ASSUME IInv, Shell, LogOK(log, sess), NEW id,
         sess' = OpenHandler.sess, Noted("open", id)
  PROVE  LogOK(log', sess')
<1> DEFINE s == Reaped(sess)
           t == Append(s, Entry)
           n == Len(sess) + 1
           o == Listed(n, "opened")
           opened == Len(OpenHandler.sess) > Len(sess)
<1>1. TypeInv /\ SettledInv
  BY DEF IInv
<1>2. PICK es \in Reapings : Recorded(es \o (IF opened THEN o ELSE <<>>))
  BY DEF Noted
<1>3. Noting(sess, s, es) /\ es \in Seq(Records)
  BY ReapNotes DEF Noting
<1>4. LogOK(log \o es, s)
  BY <1>3, LogGrows
<1>5. OpenHandler.sess = s \/ OpenHandler.sess = t
  BY DEF OpenHandler, Refused, Served
<1>6. s \in Seq(Entries) /\ DOMAIN s = 1..Len(sess) /\ Len(sess) \in Nat
  BY <1>1, ReapedSessions, SessIsAFunction DEF FadesTo
<1> HIDE DEF s
<1>7. Len(s) = Len(sess)
  <2>1. Len(s) \in Nat /\ DOMAIN s = 1..Len(s)
    BY <1>6, LenProperties
  <2>2. \A a, b \in Nat : 1..a = 1..b => a = b
    <3>1. SUFFICES ASSUME NEW a \in Nat, NEW b \in Nat, 1..a = 1..b, a # b
                   PROVE  FALSE
      OBVIOUS
    <3>2. CASE a > b
      BY <3>1, <3>2
    <3>3. CASE b > a
      BY <3>1, <3>3
    <3> QED
      BY <3>1, <3>2, <3>3
  <2> QED
    BY <1>6, <2>1, <2>2
<1>8. CASE OpenHandler.sess = s
  <2>1. ~opened
    BY <1>6, <1>7, <1>8
  <2>2. Recorded(es \o <<>>)
    BY <1>2, <2>1
  <2>3. Recorded(es)
    BY <1>3, <2>2, ConcatEmptySeq
  <2> QED
    BY <1>3, <1>8, <2>3, RecordedLog
<1>9. CASE OpenHandler.sess = t
  <2>1. /\ t \in Seq(Entries) /\ Len(t) = n
        /\ \A i \in 1..Len(s) : t[i] = s[i]
        /\ t[n] = Entry
    BY <1>6, <1>7, EntryIsNew, AppendProperties
  <2>2. DOMAIN t = 1..n /\ n \in Ids' /\ n \notin DOMAIN s /\ DOMAIN s \subseteq DOMAIN t
    <3>1. DOMAIN t = 1..n
      BY <2>1, LenProperties
    <3> HIDE DEF t
    <3>2. n \in 1..n /\ n \notin 1..Len(sess) /\ 1..Len(sess) \subseteq 1..n
      BY <1>6
    <3> QED
      BY <1>6, <1>9, <3>1, <3>2 DEF Ids
  <2>3. opened
    <3>1. Len(OpenHandler.sess) = n
      BY <1>9, <2>1
    <3> QED
      BY <1>6, <3>1
  <2>4. Recorded(es \o o)
    BY <1>2, <2>3
  <2> DEFINE r == [id |-> n, event |-> "opened"]
  <2>5. r \in Records /\ r.id = n /\ r.event = "opened"
    BY <1>6 DEF Records, Events
  <2>6. o = <<r>>
    BY DEF Listed
  <2> HIDE DEF o, r, n, t
  <2>7. o \in Seq(Records) /\ DOMAIN o = 1..1 /\ o[1] = r
    BY <2>5, <2>6
  <2>8. Opens(s, t, r)
    <3>1. Entry.held = TRUE /\ Entry.recorded = FALSE
      BY DEF Entry
    <3>2. n \in DOMAIN t
      BY <1>9, <2>2 DEF Ids
    <3> QED
      BY <2>1, <2>2, <2>5, <3>1, <3>2 DEF Opens
  <2>9. Noting(s, t, o)
    <3>1. \A k \in DOMAIN o : k = 1
      BY <2>7
    <3>2. ~(1 < 1)
      OBVIOUS
    <3>3. \A j, k \in DOMAIN o : ~(j < k)
      BY <3>1, <3>2, Zenon
    <3>4. \A k \in DOMAIN o : Opens(s, t, o[k])
      BY <2>7, <2>8, <3>1
    <3>5. \A i \in DOMAIN s : Unnoted(s[i], t[i])
      BY <1>6, <1>7, <2>1 DEF Unnoted
    <3> QED
      BY <2>2, <2>7, <3>3, <3>4, <3>5 DEF Noting
  <2>10. LogOK((log \o es) \o o, t)
    BY <1>4, <2>9, LogGrows
  <2>11. (log \o es) \o o = log \o (es \o o)
    <3>1. log \in Seq(Records)
      BY DEF LogOK
    <3> QED
      BY <1>3, <2>7, <3>1, ConcatAssociative
  <2> QED
    BY <1>9, <2>4, <2>10, <2>11, LogCut DEF Recorded
<1> QED
  BY <1>5, <1>8, <1>9

(* Any other request: a send and a poll record nothing, a close does.       *)
LEMMA AskedLogged ==
  ASSUME IInv, Shell, LogOK(log, sess), NEW path \in Paths \ {"open"}, NEW id \in Ids,
         NEW data \in Nat, sess' = Handled(path, id, data).sess, Noted(path, id)
  PROVE  LogOK(log', sess')
<1> DEFINE e == sess[id]
<1>1. TypeInv /\ e \in Entries /\ Settled(kind, e)
  BY SessIsAFunction DEF IInv, SettledInv
<1>2. CASE ~e.held
  <2>1. sess' = sess
    BY <1>2, GoneHandled
  <2>2. log' = log \/ Recorded(<<>>)
    BY <1>2 DEF Noted, Paths
  <2>3. Unnoted(e, e) /\ sess = [sess EXCEPT ![id] = e]
    BY <1>1 DEF Unnoted, TypeInv
  <2>4. Noting(sess, sess', <<>>)
    BY <2>1, <2>3, OneUnnoted
  <2> QED
    BY <2>1, <2>2, <2>4, RecordedLog
<1>3. CASE e.held /\ path = "send"
  <2> DEFINE f == IF e.closed THEN e ELSE Written(Touched(e), data)
             t == [sess EXCEPT ![id] = f]
  <2>1. Handled(path, id, data) = Served(t, Reply(id, <<>>, e.closed))
    BY <1>3 DEF Handled, ShellSend
  <2>2. Touched(e) \in Entries /\ Touched(e).held = e.held /\ Touched(e).error = e.error
        /\ Touched(e).recorded = e.recorded
    BY <1>1, TouchedFields
  <2>3. f.held = e.held /\ f.error = e.error /\ f.recorded = e.recorded
    BY <2>2, WrittenFields
  <2> HIDE DEF f, t
  <2>4. sess' = t
    BY <2>1 DEF Served
  <2>5. Unnoted(e, f)
    BY <2>3 DEF Unnoted
  <2>6. log' = log
    BY <1>3 DEF Noted
  <2> QED
    BY <2>4, <2>5, <2>6, OneUnnoted DEF t
<1>4. CASE e.held /\ path = "poll"
  <2> DEFINE f == Drained(e)
             t == [sess EXCEPT ![id] = f]
  <2>1. Handled(path, id, data) = Served(t, Reply(id, e.chunks, e.closed))
    BY <1>4 DEF Handled, ShellPoll
  <2>2. f.held = e.held /\ f.error = e.error /\ f.recorded = e.recorded
    BY <1>1, DrainedFields
  <2> HIDE DEF f, t
  <2>3. sess' = t
    BY <2>1 DEF Served
  <2>4. Unnoted(e, f)
    BY <2>2 DEF Unnoted
  <2>5. log' = log
    BY <1>4 DEF Noted
  <2> QED
    BY <2>3, <2>4, <2>5, OneUnnoted DEF t
<1>5. CASE e.held /\ path = "close"
  <2> DEFINE k == Killed(e)
             f == Forgotten(k)
             t == [sess EXCEPT ![id] = f]
  <2>1. Handled(path, id, data) = Served(t, Reply(id, <<>>, TRUE))
    BY <1>5 DEF Handled, CloseHandler
  <2>2. k \in Entries /\ k.error = e.error
    BY <1>1, KilledFields
  <2> HIDE DEF k
  <2>3. f.held = FALSE /\ f.recorded = TRUE /\ f.error = e.error
    BY <2>2, ForgottenFields
  <2> HIDE DEF f, t
  <2>4. sess' = t
    BY <2>1 DEF Served
  <2>5. Recorded(Ending(id, "closed"))
    BY <1>5 DEF Noted
  <2>6. ~e.recorded => ~e.error
    BY <1>1, <1>5 DEF Settled, Shell
  <2>7. "closed" \in Endings
    BY DEF Endings
  <2> QED
    BY <1>1, <2>3, <2>4, <2>5, <2>6, <2>7, OneForgotten DEF t
<1> QED
  BY <1>2, <1>3, <1>4, <1>5 DEF Paths

(* A request that is served, awaited or not.                                *)
LEMMA ServeLogged ==
  ASSUME IInv, Shell, LogOK(log, sess), NEW path \in Paths, NEW id \in Nat, NEW data \in Nat,
         path # "open" => id \in Ids,
         sess' = Handled(path, id, data).sess, Noted(path, id)
  PROVE  LogOK(log', sess')
<1>1. CASE path = "open"
  <2>1. sess' = OpenHandler.sess
    BY <1>1 DEF Handled
  <2> QED
    BY <1>1, <2>1, OpenLogged
<1>2. CASE path # "open"
  BY <1>2, AskedLogged
<1> QED
  BY <1>1, <1>2

(* An empty history is right of any sessions.                               *)
LEMMA EmptyLog == \A s : LogOK(<<>>, s)
<1>1. <<>> \in Seq(Records) /\ DOMAIN <<>> = {}
  BY EmptySeq
<1> QED
  BY <1>1 DEF LogOK

(* Nothing is recorded of a tunnel.                                         *)
LEMMA TunnelLog ==
  ASSUME IInv, ~Shell, log = <<>>, [Next]_vars
  PROVE  log' = <<>>
<1>1. ASSUME Recorded(<<>>)
      PROVE  log' = <<>>
  <2>1. MaxLog \in Nat
    BY SessionsAssumption
  <2>2. <<>> \in Seq(Nat) /\ Len(<<>>) = 0 /\ <<>> \o <<>> = <<>>
    BY EmptySeq, ConcatEmptySeq
  <2>3. Newest(<<>>) = <<>>
    BY <2>1, <2>2 DEF Newest
  <2> QED
    BY <1>1, <2>2, <2>3 DEF Recorded
<1>2. \A es \in Reapings : es = <<>>
  <2> DEFINE ends == {[id |-> i, event |-> IF sess[i].old THEN "lifetime" ELSE "idle"] :
                        i \in {j \in Ids : Shell /\ Expired(sess[j]) /\ ~sess[j].recorded}}
  <2>1. SUFFICES ASSUME NEW es \in Reapings
                 PROVE  es = <<>>
    OBVIOUS
  <2>2. es \in SeqOf(ends, Len(sess))
    BY DEF Reapings
  <2>3. ends = {}
    OBVIOUS
  <2> HIDE DEF ends
  <2>4. PICK m \in Nat : es \in [1..m -> ends]
    BY <2>2, SessIsAFunction DEF SeqOf, IInv
  <2>5. m = 0
    BY <2>3, <2>4
  <2>6. es \in Seq(Nat) /\ Len(es) = 0
    BY <2>4, <2>5
  <2> QED
    BY <2>6, EmptySeq
<1>3. ASSUME NEW path, NEW id, Noted(path, id)
      PROVE  log' = <<>>
  <2>1. CASE path = "open"
    <3>1. PICK es \in Reapings : Recorded(es \o <<>>)
      BY <1>3, <2>1 DEF Noted
    <3>2. es \o <<>> = <<>>
      BY <1>2, EmptySeq, ConcatEmptySeq
    <3> QED
      BY <1>1, <3>1, <3>2
  <2>2. CASE path = "close"
    <3>1. Recorded(<<>>)
      BY <1>3, <2>2 DEF Noted, Ending
    <3> QED
      BY <1>1, <3>1
  <2>3. CASE path \notin {"open", "close"}
    BY <1>3, <2>3 DEF Noted
  <2> QED
    BY <2>1, <2>2, <2>3
<1>4. CASE ClientStep \/ ReadChunk \/ InputEnds \/ Die \/ UNCHANGED vars
  BY <1>4 DEF ClientStep, Open, Opened, SendLine, Sent, LineSent, PipePolled, ExecPolled, Closed,
              Return, ReadChunk, InputEnds, Die, Quiet, vars
<1>5. ASSUME NEW path \in Paths, Serve(path) \/ TurnedAway(path) \/ CutOff(path) \/ Unreachable(path)
      PROVE  log' = <<>>
  BY <1>3, <1>5 DEF Serve, TurnedAway, CutOff, Unreachable
<1>6. ASSUME NEW q \in strays, ServeStray(q)
      PROVE  log' = <<>>
  BY <1>3, <1>6 DEF ServeStray
<1>7. ASSUME NEW i \in Ids, \/ Deliver(i) \/ TunnelData(i) \/ ShellData(i) \/ PrintsOn(i)
                            \/ Ends(i) \/ EndEvent(i) \/ SocketFails(i) \/ ChildFails(i)
                            \/ Age(i) \/ GrowOld(i) \/ Types(i)
      PROVE  log' = <<>>
  BY <1>7 DEF Deliver, TunnelData, ShellData, PrintsOn, Ends, EndEvent, SocketCloses, ChildExits,
              SocketFails, ChildFails, Age, GrowOld, Types
<1>8. CASE Sweep \/ Stop
  BY <1>1, <1>2, <1>8 DEF Sweep, Stop
<1> QED
  BY <1>4, <1>5, <1>6, <1>7, <1>8 DEF Next

(* Every step of a shell plugin keeps its history right.                    *)
LEMMA ShellLog ==
  ASSUME IInv, Shell, LogOK(log, sess), [Next]_vars
  PROVE  LogOK(log', sess')
<1>1. CASE ClientStep \/ ReadChunk \/ InputEnds \/ Die \/ UNCHANGED vars
  <2>1. log' = log /\ sess' = sess
    BY <1>1 DEF ClientStep, Open, Opened, SendLine, Sent, LineSent, PipePolled, ExecPolled, Closed,
                Return, ReadChunk, InputEnds, Die, Quiet, vars
  <2> QED
    BY <2>1
<1>2. ASSUME NEW path \in Paths, TurnedAway(path) \/ CutOff(path) \/ Unreachable(path)
      PROVE  LogOK(log', sess')
  <2>1. log' = log /\ sess' = sess
    BY <1>2 DEF TurnedAway, CutOff, Unreachable
  <2> QED
    BY <2>1
<1>3. ASSUME NEW path \in Paths, Serve(path)
      PROVE  LogOK(log', sess')
  <2> DEFINE id == calls[path].id
             data == calls[path].data
  <2>1. /\ sess' = Handled(path, id, data).sess /\ id \in Nat /\ data \in Nat
        /\ path # "open" => id = pipe.id /\ pipe.id \in Ids
    BY <1>3, ServeFacts
  <2>2. Noted(path, id)
    BY <1>3 DEF Serve
  <2> HIDE DEF id, data
  <2> QED
    BY <2>1, <2>2, ServeLogged
<1>4. ASSUME NEW q \in strays, ServeStray(q)
      PROVE  LogOK(log', sess')
  <2>1. /\ sess' = Handled(q.path, q.id, q.data).sess
        /\ q.path \in Paths /\ q.id \in Nat /\ q.data \in Nat
        /\ q.path # "open" => q.id = pipe.id /\ pipe.id \in Ids
    BY <1>4, StrayFacts
  <2>2. Noted(q.path, q.id)
    BY <1>4 DEF ServeStray
  <2> QED
    BY <2>1, <2>2, ServeLogged
<1>5. ASSUME NEW i \in Ids, ShellData(i) \/ PrintsOn(i)
      PROVE  LogOK(log', sess')
  BY <1>5, OutputLogged
<1>6. ASSUME NEW i \in Ids, EndEvent(i) \/ ChildFails(i)
      PROVE  LogOK(log', sess')
  <2>1. ChildExits(i) \/ ChildFails(i)
    BY <1>6 DEF EndEvent, SocketCloses
  <2> QED
    BY <2>1, EndLogged
<1>7. ASSUME NEW i \in Ids, Deliver(i) \/ Ends(i) \/ Age(i) \/ GrowOld(i) \/ Types(i)
      PROVE  LogOK(log', sess')
  BY <1>7, TimeLogged
<1>8. CASE Sweep
  BY <1>8, SweepLogged
<1>9. CASE Stop
  BY <1>9, EmptyLog DEF Stop
<1>10. \A i \in Ids : ~TunnelData(i) /\ ~SocketFails(i)
  BY DEF TunnelData, SocketFails
<1> QED
  BY <1>1, <1>2, <1>3, <1>4, <1>5, <1>6, <1>7, <1>8, <1>9, <1>10 DEF Next

(* The history is right as long as the sessions are.                        *)
LEMMA NextLogInv == IInv /\ LogInv /\ [Next]_vars => LogInv'
<1>1. SUFFICES ASSUME IInv, LogInv, [Next]_vars
               PROVE  LogInv'
  OBVIOUS
<1>2. Shell' <=> Shell
  <2>1. kind' = kind
    BY <1>1 DEF Next, ClientStep, Open, Opened, SendLine, Sent, LineSent, PipePolled, ExecPolled,
                Closed, Return, ReadChunk, InputEnds, Die, Quiet, vars, Serve, TurnedAway, CutOff,
                Unreachable, ServeStray, Deliver, TunnelData, ShellData, PrintsOn, Ends, EndEvent,
                SocketCloses, ChildExits, SocketFails, ChildFails, Age, GrowOld, Types, Sweep, Stop,
                Behind
  <2> QED
    BY <2>1 DEF Shell
<1>3. CASE Shell
  BY <1>1, <1>2, <1>3, ShellLog DEF LogInv
<1>4. CASE ~Shell
  BY <1>1, <1>2, <1>4, TunnelLog DEF LogInv
<1> QED
  BY <1>3, <1>4

(* Sessions.EndsAreRecorded: a shell that is gone and is listed as opened   *)
(* has its end listed after that, however much was cut off the history; the *)
(* first end listed of it is the real one, and only an overflow's comes     *)
(* again.                                                                   *)
THEOREM EndsRecorded == Spec => []EndsAreRecorded
<1>1. Init => LogInv
  BY EmptyLog DEF Init, LogInv
<1>2. IInv /\ LogInv /\ [Next]_vars => LogInv'
  BY NextLogInv
<1>3. LogInv => EndsAreRecorded
  <2>1. SUFFICES ASSUME LogInv, NEW k \in DOMAIN log
                 PROVE  LET i == log[k].id IN
                        /\ log[k].event = "opened" /\ ~sess[i].held =>
                             \E j \in DOMAIN log : k < j /\ log[j].id = i
                        /\ log[k].event \in {"idle", "lifetime", "closed", "exited"} =>
                             ~sess[i].error
                        /\ \A j \in DOMAIN log : j < k /\ log[j].id = i =>
                             log[j].event = "opened" \/ log[k].event = "limit"
    BY DEF EndsAreRecorded
  <2>2. CASE ~Shell
    <3>1. DOMAIN log = {}
      BY <2>1, <2>2, EmptySeq DEF LogInv
    <3> QED
      BY <2>1, <3>1
  <2>3. CASE Shell
    <3>1. RecordOK(log, sess, k) /\ \A j \in DOMAIN log : j < k => InTurn(log[j], log[k])
      BY <2>1, <2>3 DEF LogInv, LogOK
    <3> QED
      BY <3>1 DEF RecordOK, InTurn, Endings
  <2> QED
    BY <2>2, <2>3
<1> QED
  BY <1>1, <1>2, <1>3, SpecIInv, PTL DEF Spec

=============================================================================
