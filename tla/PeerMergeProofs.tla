---------------------------- MODULE PeerMergeProofs ----------------------------
(***************************************************************************)
(* What holds of PeerMerge for any number of CLI processes, identities,    *)
(* sealing keys and changes: no safety floor is lowered and, as long as    *)
(* peers are not both forgotten and admitted again, no merge pairs an      *)
(* identity with a sealing key that was not verified for it, and a slow    *)
(* writer changes what it has changed itself.                              *)
(***************************************************************************)
EXTENDS PeerMerge, TLAPS

-----------------------------------------------------------------------------
(* One record. *)

(* A sealing key in use was verified for the identity, or accepted for it; *)
(* where there is no identity yet, for any that may come.                  *)
Paired(p, v) ==
  p # None /\ p.conf = None /\ p.seen =>
    /\ p.seal # None
    /\ \A i \in Ids : p.id \in {i, None} => <<i, p.seal>> \in v

(* What an operation of a writer makes of a record: it keeps the floors    *)
(* and an identity, and a first identity has a new revision.               *)
Grows(p, q) ==
  /\ q \in Peer
  /\ q.rev >= p.rev
  /\ p.req => q.req
  /\ p.binds => q.binds
  /\ p.id # None => q.id # None
  /\ p.id = None /\ q.id # None => q.rev > p.rev

LEMMA CoherentIsPaired ==
  ASSUME NEW p \in Peer \cup {None}
  PROVE  Coherent(p) <=> Paired(p, vouched)
BY DEF Coherent, Paired, Posture, Peer

LEMMA PairedStays ==
  ASSUME NEW p, NEW v, NEW w, v \subseteq w, Paired(p, v)
  PROVE  Paired(p, w)
BY DEF Paired

LEMMA GrowsChains ==
  ASSUME NEW p \in Peer, NEW q, NEW r, Grows(p, q), Grows(q, r)
  PROVE  Grows(p, r)
BY DEF Grows, Peer

-----------------------------------------------------------------------------
(* The operations, of a directory that has the peer.                       *)

Held(d) == d \in Directory /\ d.peer # None

LEMMA HeldPeer == ASSUME NEW d, Held(d) PROVE d.peer \in Peer
BY DEF Held, Directory

LEMMA NewcomerIs ==
  ASSUME NEW i \in Ids \cup {None}, NEW s \in Seals \cup {None}, NEW prof \in Profiles
  PROVE  LET p == Newcomer(i, s, prof) IN
         p \in Peer /\ p # None /\ p.rev = 1 /\ ~p.seen
<1> DEFINE p == Newcomer(i, s, prof)
<1>1. p \in Peer /\ p.rev = 1 /\ ~p.seen
  BY DEF Newcomer, Peer
<1> QED BY <1>1, NoneAssumption

(* commit() of a record that differs in nothing that Grows is about.       *)
LEMMA CommitGrows ==
  ASSUME NEW d, Held(d), NEW q \in Peer, q.rev = d.peer.rev,
         d.peer.req => q.req, d.peer.binds => q.binds,
         d.peer.id # None => q.id # None,
         NEW v
  PROVE  /\ Held(Commit(d, q))
         /\ Grows(d.peer, Commit(d, q).peer)
         /\ Paired(q, v) => Paired(Commit(d, q).peer, v)
         /\ Commit(d, q).peer.id = q.id
         /\ Commit(d, q).peer.seen = q.seen
         /\ Commit(d, q).peer.seal = q.seal
         /\ Commit(d, q).peer.conf = q.conf
<1>1. d \in Directory /\ d.peer \in Peer
  BY HeldPeer DEF Held
<1> DEFINE r == [q EXCEPT !.rev = @ + 1]
<1>2. /\ r \in Peer /\ r.rev = d.peer.rev + 1
      /\ r.req = q.req /\ r.binds = q.binds /\ r.id = q.id
      /\ r.seen = q.seen /\ r.seal = q.seal /\ r.conf = q.conf
  BY DEF Peer
<1>3. r # None
  BY <1>2, NoneAssumption
<1>4. d.peer.rev \in Nat
  BY <1>1 DEF Peer
<1>5. Commit(d, q) = [d EXCEPT !.peer = r]
  BY DEF Commit
<1> HIDE DEF r
<1>6. Commit(d, q).peer = r /\ Commit(d, q) \in Directory
  BY <1>1, <1>2, <1>5 DEF Directory
<1>7. Grows(d.peer, r)
  BY <1>2, <1>4 DEF Grows
<1>8. Paired(q, v) => Paired(r, v)
  <2>1. q # None
    BY NoneAssumption
  <2> QED BY <1>2, <2>1 DEF Paired
<1> QED BY <1>2, <1>3, <1>6, <1>7, <1>8 DEF Held

(* What an operation on a directory that has the peer leaves.              *)
Kept(d, e, v) ==
  /\ Held(e)
  /\ Grows(d.peer, e.peer)
  /\ Paired(d.peer, v) => Paired(e.peer, v)

LEMMA SameKept ==
  ASSUME NEW d, Held(d), NEW v
  PROVE  Kept(d, d, v)
BY HeldPeer DEF Kept, Grows, Peer

(* A record whose blank identity is filled in is as paired as before.      *)
LEMMA FilledPaired ==
  ASSUME NEW p \in Peer, NEW v, NEW q \in Peer,
         q.seal = p.seal, q.seen = p.seen, q.conf = p.conf,
         q.id = p.id \/ p.id = None
  PROVE  Paired(p, v) => Paired(q, v)
<1>1. p # None
  BY NoneAssumption
<1> QED BY <1>1 DEF Paired, Peer

LEMMA AdmitKeeps ==
  ASSUME NEW d, Held(d), NEW v,
         NEW i \in Ids \cup {None}, NEW s \in Seals \cup {None}, NEW prof \in Profiles
  PROVE  Kept(d, Admit(d, i, s, prof), v)
<1> DEFINE p == d.peer
           q == [p EXCEPT !.id = IF @ = None THEN i ELSE @, !.profile = prof]
<1>1. p \in Peer
  BY HeldPeer
<1>2. /\ q \in Peer /\ q.rev = p.rev /\ q.req = p.req /\ q.binds = p.binds
      /\ q.id = (IF p.id = None THEN i ELSE p.id)
      /\ q.seal = p.seal /\ q.seen = p.seen /\ q.conf = p.conf
  BY <1>1 DEF Peer
<1>3. Admit(d, i, s, prof) = Commit(d, q)
  BY DEF Admit, Held
<1> HIDE DEF q
<1>4. Paired(p, v) => Paired(q, v)
  BY <1>1, <1>2, FilledPaired
<1> QED BY <1>2, <1>3, <1>4, CommitGrows DEF Kept

LEMMA RotateKeeps ==
  ASSUME NEW d, Held(d), NEW v, NEW i \in Ids
  PROVE  Kept(d, Rotate(d, i), v)
<1> DEFINE p == d.peer
           e == [d EXCEPT !.retired = @ \cup Keyed(p)]
           q == [p EXCEPT !.id = i, !.seal = None, !.seen = FALSE, !.conf = None,
                          !.rivals = {}]
<1>1. p \in Peer /\ d \in Directory
  BY HeldPeer DEF Held
<1>2. /\ q \in Peer /\ q.rev = p.rev /\ q.req = p.req /\ q.binds = p.binds
      /\ q.id = i /\ ~q.seen
  BY <1>1 DEF Peer
<1>3. e.peer = p /\ e \in Directory
  BY <1>1 DEF Directory, Keyed, Peer
<1>4. Held(e)
  BY <1>3 DEF Held
<1>5. Rotate(d, i) = Commit(e, q)
  BY DEF Rotate
<1>6. i # None
  BY ConstantsAssumption
<1>7. Paired(q, v)
  BY <1>2 DEF Paired
<1> HIDE DEF e, q
<1> QED BY <1>2, <1>3, <1>4, <1>5, <1>6, <1>7, CommitGrows DEF Kept

LEMMA RemadeKeeps ==
  ASSUME NEW d, Held(d), NEW v, NEW i \in Ids \cup {None},
         d.peer.id = None \/ i = d.peer.id
  PROVE  Kept(d, Remade(d, i), v) /\ Remade(d, i).peer.id = i
<1> DEFINE p == d.peer
           q == KeepOurs(Newcomer(i, p.seal, None), p)
<1>1. p \in Peer
  BY HeldPeer
<1>2. q = [p EXCEPT !.id = i, !.seal = p.seal]
  BY DEF KeepOurs, Newcomer
<1>3. /\ q \in Peer /\ q.rev = p.rev /\ q.req = p.req /\ q.binds = p.binds
      /\ q.id = i /\ q.seal = p.seal /\ q.seen = p.seen /\ q.conf = p.conf
  BY <1>1, <1>2 DEF Peer
<1>4. Remade(d, i) = Commit(d, q)
  BY DEF Remade
<1> HIDE DEF q
<1>5. Paired(p, v) => Paired(q, v)
  BY <1>1, <1>3, FilledPaired
<1> QED BY <1>3, <1>4, <1>5, CommitGrows DEF Kept

LEMMA BindKeyKeeps ==
  ASSUME NEW d, Held(d), NEW v, NEW i \in Ids
  PROVE  /\ Kept(d, BindKey(d, i), v)
         /\ BindKey(d, i).peer.id = IF d.peer.id = None THEN i ELSE d.peer.id
BY RemadeKeeps, SameKept DEF BindKey

LEMMA NoteBindingKeeps ==
  ASSUME NEW d, Held(d), NEW v
  PROVE  Kept(d, NoteBinding(d), v) /\ NoteBinding(d).peer.id = d.peer.id
<1> DEFINE p == d.peer
           q == [p EXCEPT !.binds = TRUE]
<1>1. p \in Peer
  BY HeldPeer
<1>2. /\ q \in Peer /\ q.rev = p.rev /\ q.req = p.req /\ q.binds
      /\ q.id = p.id /\ q.seal = p.seal /\ q.seen = p.seen /\ q.conf = p.conf
  BY <1>1 DEF Peer
<1> HIDE DEF q
<1>3. Paired(p, v) => Paired(q, v)
  <2>1. p.id \in Ids \cup {None}
    BY <1>1 DEF Peer
  <2> QED BY <1>1, <1>2, <2>1, FilledPaired
<1>4. Kept(d, Commit(d, q), v) /\ Commit(d, q).peer.id = p.id
  BY <1>2, <1>3, CommitGrows DEF Kept
<1> QED BY <1>4, SameKept DEF NoteBinding, q

LEMMA NoteKeyConflictKeeps ==
  ASSUME NEW d, Held(d), NEW v, NEW i \in Ids
  PROVE  Kept(d, NoteKeyConflict(d, i), v)
<1> DEFINE p == d.peer
           q == [p EXCEPT !.rivals = @ \cup {i}]
<1>1. p \in Peer
  BY HeldPeer
<1>2. /\ q \in Peer /\ q.rev = p.rev /\ q.req = p.req /\ q.binds = p.binds
      /\ q.id = p.id /\ q.seal = p.seal /\ q.seen = p.seen /\ q.conf = p.conf
  BY <1>1 DEF Peer
<1>3. NoteKeyConflict(d, i) = Commit(d, q)
  BY DEF NoteKeyConflict
<1> HIDE DEF q
<1>4. Paired(p, v) => Paired(q, v)
  <2>1. p.id \in Ids \cup {None}
    BY <1>1 DEF Peer
  <2> QED BY <1>1, <1>2, <2>1, FilledPaired
<1> QED BY <1>2, <1>3, <1>4, CommitGrows DEF Kept

LEMMA BindSealKeeps ==
  ASSUME NEW d, Held(d), NEW v,
         NEW s \in Seals, NEW i \in Ids, <<i, s>> \in v
  PROVE  Kept(d, BindSeal(d, s, i), v) /\ BindSeal(d, s, i).peer.id = d.peer.id
<1> DEFINE p == d.peer
           q == [p EXCEPT !.seal = s, !.seen = TRUE, !.req = TRUE]
           r == [p EXCEPT !.conf = s]
<1>1. p \in Peer
  BY HeldPeer
<1>2. s # None /\ i # None
  BY ConstantsAssumption
<1>3. ASSUME p.id = i PROVE Kept(d, Commit(d, q), v) /\ Commit(d, q).peer.id = p.id
  <2>1. /\ q \in Peer /\ q.rev = p.rev /\ q.req /\ q.binds = p.binds
        /\ q.id = p.id /\ q.seal = s
    BY <1>1 DEF Peer
  <2> HIDE DEF q
  <2>2. Paired(q, v)
    BY <1>2, <1>3, <2>1 DEF Paired
  <2> QED BY <2>1, <2>2, CommitGrows DEF Kept
<1>4. Kept(d, Commit(d, r), v) /\ Commit(d, r).peer.id = p.id
  <2>1. /\ r \in Peer /\ r.rev = p.rev /\ r.req = p.req /\ r.binds = p.binds
        /\ r.id = p.id /\ r.conf = s
    BY <1>1 DEF Peer
  <2> HIDE DEF r
  <2>2. Paired(r, v)
    BY <1>2, <2>1 DEF Paired
  <2> QED BY <2>1, <2>2, CommitGrows DEF Kept
<1>5. Kept(d, d, v)
  BY SameKept
<1>6. CASE p.id = i /\ ~p.seen
  <2>1. BindSeal(d, s, i) = Commit(d, q)
    BY <1>6 DEF BindSeal
  <2> QED BY <1>3, <1>6, <2>1
<1>7. CASE p.id = i /\ p.seen /\ p.seal # s /\ p.conf = None
  <2>1. BindSeal(d, s, i) = Commit(d, r)
    BY <1>7 DEF BindSeal
  <2> QED BY <1>4, <2>1
<1>8. CASE ~(p.id = i /\ ~p.seen) /\ ~(p.id = i /\ p.seen /\ p.seal # s /\ p.conf = None)
  <2>1. BindSeal(d, s, i) = d
    BY <1>8 DEF BindSeal
  <2> QED BY <1>5, <2>1
<1> QED BY <1>6, <1>7, <1>8

(* A key that was accepted for the identity, or for any while there is     *)
(* none.                                                                   *)
Vouched(p, k, v) ==
  k # None => \A i \in Ids : p.id \in {i, None} => <<i, k>> \in v

LEMMA AcceptSealKeeps ==
  ASSUME NEW d, Held(d), NEW v, NEW s \in Seals \cup {None},
         Vouched(d.peer, Chosen(d.peer, s), v)
  PROVE  Kept(d, AcceptSeal(d, s), v)
<1> DEFINE p == d.peer
           k == Chosen(p, s)
           q == [p EXCEPT !.seal = k, !.seen = TRUE, !.conf = None, !.req = TRUE]
<1>1. p \in Peer
  BY HeldPeer
<1>2. k \in Seals \cup {None}
  BY <1>1 DEF Chosen, Peer
<1>3. CASE k = None
  <2>1. AcceptSeal(d, s) = d
    BY <1>3 DEF AcceptSeal
  <2> QED BY <2>1, SameKept
<1>4. CASE k # None
  <2>1. AcceptSeal(d, s) = Commit(d, q)
    BY <1>4 DEF AcceptSeal
  <2> HIDE DEF k
  <2>2. /\ q \in Peer /\ q.rev = p.rev /\ q.req /\ q.binds = p.binds
        /\ q.id = p.id /\ q.seal = k
    BY <1>1, <1>2 DEF Peer
  <2> HIDE DEF q
  <2>3. Paired(q, v)
    BY <1>4, <2>2 DEF Paired, Vouched, k
  <2> QED BY <2>1, <2>2, <2>3, CommitGrows DEF Kept
<1> QED BY <1>3, <1>4

LEMMA HearKeeps ==
  ASSUME NEW d, Held(d), NEW v, NEW i \in Ids \cup {None}
  PROVE  Kept(d, Hear(d, i), v)
<1>1. d.peer.id \in Ids \cup {None}
  BY HeldPeer DEF Peer
<1> QED BY <1>1, RemadeKeeps DEF Hear

LEMMA KeptChains ==
  ASSUME NEW d, Held(d), NEW e, NEW f, NEW v, Kept(d, e, v), Kept(e, f, v)
  PROVE  Kept(d, f, v)
<1>1. d.peer \in Peer
  BY HeldPeer
<1> QED BY <1>1, GrowsChains DEF Kept

LEMMA AnsweredKeeps ==
  ASSUME NEW d, Held(d), NEW v, NEW i \in Ids,
         NEW s \in Seals \cup {None}, NEW named \in BOOLEAN,
         Keyed(d.peer) \subseteq {i} /\ s # None => <<i, s>> \in v
  PROVE  /\ Kept(d, Answered(d, i, s, named), v)
         /\ Keyed(d.peer) \subseteq {i} => Answered(d, i, s, named).peer.id = i
<1> DEFINE a == Reachable(d)
           b == BindKey(a, i)
           n == IF named THEN NoteBinding(b) ELSE b
<1>1. d.peer.id \in Ids \cup {None}
  BY HeldPeer DEF Peer
<1>2. Kept(d, a, v) /\ a.peer.id = d.peer.id
  BY <1>1, RemadeKeeps DEF Reachable
<1> HIDE DEF a
<1>3. Held(a)
  BY <1>2 DEF Kept
<1>4. Kept(a, b, v) /\ b.peer.id = IF d.peer.id = None THEN i ELSE d.peer.id
  BY <1>2, <1>3, BindKeyKeeps
<1> HIDE DEF b
<1>5. Held(b)
  BY <1>4 DEF Kept
<1>6. Kept(b, n, v) /\ n.peer.id = b.peer.id
  BY <1>5, NoteBindingKeeps, SameKept
<1> HIDE DEF n
<1>7. Kept(d, n, v) /\ Held(n)
  <2>1. Kept(d, b, v)
    BY <1>2, <1>4, KeptChains
  <2>2. Kept(d, n, v)
    BY <1>6, <2>1, KeptChains
  <2> QED BY <2>2 DEF Kept
<1>a. Keyed(d.peer) \subseteq {i} => n.peer.id = i
  BY <1>4, <1>6 DEF Keyed
<1>8. CASE Keyed(d.peer) \subseteq {i} /\ s = None
  <2>1. Answered(d, i, s, named) = n
    BY <1>8 DEF Answered, n, b, a
  <2> QED BY <1>7, <1>8, <1>a, <2>1
<1>9. CASE Keyed(d.peer) \subseteq {i} /\ s # None
  <2>1. Answered(d, i, s, named) = BindSeal(n, s, i)
    BY <1>9 DEF Answered, n, b, a
  <2>2. Kept(n, BindSeal(n, s, i), v) /\ BindSeal(n, s, i).peer.id = n.peer.id
    BY <1>7, <1>9, BindSealKeeps
  <2>3. Kept(d, BindSeal(n, s, i), v)
    BY <1>7, <2>2, KeptChains
  <2> QED BY <1>9, <1>a, <2>1, <2>2, <2>3
<1>10. CASE ~(Keyed(d.peer) \subseteq {i})
  <2>1. Answered(d, i, s, named) = NoteKeyConflict(d, i)
    BY <1>10 DEF Answered
  <2> QED BY <1>10, <2>1, NoteKeyConflictKeeps
<1> QED BY <1>8, <1>9, <1>10

(* A record q that is p with its list of competing keys cut, if anything.  *)
Cut(p, q) ==
  IF p = None THEN q = None
  ELSE /\ q \in Peer
       /\ q.id = p.id /\ q.seal = p.seal /\ q.seen = p.seen /\ q.conf = p.conf
       /\ q.req = p.req /\ q.binds = p.binds /\ q.profile = p.profile
       /\ q.rev = p.rev
       /\ q.rivals = p.rivals \/ Cardinality(q.rivals) = MaxConflicts

LEMMA CappedIs ==
  ASSUME NEW d \in Directory, NEW fresh, NEW e \in Capped(d, fresh)
  PROVE  e \in Directory /\ Cut(d.peer, e.peer)
<1>1. CASE d.peer = None
  BY <1>1 DEF Capped, Cut
<1>2. CASE d.peer # None
  <2>1. d.peer \in Peer
    BY <1>2 DEF Directory
  <2>2. PICK kept \in Newest(d.peer.rivals, fresh) :
          e = [d EXCEPT !.peer = [d.peer EXCEPT !.rivals = kept]]
    BY <1>2 DEF Capped
  <2> DEFINE q == [d.peer EXCEPT !.rivals = kept]
  <2>3. /\ kept \subseteq d.peer.rivals
        /\ kept = d.peer.rivals \/ Cardinality(kept) = MaxConflicts
    BY <2>2 DEF Newest
  <2>4. kept \in SUBSET Ids
    BY <2>1, <2>3 DEF Peer
  <2>5. q \in Peer /\ Cut(d.peer, q)
    BY <1>2, <2>1, <2>3, <2>4 DEF Peer, Cut
  <2> HIDE DEF q
  <2>6. e = [d EXCEPT !.peer = q]
    BY <2>2 DEF q
  <2> QED BY <2>5, <2>6 DEF Directory
<1> QED BY <1>1, <1>2

(* A cut record is as paired as before, and grown like the whole one.      *)
LEMMA CutPaired ==
  ASSUME NEW p, NEW q, Cut(p, q), NEW v, Paired(p, v)
  PROVE  Paired(q, v)
BY NoneAssumption DEF Cut, Paired

LEMMA CutGrows ==
  ASSUME NEW f, NEW p \in Peer, NEW q, Grows(f, p), Cut(p, q)
  PROVE  Grows(f, q)
BY NoneAssumption DEF Cut, Grows

LEMMA CutKeeps ==
  ASSUME NEW d, NEW e, NEW v, Kept(d, e, v), NEW fresh, NEW g \in Capped(e, fresh)
  PROVE  Kept(d, g, v)
<1>1. e \in Directory /\ e.peer # None /\ e.peer \in Peer
  BY HeldPeer DEF Kept, Held
<1>2. g \in Directory /\ Cut(e.peer, g.peer)
  BY <1>1, CappedIs
<1>3. g.peer # None
  BY <1>1, <1>2, NoneAssumption DEF Cut
<1> QED BY <1>1, <1>2, <1>3, CutPaired, CutGrows DEF Kept, Held

(* The blocklist is beside the record. *)
LEMMA BlocksBeside ==
  ASSUME NEW d \in Directory
  PROVE  /\ Block(d) \in Directory /\ Block(d).peer = d.peer
         /\ Unblock(d) \in Directory /\ Unblock(d).peer = d.peer
BY DEF Block, Unblock, Directory, Peer, Keyed

-----------------------------------------------------------------------------
(* The merge of one record. *)

LEMMA FlooredIs ==
  ASSUME NEW p \in Peer, NEW q \in Peer
  PROVE  LET f == Floored(p, q) IN
         /\ f \in Peer
         /\ f.id = p.id /\ f.seal = p.seal /\ f.seen = p.seen /\ f.conf = p.conf
         /\ f.rev = p.rev
         /\ p.req \/ q.req => f.req
         /\ p.binds \/ q.binds => f.binds
<1>1. (p.req \/ q.req) \in BOOLEAN /\ (p.binds \/ q.binds) \in BOOLEAN
  OBVIOUS
<1>2. Floored(p, q) = [p EXCEPT !.req = p.req \/ q.req, !.binds = p.binds \/ q.binds]
  BY DEF Floored, Peer
<1> DEFINE a == p.req \/ q.req
           b == p.binds \/ q.binds
<1> HIDE DEF a, b
<1>3. Floored(p, q) = [p EXCEPT !.req = a, !.binds = b] /\ a \in BOOLEAN /\ b \in BOOLEAN
  BY <1>1, <1>2 DEF a, b
<1> DEFINE f == Floored(p, q)
<1>4. f \in Peer
  BY <1>3 DEF Peer
<1>5. /\ f.id = p.id /\ f.seal = p.seal /\ f.seen = p.seen /\ f.conf = p.conf
      /\ f.rev = p.rev /\ f.req = a /\ f.binds = b
  BY <1>3 DEF Peer
<1> HIDE DEF f
<1> QED BY <1>4, <1>5 DEF a, b, f

LEMMA FlooredPaired ==
  ASSUME NEW p \in Peer, NEW q \in Peer, NEW v
  PROVE  Paired(p, v) => Paired(Floored(p, q), v)
<1>1. p.id \in Ids \cup {None}
  BY DEF Peer
<1> QED BY <1>1, FlooredIs, FilledPaired

(* A writer that read the record `was` and one that the file holds now.    *)
Rivals(disk, own, was) ==
  /\ disk \in Peer /\ own \in Peer /\ was \in Peer
  /\ own.rev >= was.rev /\ disk.rev >= was.rev
  /\ was.id # None => own.id # None /\ disk.id # None
  /\ was.id = None /\ disk.id # None => disk.rev > was.rev

LEMMA WithSealIs ==
  ASSUME NEW p \in Peer, NEW q \in Peer
  PROVE  LET w == WithSeal(p, q) IN
         /\ w \in Peer /\ w.id = p.id /\ w.rev = p.rev
         /\ w.seal = q.seal /\ w.seen = q.seen /\ w.conf = q.conf
BY DEF WithSeal, Peer

(* Of one identity, whichever of the two sealing keys is kept is paired.   *)
LEMMA MergedSealPaired ==
  ASSUME NEW disk \in Peer, NEW own \in Peer, NEW was \in Peer, NEW v
  PROVE  LET m == MergedSeal(disk, own, was) IN
         /\ m \in Peer /\ m.id = disk.id
         /\ disk.id = own.id /\ Paired(disk, v) /\ Paired(own, v) => Paired(m, v)
<1> DEFINE w == WithSeal(disk, own)
           x == [disk EXCEPT !.seen = TRUE, !.conf = own.seal]
<1>1. /\ w \in Peer /\ w.id = disk.id
      /\ disk.id = own.id /\ Paired(own, v) => Paired(w, v)
  <2>1. own.id \in Ids \cup {None}
    BY DEF Peer
  <2> QED BY <2>1, WithSealIs, FilledPaired
<1>2. own.seal # None => x \in Peer /\ x.id = disk.id /\ Paired(x, v)
  <2>1. x \in Peer /\ x.id = disk.id /\ x.conf = own.seal
    BY DEF Peer
  <2> HIDE DEF x
  <2> QED BY <2>1 DEF Paired
<1>3. \/ MergedSeal(disk, own, was) = w
      \/ MergedSeal(disk, own, was) = x /\ own.seal # None
      \/ MergedSeal(disk, own, was) = disk
  BY DEF MergedSeal
<1> HIDE DEF w, x
<1> QED BY <1>1, <1>2, <1>3

LEMMA SecuredTyped ==
  ASSUME NEW disk \in Peer, NEW own \in Peer, NEW was \in Peer
  PROVE  Secured(disk, own, was) \in Peer
BY MergedSealPaired DEF Secured

(* The security unit comes from one side, or from both of one identity.    *)
LEMMA SecuredPaired ==
  ASSUME NEW disk, NEW own, NEW was, Rivals(disk, own, was), NEW v
  PROVE  LET x == Secured(disk, own, was) IN
         /\ x.id = None <=> disk.id = None
         /\ Paired(disk, v) /\ Paired(own, v) => Paired(x, v)
<1>1. CASE was.id = None
  <2>1. Secured(disk, own, was) = disk
    BY <1>1 DEF Secured
  <2> QED BY <2>1 DEF Rivals
<1>2. CASE was.id # None /\ Rotated(own, was) /\ ~Rotated(disk, was)
  <2>1. Secured(disk, own, was) = own
    BY <1>2 DEF Secured
  <2> QED BY <1>2, <2>1 DEF Rivals
<1>3. CASE was.id # None /\ Rotated(disk, was) /\ own.id # disk.id
  <2>1. Secured(disk, own, was) = disk
    BY <1>3 DEF Secured, Rivals
  <2> QED BY <2>1 DEF Rivals
<1>4. CASE /\ was.id # None
           /\ ~(Rotated(own, was) /\ ~Rotated(disk, was))
           /\ ~(Rotated(disk, was) /\ own.id # disk.id)
  <2>1. Secured(disk, own, was) = MergedSeal(disk, own, was)
    BY <1>4 DEF Secured
  <2>2. disk.id = own.id
    BY <1>4 DEF Rotated, Rivals
  <2> QED BY <2>1, <2>2, MergedSealPaired DEF Rivals
<1> QED BY <1>1, <1>2, <1>3, <1>4

LEMMA MergedRivalsTyped ==
  ASSUME NEW disk \in Peer, NEW own \in Peer, NEW was \in Peer
  PROVE  MergedRivals(disk, own, was) \in SUBSET Ids
<1>1. disk.rivals \in SUBSET Ids /\ own.rivals \in SUBSET Ids
  BY DEF Peer
<1>2. BothRotated(disk, own, was) => own.id \in Ids
  BY DEF BothRotated, Rotated, Peer
<1> QED
  BY <1>1, <1>2 DEF MergedRivals, OneSided, UnionRivals, AppendRival

LEMMA MergedFieldsIs ==
  ASSUME NEW disk \in Peer, NEW own \in Peer, NEW was \in Peer
  PROVE  LET m == MergedFields(disk, own, was)
             x == Secured(disk, own, was) IN
         /\ m \in Peer
         /\ m.id = x.id /\ m.seal = x.seal /\ m.seen = x.seen /\ m.conf = x.conf
         /\ m.rev >= disk.rev /\ m.rev >= own.rev
<1> DEFINE x == Secured(disk, own, was)
           rivals == MergedRivals(disk, own, was)
           profile == MergedProfile(disk, own, was)
           rev == Higher(disk.rev, own.rev)
<1>1. x \in Peer /\ rivals \in SUBSET Ids
  BY SecuredTyped, MergedRivalsTyped
<1>2. profile \in Profiles
  BY DEF MergedProfile, OneSided, Peer
<1>3. rev \in Nat /\ rev >= disk.rev /\ rev >= own.rev
  BY DEF Higher, Peer
<1>4. MergedFields(disk, own, was) =
        [x EXCEPT !.rivals = rivals, !.profile = profile, !.rev = rev]
  BY DEF MergedFields
<1> HIDE DEF x, rivals, profile, rev
<1>5. QED
  BY <1>1, <1>2, <1>3, <1>4 DEF Peer, x

(* The four outcomes of mergeRecord().                                     *)
LEMMA MergeRecordCases ==
  ASSUME NEW disk \in Peer, NEW own \in Peer, NEW was \in Peer \cup {None}
  PROVE  LET m == MergeRecord(disk, own, was) IN
         \/ was = None /\ own.rev > disk.rev /\ m = Floored(own, disk)
         \/ m = Floored(disk, own)
         \/ /\ was # None /\ own.rev # was.rev /\ disk.rev = was.rev
            /\ m = Floored(own, disk)
         \/ /\ was # None
            /\ m = Floored(Floored(MergedFields(disk, own, was), disk), own)
BY DEF MergeRecord, MergeByRev

(* Whatever writers did, the merged record has the floors of both.         *)
LEMMA MergeKeepsFloors ==
  ASSUME NEW disk \in Peer, NEW own \in Peer, NEW was \in Peer \cup {None}
  PROVE  LET m == MergeRecord(disk, own, was) IN
         m \in Peer /\ (disk.req => m.req) /\ (disk.binds => m.binds)
<1> DEFINE x == MergedFields(disk, own, was)
<1>1. was # None => x \in Peer
  BY MergedFieldsIs
<1> HIDE DEF x
<1>2. ASSUME was # None
      PROVE  LET m == Floored(Floored(x, disk), own) IN
             m \in Peer /\ (disk.req => m.req) /\ (disk.binds => m.binds)
  <2> DEFINE y == Floored(x, disk)
  <2>1. y \in Peer /\ (disk.req => y.req) /\ (disk.binds => y.binds)
    BY <1>1, <1>2, FlooredIs
  <2> HIDE DEF y
  <2> QED BY <2>1, FlooredIs DEF y
<1>3. LET m == Floored(disk, own) IN
      m \in Peer /\ (disk.req => m.req) /\ (disk.binds => m.binds)
  BY FlooredIs
<1>4. LET m == Floored(own, disk) IN
      m \in Peer /\ (disk.req => m.req) /\ (disk.binds => m.binds)
  BY FlooredIs
<1>5. LET m == MergeRecord(disk, own, was) IN
      \/ m = Floored(disk, own)
      \/ m = Floored(own, disk)
      \/ was # None /\ m = Floored(Floored(x, disk), own)
  BY MergeRecordCases DEF x
<1> QED BY <1>2, <1>3, <1>4, <1>5

(* Nor does it lose an identity, go back, or mix up sealing keys.          *)
LEMMA MergeRecordKeeps ==
  ASSUME NEW disk, NEW own, NEW was, Rivals(disk, own, was), NEW v
  PROVE  LET m == MergeRecord(disk, own, was) IN
         /\ Grows(disk, m)
         /\ Paired(disk, v) /\ Paired(own, v) => Paired(m, v)
<1> USE DEF Rivals
<1> DEFINE m == MergeRecord(disk, own, was)
           x == MergedFields(disk, own, was)
           y == Floored(x, disk)
<1>0. /\ m \in Peer /\ (disk.req => m.req) /\ (disk.binds => m.binds)
      /\ was # None
      /\ {disk.rev, own.rev, was.rev} \subseteq Nat
  BY MergeKeepsFloors, NoneAssumption DEF Peer
<1>1. CASE m = Floored(disk, own)
  <2>1. m.id = disk.id /\ m.rev = disk.rev
    BY <1>1, FlooredIs
  <2> HIDE DEF m
  <2> QED BY <1>0, <1>1, <2>1, FlooredPaired DEF Grows, m
<1>2. CASE own.rev # was.rev /\ disk.rev = was.rev /\ m = Floored(own, disk)
  <2>1. m.id = own.id /\ m.rev = own.rev
    BY <1>2, FlooredIs
  <2> HIDE DEF m
  <2>2. Grows(disk, m)
    BY <1>0, <1>2, <2>1 DEF Grows
  <2> QED BY <1>2, <2>2, FlooredPaired DEF m
<1>3. CASE m = Floored(y, own)
  <2>1. /\ x \in Peer /\ x.rev >= disk.rev
        /\ x.id = None <=> disk.id = None
        /\ Paired(disk, v) /\ Paired(own, v) => Paired(x, v)
    <3> DEFINE z == Secured(disk, own, was)
    <3>1. z \in Peer /\ (z.id = None <=> disk.id = None)
      BY SecuredTyped, SecuredPaired
    <3>2. Paired(disk, v) /\ Paired(own, v) => Paired(z, v)
      BY SecuredPaired
    <3>3. /\ x \in Peer /\ x.rev >= disk.rev
          /\ x.id = z.id /\ x.seal = z.seal /\ x.seen = z.seen /\ x.conf = z.conf
      BY MergedFieldsIs
    <3> HIDE DEF x, z
    <3>4. Paired(z, v) => Paired(x, v)
      <4>1. z.id \in Ids \cup {None}
        BY <3>1 DEF Peer
      <4> QED BY <3>1, <3>3, <4>1, FilledPaired
    <3> QED BY <3>1, <3>2, <3>3, <3>4
  <2> HIDE DEF x
  <2>2. y \in Peer /\ y.id = x.id /\ y.rev = x.rev /\ (Paired(x, v) => Paired(y, v))
    BY <2>1, FlooredIs, FlooredPaired
  <2> HIDE DEF y
  <2>3. m.id = y.id /\ m.rev = y.rev /\ (Paired(y, v) => Paired(m, v))
    BY <1>3, <2>2, FlooredIs, FlooredPaired
  <2> HIDE DEF m
  <2> QED BY <1>0, <2>1, <2>2, <2>3 DEF Grows, m
<1> QED BY <1>0, <1>1, <1>2, <1>3, MergeRecordCases

(* Who made a record of its own finds another's there: that one stays.     *)
LEMMA MergeOfNewcomer ==
  ASSUME NEW disk \in Peer, NEW own \in Peer, own.rev = 1, disk.rev >= 1, NEW v
  PROVE  LET m == MergeRecord(disk, own, None) IN
         Grows(disk, m) /\ (Paired(disk, v) => Paired(m, v))
<1> DEFINE m == MergeRecord(disk, own, None)
<1>1. m = Floored(disk, own)
  <2>1. ~(own.rev > disk.rev)
    BY DEF Peer
  <2> QED BY <2>1 DEF MergeRecord, MergeByRev
<1>2. /\ m \in Peer /\ m.id = disk.id /\ m.rev = disk.rev
      /\ disk.req => m.req
      /\ disk.binds => m.binds
  BY <1>1, FlooredIs
<1>3. Paired(disk, v) => Paired(m, v)
  BY <1>1, FlooredPaired
<1> HIDE DEF m
<1>4. disk.rev \in Nat
  BY DEF Peer
<1> QED BY <1>2, <1>3, <1>4 DEF Grows, m

-----------------------------------------------------------------------------
(* Types. *)

LEMMA AdmitTyped ==
  ASSUME NEW d \in Directory,
         NEW i \in Ids \cup {None}, NEW s \in Seals \cup {None}, NEW prof \in Profiles
  PROVE  /\ Held(Admit(d, i, s, prof))
         /\ d.peer = None => /\ Admit(d, i, s, prof).peer.rev = 1
                             /\ ~Admit(d, i, s, prof).peer.seen
<1>1. CASE d.peer = None
  <2> DEFINE p == Newcomer(i, s, prof)
  <2>1. p \in Peer /\ p # None /\ p.rev = 1 /\ ~p.seen
    BY NewcomerIs
  <2> HIDE DEF p
  <2>2. Admit(d, i, s, prof) = [d EXCEPT !.peer = p]
    BY <1>1 DEF Admit, p
  <2>3. Admit(d, i, s, prof) \in Directory /\ Admit(d, i, s, prof).peer = p
    BY <2>1, <2>2 DEF Directory
  <2> QED BY <2>1, <2>3 DEF Held
<1>2. CASE d.peer # None
  BY <1>2, AdmitKeeps DEF Held, Kept
<1> QED BY <1>1, <1>2

LEMMA ForgetTyped ==
  ASSUME NEW d \in Directory, d.peer # None
  PROVE  Forget(d) \in Directory /\ Forget(d).peer = None
BY DEF Forget, Directory, Keyed, Peer

LEMMA EmptyTyped == Empty \in Directory /\ Empty.peer = None
BY DEF Empty, Directory

LEMMA VouchIs ==
  ASSUME TypeOK, NEW i \in Ids \cup {None}, NEW s \in Seals \cup {None}, Vouch(i, s)
  PROVE  /\ vouched \subseteq vouched' /\ vouched' \subseteq Ids \X Seals
         /\ s # None => \A j \in Ids : i \in {j, None} => <<j, s>> \in vouched'
<1>1. vouched \subseteq Ids \X Seals
  BY DEF TypeOK
<1>2. CASE s = None
  BY <1>1, <1>2 DEF Vouch
<1>3. CASE s # None
  <2> DEFINE new == (IF i = None THEN Ids ELSE {i}) \X {s}
  <2>1. vouched' = vouched \cup new
    BY <1>3 DEF Vouch
  <2>2. new \subseteq Ids \X Seals
    BY <1>3
  <2>3. ASSUME NEW j \in Ids, i \in {j, None} PROVE <<j, s>> \in new
    <3>1. CASE i = None
      BY <3>1
    <3>2. CASE i # None
      <4>1. i = j
        BY <2>3, <3>2
      <4> QED BY <3>2, <4>1
    <3> QED BY <3>1, <3>2
  <2> HIDE DEF new
  <2>4. vouched' \subseteq Ids \X Seals
    BY <1>1, <2>1, <2>2
  <2>5. \A j \in Ids : i \in {j, None} => <<j, s>> \in vouched'
    BY <2>1, <2>3
  <2> QED BY <2>1, <2>4, <2>5
<1> QED BY <1>2, <1>3

LEMMA MergedPeerTyped ==
  ASSUME NEW disk \in Peer \cup {None}, NEW own \in Peer \cup {None},
         NEW was \in Peer \cup {None}
  PROVE  MergedPeer(disk, own, was) \in Peer \cup {None}
BY MergeKeepsFloors DEF MergedPeer

LEMMA ReconcileTyped ==
  ASSUME NEW d \in Directory, NEW b \in Directory, NEW m \in Directory
  PROVE  /\ Reconcile(d, b, m) \in Directory
         /\ Reconcile(d, b, m).peer = MergedPeer(d.peer, m.peer, b.peer)
<1>1. MergedPeer(d.peer, m.peer, b.peer) \in Peer \cup {None}
  BY MergedPeerTyped DEF Directory
<1> QED BY <1>1 DEF Reconcile, Directory

LEMMA PersistedTyped ==
  ASSUME TypeOK, NEW c \in Clis, Persist(c)
  PROVE  /\ file' \in Directory
         /\ MergedPeer(file.peer, mine[c].peer, base[c].peer) \in Peer \cup {None}
         /\ Cut(MergedPeer(file.peer, mine[c].peer, base[c].peer), file'.peer)
<1> DEFINE r == Reconcile(file, base[c], mine[c])
<1>1. file \in Directory /\ base[c] \in Directory /\ mine[c] \in Directory
  BY DEF TypeOK
<1>2. r \in Directory /\ r.peer = MergedPeer(file.peer, mine[c].peer, base[c].peer)
  BY <1>1, ReconcileTyped
<1>3. file' \in Capped(r, Appended(file.peer, mine[c].peer, base[c].peer))
  BY DEF Persist
<1> HIDE DEF r
<1>4. file' \in Directory /\ Cut(r.peer, file'.peer)
  BY <1>2, <1>3, CappedIs
<1>5. r.peer \in Peer \cup {None}
  BY <1>2 DEF Directory
<1> QED BY <1>2, <1>4, <1>5

(* What earlier commands may have left.                                    *)
LEMMA WalkedIs ==
  ASSUME NEW p \in Peer, p.id \in Ids, p.rev >= 1, NEW s \in Seals,
         NEW v, Paired(p, v), <<p.id, s>> \in v
  PROVE  LET w == Walked(p, s) IN
         w \in Peer /\ w # None /\ w.id = p.id /\ w.rev >= 1 /\ Paired(w, v)
<1> DEFINE d == [Empty EXCEPT !.peer = p]
           a == Answered(d, p.id, s, FALSE)
<1>1. Held(d) /\ d.peer = p
  <2>1. p # None
    BY NoneAssumption
  <2> QED BY <2>1 DEF Held, Empty, Directory
<1>2. Keyed(d.peer) \subseteq {p.id}
  BY <1>1 DEF Keyed
<1> HIDE DEF d
<1>3. Kept(d, a, v) /\ a.peer.id = p.id
  <2>1. Keyed(d.peer) \subseteq {p.id} /\ s # None => <<p.id, s>> \in v
    OBVIOUS
  <2>2. s \in Seals \cup {None} /\ FALSE \in BOOLEAN
    OBVIOUS
  <2>3. Kept(d, Answered(d, p.id, s, FALSE), v)
    BY <1>1, <2>1, <2>2, AnsweredKeeps
  <2>4. Answered(d, p.id, s, FALSE).peer.id = p.id
    BY <1>1, <1>2, <2>1, <2>2, AnsweredKeeps, ZenonT(30)
  <2> QED BY <2>3, <2>4
<1>4. Walked(p, s) = a.peer
  BY DEF Walked, a, d
<1> HIDE DEF a
<1>5. a.peer \in Peer /\ a.peer # None
  BY <1>3, HeldPeer DEF Kept, Held
<1>6. p.rev \in Nat /\ a.peer.rev \in Nat
  BY <1>5 DEF Peer
<1> QED BY <1>1, <1>3, <1>4, <1>5, <1>6 DEF Kept, Grows

LEMMA InitTyped == Init => TypeOK
<1> SUFFICES ASSUME Init PROVE TypeOK
  OBVIOUS
<1>1. file \in Directory /\ vouched \subseteq Ids \X Seals
  <2>1. CASE fate # "forgotten" /\ file = Empty /\ vouched = {}
    BY <2>1, EmptyTyped
  <2>2. ASSUME NEW i \in Ids \cup {None}, NEW prof \in Profiles,
               file = [Empty EXCEPT !.peer = Newcomer(i, None, prof)], vouched = {}
        PROVE  file \in Directory /\ vouched \subseteq Ids \X Seals
    BY <2>2, NewcomerIs DEF Empty, Directory
  <2>3. ASSUME NEW i \in Ids, NEW prof \in Profiles, NEW s \in Seals, NEW t \in Seals,
               file = [Empty EXCEPT !.peer = Walked(Walked(Newcomer(i, None, prof), s), t)],
               vouched = {i} \X {s, t}
        PROVE  file \in Directory /\ vouched \subseteq Ids \X Seals
    <3> DEFINE p == Newcomer(i, None, prof)
               v == {i} \X {s, t}
    <3>1. p \in Peer /\ p.rev >= 1 /\ Paired(p, v) /\ p.id = i
      <4>1. p \in Peer /\ p.rev = 1 /\ ~p.seen
        BY NewcomerIs
      <4>2. p.id = i
        BY DEF Newcomer
      <4> HIDE DEF p
      <4> QED BY <4>1, <4>2 DEF Paired
    <3> HIDE DEF p
    <3>2. <<i, s>> \in v /\ <<i, t>> \in v
      OBVIOUS
    <3>3. Walked(Walked(p, s), t) \in Peer
      BY <3>1, <3>2, WalkedIs
    <3>4. file = [Empty EXCEPT !.peer = Walked(Walked(p, s), t)]
      BY <2>3 DEF p
    <3> QED BY <2>3, <3>3, <3>4 DEF Empty, Directory
  <2> QED BY <2>1, <2>2, <2>3 DEF Init
<1>2. file.peer \in Peer \cup {None}
  BY <1>1 DEF Directory
<1> QED
  BY <1>1, <1>2, EmptyTyped, ConstantsAssumption DEF Init, TypeOK, Phases

LEMMA CommandTyped ==
  ASSUME TypeOK, NEW c \in Clis, NEW d \in Directory, Command(c, d),
         vouched' \subseteq Ids \X Seals
  PROVE  TypeOK'
BY ConstantsAssumption DEF TypeOK, Command, Change, Phases

LEMMA WalkTyped ==
  ASSUME TypeOK, NEW c \in Clis, NEW d \in Directory, NEW before, NEW after \in Phases,
         Walking(c, before, after, d), vouched' \subseteq Ids \X Seals
  PROVE  TypeOK'
BY ConstantsAssumption DEF TypeOK, Walking, Change

LEMMA ApplyTyped ==
  ASSUME TypeOK, NEW d \in Directory, Apply(d), vouched' \subseteq Ids \X Seals
  PROVE  TypeOK'
<1>1. d.peer \in Peer \cup {None}
  BY DEF Directory
<1> QED BY <1>1, ConstantsAssumption DEF TypeOK, Apply, Change

(* A directory of a writer's, or the daemon's, is held where it has the    *)
(* peer.                                                                   *)
LEMMA HeldByWriter ==
  ASSUME TypeOK, NEW c \in Clis
  PROVE  mine[c] \in Directory /\ (mine[c].peer # None => Held(mine[c]))
BY DEF TypeOK, Held

LEMMA HeldByFile ==
  ASSUME TypeOK
  PROVE  file \in Directory /\ (file.peer # None => Held(file))
BY DEF TypeOK, Held

(* The key `hail accept` chooses is one the record names, or the given one.*)
LEMMA ChosenIs ==
  ASSUME NEW p \in Peer, NEW s \in Seals \cup {None}
  PROVE  Chosen(p, s) \in Seals \cup {None}
BY DEF Chosen, Peer

(* What an answered peer vouches for, in a walk.                           *)
LEMMA AnswerVouches ==
  ASSUME TypeOK, NEW d, NEW i \in Ids, NEW s \in Seals \cup {None},
         IF Keyed(d.peer) \subseteq {i} THEN Vouch(i, s) ELSE UNCHANGED vouched
  PROVE  /\ vouched \subseteq vouched' /\ vouched' \subseteq Ids \X Seals
         /\ Keyed(d.peer) \subseteq {i} /\ s # None => <<i, s>> \in vouched'
<1>1. CASE Keyed(d.peer) \subseteq {i}
  <2>1. Vouch(i, s)
    BY <1>1
  <2> QED BY <2>1, VouchIs
<1>2. CASE ~(Keyed(d.peer) \subseteq {i})
  BY <1>2 DEF TypeOK
<1> QED BY <1>1, <1>2

(* What a walk's answer leaves of a writer's record.                       *)
LEMMA AnswerIs ==
  ASSUME TypeOK, NEW c \in Clis, Answer(c)
  PROVE  /\ Held(mine[c])
         /\ vouched \subseteq vouched' /\ vouched' \subseteq Ids \X Seals
         /\ \E i \in Ids, s \in Seals \cup {None}, v \in BOOLEAN :
              \E d \in Capped(Answered(mine[c], i, s, v), {i}) :
                /\ Walking(c, {"ready", "walking"}, "answered", d)
                /\ Kept(mine[c], Answered(mine[c], i, s, v), vouched')
                /\ Kept(mine[c], d, vouched')
<1>1. PICK i \in Ids, s \in Seals \cup {None}, v \in BOOLEAN :
        /\ \E d \in Capped(Answered(mine[c], i, s, v), {i}) :
             Walking(c, {"ready", "walking"}, "answered", d)
        /\ IF Keyed(mine[c].peer) \subseteq {i} THEN Vouch(i, s)
                                                ELSE UNCHANGED vouched
  BY DEF Answer
<1>2. PICK d \in Capped(Answered(mine[c], i, s, v), {i}) :
        Walking(c, {"ready", "walking"}, "answered", d)
  BY <1>1
<1>3. Held(mine[c])
  BY HeldByWriter DEF Answer
<1>4. /\ vouched \subseteq vouched' /\ vouched' \subseteq Ids \X Seals
      /\ Keyed(mine[c].peer) \subseteq {i} /\ s # None => <<i, s>> \in vouched'
  BY <1>1, AnswerVouches
<1>5. Kept(mine[c], Answered(mine[c], i, s, v), vouched')
  BY <1>3, <1>4, AnsweredKeeps
<1>6. Kept(mine[c], d, vouched')
  BY <1>5, CutKeeps
<1> QED BY <1>2, <1>3, <1>4, <1>5, <1>6

LEMMA TypeStep ==
  ASSUME TypeOK, [Next]_vars
  PROVE  TypeOK'
<1> USE HeldByWriter, HeldByFile
<1>0. vouched \subseteq Ids \X Seals
  BY DEF TypeOK
<1>1. ASSUME NEW c \in Clis, Start(c) PROVE TypeOK'
  BY <1>1 DEF Start, TypeOK, Phases, history
<1>2. ASSUME NEW c \in Clis, Persist(c) PROVE TypeOK'
  <2>1. file' \in Directory
    BY <1>2, PersistedTyped
  <2> QED BY <1>2, <2>1, EmptyTyped DEF Persist, Leave, TypeOK, Phases
<1>3. ASSUME NEW c \in Clis, Quit(c) PROVE TypeOK'
  BY <1>3, EmptyTyped DEF Quit, Leave, TypeOK, Phases
<1>4. ASSUME NEW c \in Clis, CliAdd(c) PROVE TypeOK'
  <2>1. PICK i \in Ids \cup {None}, prof \in Profiles :
          Command(c, Admit(mine[c], i, None, prof))
    BY <1>4 DEF CliAdd
  <2>2. Admit(mine[c], i, None, prof) \in Directory
    BY AdmitTyped DEF Held
  <2> QED BY <1>0, <1>4, <2>1, <2>2, CommandTyped DEF CliAdd
<1>5. ASSUME NEW c \in Clis, CliForget(c) PROVE TypeOK'
  BY <1>0, <1>5, ForgetTyped, CommandTyped DEF CliForget
<1>6. ASSUME NEW c \in Clis, CliRotate(c) PROVE TypeOK'
  <2>1. PICK i \in Ids : Command(c, Rotate(mine[c], i))
    BY <1>6 DEF CliRotate
  <2>2. Rotate(mine[c], i) \in Directory
    BY <1>6, RotateKeeps DEF CliRotate, Kept, Held
  <2> QED BY <1>0, <1>6, <2>1, <2>2, CommandTyped DEF CliRotate
<1>7. ASSUME NEW c \in Clis, CliAccept(c) PROVE TypeOK'
  <2> DEFINE p == mine[c].peer
  <2>1. PICK s \in Seals \cup {None} :
          Command(c, AcceptSeal(mine[c], s)) /\ Vouch(p.id, Chosen(p, s))
    BY <1>7 DEF CliAccept
  <2>2. Held(mine[c]) /\ p \in Peer
    BY <1>7, HeldPeer DEF CliAccept
  <2>3. p.id \in Ids \cup {None} /\ Chosen(p, s) \in Seals \cup {None}
    BY <2>2, ChosenIs DEF Peer
  <2>4. vouched' \subseteq Ids \X Seals /\ Vouched(p, Chosen(p, s), vouched')
    BY <2>1, <2>3, VouchIs DEF Vouched
  <2>5. AcceptSeal(mine[c], s) \in Directory
    BY <2>2, <2>4, AcceptSealKeeps DEF Kept, Held
  <2> QED BY <2>1, <2>4, <2>5, CommandTyped
<1>8. ASSUME NEW c \in Clis, CliBlock(c) PROVE TypeOK'
  BY <1>0, <1>8, BlocksBeside, CommandTyped DEF CliBlock
<1>9. ASSUME NEW c \in Clis, Answer(c) PROVE TypeOK'
  <2>1. PICK d : /\ Walking(c, {"ready", "walking"}, "answered", d)
                 /\ Kept(mine[c], d, vouched')
    BY <1>9, AnswerIs
  <2>2. vouched' \subseteq Ids \X Seals
    BY <1>9, AnswerIs
  <2>3. d \in Directory
    BY <2>1 DEF Kept, Held
  <2> QED BY <2>1, <2>2, <2>3, WalkTyped DEF Phases
<1>10. ASSUME NEW c \in Clis, Mention(c) PROVE TypeOK'
  <2>1. PICK i \in Ids \cup {None}, before \in SUBSET Phases, after \in Phases :
          Walking(c, before, after, Hear(mine[c], i))
    <3>1. PICK i \in Ids \cup {None} :
            \/ Walking(c, {"ready", "walking"}, "walking", Hear(mine[c], i))
            \/ Walking(c, {"answered"}, "answered", Hear(mine[c], i))
      BY <1>10 DEF Mention
    <3>2. {"ready", "walking", "answered"} \subseteq Phases
      BY DEF Phases
    <3>3. CASE Walking(c, {"ready", "walking"}, "walking", Hear(mine[c], i))
      BY <3>2, <3>3
    <3>4. CASE Walking(c, {"answered"}, "answered", Hear(mine[c], i))
      BY <3>2, <3>4
    <3> QED BY <3>1, <3>3, <3>4
  <2>2. Hear(mine[c], i) \in Directory
    BY <2>1, HearKeeps DEF Walking, Kept, Held
  <2> QED BY <1>0, <1>10, <2>1, <2>2, WalkTyped DEF Mention
<1>11. CASE PageAdmit
  <2>1. PICK i \in Ids \cup {None}, s \in Seals \cup {None}, prof \in Profiles :
          Apply(Admit(file, i, s, prof))
    BY <1>11 DEF PageAdmit
  <2>2. Admit(file, i, s, prof) \in Directory
    BY AdmitTyped DEF Held
  <2> QED BY <1>0, <1>11, <2>1, <2>2, ApplyTyped DEF PageAdmit
<1>12. CASE PageForget
  BY <1>0, <1>12, ForgetTyped, ApplyTyped DEF PageForget
<1>13. CASE PageAccept
  <2> DEFINE p == file.peer
  <2>1. PICK s \in Seals \cup {None} :
          Apply(AcceptSeal(file, s)) /\ Vouch(p.id, Chosen(p, s))
    BY <1>13 DEF PageAccept
  <2>2. Held(file) /\ p \in Peer
    BY <1>13, HeldPeer DEF PageAccept
  <2>3. p.id \in Ids \cup {None} /\ Chosen(p, s) \in Seals \cup {None}
    BY <2>2, ChosenIs DEF Peer
  <2>4. vouched' \subseteq Ids \X Seals /\ Vouched(p, Chosen(p, s), vouched')
    BY <2>1, <2>3, VouchIs DEF Vouched
  <2>5. AcceptSeal(file, s) \in Directory
    BY <2>2, <2>4, AcceptSealKeeps DEF Kept, Held
  <2> QED BY <2>1, <2>4, <2>5, ApplyTyped
<1>14. CASE PageBlock
  BY <1>0, <1>14, BlocksBeside, ApplyTyped DEF PageBlock
<1>15. CASE CallerProvesKey
  BY <1>0, <1>15, BindKeyKeeps, ApplyTyped DEF CallerProvesKey, Kept, Held
<1>16. CASE CallerBinds
  BY <1>0, <1>16, NoteBindingKeeps, ApplyTyped DEF CallerBinds, Kept, Held
<1>17. CASE Reload
  BY <1>17 DEF Reload, TypeOK, Directory, history
<1>18. CASE UNCHANGED vars
  BY <1>18 DEF vars, TypeOK, history
<1> QED
  BY <1>1, <1>2, <1>3, <1>4, <1>5, <1>6, <1>7, <1>8, <1>9, <1>10, <1>11, <1>12,
     <1>13, <1>14, <1>15, <1>16, <1>17, <1>18 DEF Next

(* The file, the daemon and every writer's copy stay well formed: what a   *)
(* merge of three records leaves is a record (mergeRecord, 730-757).       *)
THEOREM TypeCorrect == Spec => []TypeOK
<1>1. Init => TypeOK
  BY InitTyped
<1>2. TypeOK /\ [Next]_vars => TypeOK'
  BY TypeStep
<1> QED BY <1>1, <1>2, PTL DEF Spec

-----------------------------------------------------------------------------
(* The safety floors. *)

FloorsKept == file.peer # None /\ file'.peer # None =>
                /\ file.peer.req => file'.peer.req
                /\ file.peer.binds => file'.peer.binds

LEMMA AppliedKept ==
  ASSUME NEW d, NEW v, Apply(d), file.peer # None => Kept(file, d, v)
  PROVE  FloorsKept
BY DEF Apply, Kept, Grows, FloorsKept

LEMMA FloorsStep ==
  ASSUME TypeOK, [Next]_vars
  PROVE  FloorsKept
<1> USE HeldByFile
<1>1. CASE file' = file
  BY <1>1 DEF FloorsKept
<1>2. ASSUME NEW c \in Clis, Persist(c) PROVE FloorsKept
  <2> DEFINE disk == file.peer
             own  == mine[c].peer
             was  == base[c].peer
             new  == MergedPeer(disk, own, was)
  <2>1. /\ file \in Directory /\ mine[c] \in Directory /\ base[c] \in Directory
        /\ disk \in Peer \cup {None} /\ own \in Peer \cup {None}
        /\ was \in Peer \cup {None}
    BY DEF TypeOK, Directory
  <2>2. Cut(new, file'.peer)
    BY <1>2, PersistedTyped
  <2>3. CASE disk # None /\ own # None
    <3>1. disk \in Peer /\ own \in Peer
      BY <2>1, <2>3
    <3>2. new = MergeRecord(disk, own, was)
      BY <2>3 DEF MergedPeer
    <3>3. new \in Peer /\ (disk.req => new.req) /\ (disk.binds => new.binds)
      BY <2>1, <3>1, <3>2, MergeKeepsFloors
    <3> HIDE DEF new
    <3> QED BY <2>2, <3>3, NoneAssumption DEF Cut, FloorsKept
  <2>4. CASE disk = None \/ own = None
    <3>1. disk = None \/ new = disk \/ new = None
      BY <2>4 DEF MergedPeer
    <3> HIDE DEF new
    <3> QED BY <2>2, <3>1 DEF Cut, FloorsKept
  <2> QED BY <2>3, <2>4
<1>3. CASE PageAdmit
  BY <1>3, AdmitKeeps, AppliedKept DEF PageAdmit
<1>4. CASE PageForget
  BY <1>4, ForgetTyped DEF PageForget, Apply, FloorsKept
<1>5. CASE PageAccept
  <2> DEFINE p == file.peer
  <2>1. PICK s \in Seals \cup {None} :
          Apply(AcceptSeal(file, s)) /\ Vouch(p.id, Chosen(p, s))
    BY <1>5 DEF PageAccept
  <2>2. Held(file) /\ p \in Peer
    BY <1>5, HeldPeer DEF PageAccept
  <2>3. p.id \in Ids \cup {None} /\ Chosen(p, s) \in Seals \cup {None}
    BY <2>2, ChosenIs DEF Peer
  <2>4. Vouched(p, Chosen(p, s), vouched')
    BY <2>1, <2>3, VouchIs DEF Vouched
  <2> QED BY <2>1, <2>2, <2>4, AcceptSealKeeps, AppliedKept
<1>6. CASE PageBlock
  <2>1. file'.peer = file.peer
    BY <1>6, BlocksBeside DEF PageBlock, Apply
  <2> QED BY <2>1 DEF FloorsKept
<1>7. CASE CallerProvesKey
  BY <1>7, BindKeyKeeps, AppliedKept DEF CallerProvesKey
<1>8. CASE CallerBinds
  BY <1>8, NoteBindingKeeps, AppliedKept DEF CallerBinds
<1>9. CASE ~(\E c \in Clis : Persist(c)) /\ ~PageAdmit /\ ~PageForget /\ ~PageAccept
           /\ ~PageBlock /\ ~CallerProvesKey /\ ~CallerBinds
  <2>1. file' = file
    BY <1>9 DEF Next, Start, Quit, CliAdd, CliForget, CliRotate, CliAccept, CliBlock,
                Answer, Mention, Command, Walking, Reload, vars
  <2> QED BY <2>1, <1>1
<1> QED BY <1>2, <1>3, <1>4, <1>5, <1>6, <1>7, <1>8, <1>9

(* While a peer stays admitted it never drops a safety floor, whoever      *)
(* writes and however stale its copy: to have been sealed to, to have bound*)
(* its target (directory.js 418, 1053-1056, 1355-1360).                    *)
THEOREM FloorsNeverLowered == Spec => FloorsStay
<1>1. TypeOK /\ [Next]_vars => FloorsKept
  BY FloorsStep
<1>2. TypeOK /\ [Next]_vars =>
        [file.peer # None /\ file'.peer # None =>
           /\ file.peer.req => file'.peer.req
           /\ file.peer.binds => file'.peer.binds]_vars
  BY <1>1 DEF FloorsKept
<1> QED BY <1>2, TypeCorrect, PTL DEF Spec, FloorsStay

-----------------------------------------------------------------------------
(* Identities and sealing keys, where a forgotten peer is not admitted     *)
(* anew: between its baseline and what it meets, a writer then sees one    *)
(* record, of which every change has a revision of its own.                *)

(* The record p is a later state of b. *)
Since(b, p) ==
  b # None /\ p # None =>
    /\ p.rev >= b.rev
    /\ b.id # None => p.id # None
    /\ b.id = None /\ p.id # None => p.rev > b.rev

(* A writer that read b and has m, as the file holds f: both are later     *)
(* states of b; without a b it has admitted the peer and is done.          *)
Writer(b, m, ph, f, ft) ==
  /\ Since(b, m)
  /\ Since(b, f)
  /\ b = None /\ m # None => ph = "done" /\ m.rev = 1 /\ ft = "admitted"
  /\ ft = "admitted" /\ b # None => m # None /\ f # None

MergeInv ==
  /\ TypeOK
  /\ fate # "both"
  /\ file.peer # None => file.peer.rev >= 1
  /\ Paired(file.peer, vouched)
  /\ \A c \in Clis :
       /\ Writer(base[c].peer, mine[c].peer, phase[c], file.peer, fate)
       /\ Paired(mine[c].peer, vouched)

Optional == Peer \cup {None}

LEMMA SinceGrows ==
  ASSUME NEW b \in Optional, NEW p \in Peer, NEW q, Since(b, p), Grows(p, q)
  PROVE  Since(b, q)
<1>1. p # None
  BY NoneAssumption
<1> QED BY <1>1 DEF Since, Grows, Peer, Optional

LEMMA NonePaired == \A v : Paired(None, v)
BY DEF Paired

(* What becomes of the file's record in a step. *)
FileMoves(f, g, ft) ==
  \/ g = f
  \/ f # None /\ Grows(f, g)
  \/ g = None /\ ft # "admitted"
  \/ f = None /\ ft = "admitted" /\ g \in Peer /\ g.rev >= 1

(* A persist's record moves the file as the whole one would.               *)
LEMMA CutMoves ==
  ASSUME NEW f \in Optional, NEW g \in Optional, NEW h, NEW ft,
         FileMoves(f, g, ft), Cut(g, h)
  PROVE  FileMoves(f, h, ft)
<1>1. CASE g = None
  BY <1>1 DEF Cut
<1>2. CASE g # None
  <2>1. g \in Peer /\ h \in Peer
    BY <1>2 DEF Optional, Cut
  <2>2. CASE g = f
    <3>1. Grows(f, g)
      BY <2>1, <2>2 DEF Grows, Peer
    <3> QED BY <1>2, <2>1, <2>2, <3>1, CutGrows DEF FileMoves
  <2>3. CASE f # None /\ Grows(f, g)
    BY <2>1, <2>3, CutGrows DEF FileMoves
  <2>4. CASE f = None /\ ft = "admitted" /\ g \in Peer /\ g.rev >= 1
    BY <1>2, <2>1, <2>4 DEF FileMoves, Cut
  <2> QED BY <1>2, <2>2, <2>3, <2>4 DEF FileMoves
<1> QED BY <1>1, <1>2

LEMMA WriterSeesMove ==
  ASSUME NEW b \in Optional, NEW m \in Optional, NEW f \in Optional,
         NEW g \in Optional, NEW ph, NEW ft,
         Writer(b, m, ph, f, ft), FileMoves(f, g, ft)
  PROVE  Writer(b, m, ph, g, ft)
<1>1. CASE g = f
  BY <1>1
<1>2. CASE f # None /\ Grows(f, g)
  <2>1. f \in Peer /\ g # None
    BY <1>2, NoneAssumption DEF Optional, Grows
  <2>2. Since(b, g)
    BY <1>2, <2>1, SinceGrows DEF Writer
  <2> QED BY <2>1, <2>2 DEF Writer
<1>3. CASE g = None /\ ft # "admitted"
  BY <1>3 DEF Writer, Since
<1>4. CASE f = None /\ ft = "admitted" /\ g \in Peer /\ g.rev >= 1
  BY <1>4 DEF Writer, Since
<1> QED BY <1>1, <1>2, <1>3, <1>4 DEF FileMoves

(* What becomes of a writer's own record in a step. *)
CopyMoves(m, n, ph, ft) ==
  \/ m # None /\ Grows(m, n)
  \/ n = m
  \/ n = None /\ ft # "admitted"
  \/ m = None /\ n # None /\ n.rev = 1 /\ ft = "admitted" /\ ph = "done"

LEMMA WriterMoves ==
  ASSUME NEW b \in Optional, NEW m \in Optional, NEW n \in Optional,
         NEW f \in Optional, NEW before, NEW after, NEW ft,
         before # "done", Writer(b, m, before, f, ft), CopyMoves(m, n, after, ft)
  PROVE  Writer(b, n, after, f, ft)
<1>1. CASE m # None /\ Grows(m, n)
  <2>1. m \in Peer /\ b # None /\ n # None
    BY <1>1, NoneAssumption DEF Optional, Writer, Grows
  <2>2. Since(b, n)
    BY <1>1, <2>1, SinceGrows DEF Writer
  <2> QED BY <2>1, <2>2 DEF Writer
<1>2. CASE n = m
  BY <1>2 DEF Writer
<1>3. CASE n = None /\ ft # "admitted"
  BY <1>3 DEF Writer, Since
<1>4. CASE m = None /\ n # None /\ n.rev = 1 /\ ft = "admitted" /\ after = "done"
  BY <1>4 DEF Writer, Since
<1> QED BY <1>1, <1>2, <1>3, <1>4 DEF CopyMoves

LEMMA GoneIs == \A f, ft : Writer(None, None, "off", f, ft)
BY DEF Writer, Since

LEMMA RecordsTyped ==
  ASSUME TypeOK
  PROVE  /\ file.peer \in Optional
         /\ \A c \in Clis : base[c].peer \in Optional /\ mine[c].peer \in Optional
BY DEF TypeOK, Directory, Optional

(* A step of the file: every writer stays where it is, or leaves.          *)
FileStep ==
  /\ FileMoves(file.peer, file'.peer, fate)
  /\ fate' = fate
  /\ vouched \subseteq vouched'
  /\ Paired(file.peer, vouched') => Paired(file'.peer, vouched')
  /\ \A c \in Clis :
       \/ base'[c] = base[c] /\ mine'[c] = mine[c] /\ phase'[c] = phase[c]
       \/ base'[c] = Empty /\ mine'[c] = Empty /\ phase'[c] = "off"

LEMMA FileStepKeeps ==
  ASSUME MergeInv, TypeOK', FileStep
  PROVE  MergeInv'
<1>1. Paired(file'.peer, vouched')
  BY PairedStays DEF MergeInv, FileStep
<1>2. file.peer \in Optional /\ file'.peer \in Optional
  BY DEF MergeInv, TypeOK, Directory, Optional
<1>3. file'.peer # None => file'.peer.rev >= 1
  BY <1>2, NoneAssumption DEF MergeInv, FileStep, FileMoves, Grows, Optional, Peer
<1>4. ASSUME NEW c \in Clis
      PROVE  /\ Writer(base'[c].peer, mine'[c].peer, phase'[c], file'.peer, fate')
             /\ Paired(mine'[c].peer, vouched')
  <2>1. base[c].peer \in Optional /\ mine[c].peer \in Optional
    BY RecordsTyped DEF MergeInv
  <2>2. /\ Writer(base[c].peer, mine[c].peer, phase[c], file.peer, fate)
        /\ Paired(mine[c].peer, vouched)
    BY DEF MergeInv
  <2>3. /\ Writer(base[c].peer, mine[c].peer, phase[c], file'.peer, fate)
        /\ Paired(mine[c].peer, vouched')
    BY <1>2, <2>1, <2>2, WriterSeesMove, PairedStays DEF FileStep
  <2>4. CASE base'[c] = base[c] /\ mine'[c] = mine[c] /\ phase'[c] = phase[c]
    BY <2>3, <2>4 DEF FileStep
  <2>5. CASE base'[c] = Empty /\ mine'[c] = Empty /\ phase'[c] = "off"
    BY <2>5, EmptyTyped, NonePaired, GoneIs
  <2> QED BY <2>4, <2>5 DEF FileStep
<1>5. fate' # "both"
  BY DEF MergeInv, FileStep
<1> QED BY <1>1, <1>3, <1>4, <1>5 DEF MergeInv

(* A step of one writer's copy, which ends in the phase ph.                *)
CopyStep(c, d, ph) ==
  /\ phase[c] # "done"
  /\ CopyMoves(mine[c].peer, d.peer, ph, fate)
  /\ mine' = [mine EXCEPT ![c] = d]
  /\ phase' = [phase EXCEPT ![c] = ph]
  /\ UNCHANGED <<file, base, fate>>
  /\ vouched \subseteq vouched'
  /\ Paired(mine[c].peer, vouched') => Paired(d.peer, vouched')

LEMMA CopyStepKeeps ==
  ASSUME MergeInv, TypeOK', NEW c \in Clis, NEW d, NEW ph, CopyStep(c, d, ph)
  PROVE  MergeInv'
<1>1. TypeOK
  BY DEF MergeInv
<1>2. Paired(file'.peer, vouched')
  BY PairedStays DEF MergeInv, CopyStep
<1>3. ASSUME NEW e \in Clis
      PROVE  /\ Writer(base'[e].peer, mine'[e].peer, phase'[e], file'.peer, fate')
             /\ Paired(mine'[e].peer, vouched')
  <2>1. /\ Writer(base[e].peer, mine[e].peer, phase[e], file.peer, fate)
        /\ Paired(mine[e].peer, vouched')
    BY PairedStays DEF MergeInv, CopyStep
  <2>2. CASE e # c
    <3>1. base'[e] = base[e] /\ mine'[e] = mine[e] /\ phase'[e] = phase[e]
      BY <1>1, <2>2 DEF CopyStep, TypeOK
    <3> QED BY <2>1, <3>1 DEF CopyStep
  <2>3. CASE e = c
    <3>1. mine'[e] = d /\ phase'[e] = ph /\ base'[e] = base[e]
      BY <1>1, <2>3 DEF CopyStep, TypeOK
    <3>2. /\ base[e].peer \in Optional /\ mine[e].peer \in Optional
          /\ file.peer \in Optional
      BY <1>1, RecordsTyped
    <3>3. mine'[e].peer \in Optional
      BY DEF TypeOK, Directory, Optional
    <3>4. phase[e] # "done" /\ CopyMoves(mine[e].peer, d.peer, ph, fate)
      BY <2>3 DEF CopyStep
    <3>5. Writer(base[e].peer, d.peer, ph, file.peer, fate)
      BY <2>1, <3>1, <3>2, <3>3, <3>4, WriterMoves
    <3> QED BY <2>1, <2>3, <3>1, <3>5 DEF CopyStep
  <2> QED BY <2>2, <2>3
<1>4. fate' # "both" /\ (file'.peer # None => file'.peer.rev >= 1)
  BY DEF MergeInv, CopyStep
<1> QED BY <1>2, <1>3, <1>4 DEF MergeInv

(* An admission where the peer may not be forgotten.                       *)
LEMMA AdmitMoves ==
  ASSUME NEW d \in Directory, NEW ft, ft # "both", NEW v, NEW ph,
         ft # "forgotten" \/ d.peer # None,
         NEW i \in Ids \cup {None}, NEW s \in Seals \cup {None}, NEW prof \in Profiles
  PROVE  LET e == Admit(d, i, s, prof) IN
         /\ \/ d.peer # None /\ Grows(d.peer, e.peer)
            \/ /\ d.peer = None /\ ft # "forgotten"
               /\ e.peer \in Peer /\ e.peer # None /\ e.peer.rev = 1
         /\ Paired(d.peer, v) => Paired(e.peer, v)
<1>1. CASE d.peer # None
  <2>1. Kept(d, Admit(d, i, s, prof), v)
    BY <1>1, AdmitKeeps DEF Held
  <2> QED BY <1>1, <2>1 DEF Kept
<1>2. CASE d.peer = None
  <2>1. Held(Admit(d, i, s, prof)) /\ Admit(d, i, s, prof).peer.rev = 1
        /\ ~Admit(d, i, s, prof).peer.seen
    BY <1>2, AdmitTyped
  <2>2. Admit(d, i, s, prof).peer \in Peer /\ Admit(d, i, s, prof).peer # None
    BY <2>1, HeldPeer DEF Held
  <2> QED BY <1>2, <2>1, <2>2 DEF Paired
<1> QED BY <1>1, <1>2

LEMMA PersistMoves ==
  ASSUME NEW disk \in Optional, NEW own \in Optional, NEW was \in Optional,
         NEW ph, NEW ft, NEW v, Writer(was, own, ph, disk, ft),
         disk # None => disk.rev >= 1, Paired(disk, v), Paired(own, v)
  PROVE  /\ FileMoves(disk, MergedPeer(disk, own, was), ft)
         /\ Paired(MergedPeer(disk, own, was), v)
<1> DEFINE m == MergedPeer(disk, own, was)
<1>1. CASE own = None /\ was = None
  <2>1. m = disk
    BY <1>1 DEF MergedPeer
  <2> QED BY <2>1 DEF FileMoves
<1>2. CASE own = None /\ was # None
  <2>1. m = None
    BY <1>2 DEF MergedPeer
  <2>2. ft # "admitted"
    BY <1>2 DEF Writer
  <2> QED BY <2>1, <2>2, NonePaired DEF FileMoves
<1>3. CASE own # None /\ disk = None /\ was = None
  <2>1. m = own
    BY <1>3 DEF MergedPeer
  <2>2. ft = "admitted" /\ own \in Peer /\ own.rev >= 1
    BY <1>3 DEF Writer, Optional
  <2> QED BY <1>3, <2>1, <2>2 DEF FileMoves
<1>4. CASE own # None /\ disk = None /\ was # None
  <2>1. m = disk
    BY <1>4 DEF MergedPeer
  <2> QED BY <2>1 DEF FileMoves
<1>5. CASE own # None /\ disk # None /\ was = None
  <2>1. m = MergeRecord(disk, own, None)
    BY <1>5 DEF MergedPeer
  <2>2. disk \in Peer /\ own \in Peer /\ own.rev = 1 /\ disk.rev >= 1
    BY <1>5 DEF Writer, Optional
  <2>3. Grows(disk, m) /\ (Paired(disk, v) => Paired(m, v))
    BY <2>1, <2>2, MergeOfNewcomer
  <2> QED BY <1>5, <2>3 DEF FileMoves
<1>6. CASE own # None /\ disk # None /\ was # None
  <2>1. m = MergeRecord(disk, own, was)
    BY <1>6 DEF MergedPeer
  <2>2. disk \in Peer /\ own \in Peer /\ was \in Peer
    BY <1>6 DEF Optional
  <2>3. Rivals(disk, own, was)
    BY <1>6, <2>2 DEF Rivals, Writer, Since
  <2>4. Grows(disk, m) /\ Paired(m, v)
    BY <2>1, <2>3, MergeRecordKeeps
  <2> QED BY <1>6, <2>4 DEF FileMoves
<1> QED BY <1>1, <1>2, <1>3, <1>4, <1>5, <1>6

(* The file's record changes, and no writer does.                          *)
LEMMA AppliedStep ==
  ASSUME NEW d, Apply(d), FileMoves(file.peer, d.peer, fate),
         vouched \subseteq vouched',
         Paired(file.peer, vouched') => Paired(d.peer, vouched')
  PROVE  FileStep
BY DEF Apply, Change, FileStep

LEMMA AppliedKeptStep ==
  ASSUME NEW d, Apply(d), file.peer # None, Kept(file, d, vouched'),
         vouched \subseteq vouched'
  PROVE  FileStep
BY AppliedStep DEF Kept, FileMoves

(* The same for a writer that goes on with what an operation has kept.     *)
LEMMA CommandStep ==
  ASSUME MergeInv, TypeOK', NEW c \in Clis, NEW d, Command(c, d),
         CopyMoves(mine[c].peer, d.peer, "done", fate), vouched \subseteq vouched',
         Paired(mine[c].peer, vouched') => Paired(d.peer, vouched')
  PROVE  MergeInv'
<1>1. CopyStep(c, d, "done")
  BY DEF Command, Change, CopyStep
<1> QED BY <1>1, CopyStepKeeps

LEMMA WalkStep ==
  ASSUME MergeInv, TypeOK', NEW c \in Clis, NEW d, NEW before, NEW after,
         Walking(c, before, after, d), "done" \notin before,
         Kept(mine[c], d, vouched'), vouched \subseteq vouched'
  PROVE  MergeInv'
<1>1. CopyStep(c, d, after)
  BY DEF Walking, Change, CopyStep, CopyMoves, Kept
<1> QED BY <1>1, CopyStepKeeps

LEMMA MergeStep ==
  ASSUME MergeInv, [Next]_vars
  PROVE  MergeInv'
<1>0. TypeOK /\ TypeOK'
  BY TypeStep DEF MergeInv
<1> USE <1>0, HeldByWriter, HeldByFile
<1>1. ASSUME NEW c \in Clis, Start(c) PROVE MergeInv'
  <2>1. ASSUME NEW e \in Clis
        PROVE  /\ Writer(base'[e].peer, mine'[e].peer, phase'[e], file'.peer, fate')
               /\ Paired(mine'[e].peer, vouched')
    <3>1. CASE e # c
      BY <1>1, <3>1 DEF Start, MergeInv, TypeOK, history
    <3>2. CASE e = c
      <4>1. base'[e] = file /\ mine'[e] = file /\ phase'[e] = "ready"
        BY <1>1, <3>2 DEF Start, TypeOK
      <4>2. UNCHANGED <<file, fate, vouched>>
        BY <1>1 DEF Start, history
      <4>3. file.peer \in Optional
        BY RecordsTyped
      <4>4. Since(file.peer, file.peer)
        BY <4>3 DEF Since, Optional, Peer
      <4> QED BY <4>1, <4>2, <4>4 DEF MergeInv, Writer
    <3> QED BY <3>1, <3>2
  <2> QED BY <1>1, <2>1 DEF Start, MergeInv, history
<1>2. ASSUME NEW c \in Clis, Leave(c), vouched' = vouched, fate' = fate,
             FileMoves(file.peer, file'.peer, fate),
             Paired(file'.peer, vouched)
      PROVE  MergeInv'
  <2>1. ASSUME NEW e \in Clis
        PROVE  \/ base'[e] = base[e] /\ mine'[e] = mine[e] /\ phase'[e] = phase[e]
               \/ base'[e] = Empty /\ mine'[e] = Empty /\ phase'[e] = "off"
    BY <1>2 DEF Leave, TypeOK
  <2>2. FileStep
    BY <1>2, <2>1 DEF FileStep
  <2> QED BY <2>2, FileStepKeeps
<1>3. ASSUME NEW c \in Clis, Persist(c) PROVE MergeInv'
  <2> DEFINE disk == file.peer
             own  == mine[c].peer
             was  == base[c].peer
             new  == MergedPeer(disk, own, was)
  <2>1. /\ disk \in Optional /\ own \in Optional /\ was \in Optional
        /\ Writer(was, own, phase[c], disk, fate)
        /\ disk # None => disk.rev >= 1
        /\ Paired(disk, vouched) /\ Paired(own, vouched)
    BY RecordsTyped DEF MergeInv
  <2>2. Cut(new, file'.peer) /\ new \in Optional
    BY <1>3, PersistedTyped DEF Optional
  <2>3. FileMoves(disk, file'.peer, fate) /\ Paired(file'.peer, vouched)
    <3>1. FileMoves(disk, new, fate) /\ Paired(new, vouched)
      BY <2>1, PersistMoves
    <3> HIDE DEF disk, new
    <3> QED BY <2>1, <2>2, <3>1, CutMoves, CutPaired
  <2> HIDE DEF disk, own, was, new
  <2>4. Leave(c) /\ vouched' = vouched /\ fate' = fate
    BY <1>3 DEF Persist, Leave
  <2> QED BY <1>2, <2>3, <2>4 DEF disk
<1>4. ASSUME NEW c \in Clis, Quit(c) PROVE MergeInv'
  <2>1. /\ Leave(c) /\ vouched' = vouched /\ fate' = fate /\ file' = file
        /\ Paired(file.peer, vouched)
    BY <1>4 DEF Quit, Leave, MergeInv
  <2> QED BY <1>2, <2>1 DEF FileMoves
<1>5. fate # "both" /\ fate \in {"admitted", "forgotten", "both"}
  BY ConstantsAssumption DEF MergeInv, TypeOK
<1>6. ASSUME NEW c \in Clis, CliAdd(c) PROVE MergeInv'
  <2>1. PICK i \in Ids \cup {None}, prof \in Profiles :
          Command(c, Admit(mine[c], i, None, prof))
    BY <1>6 DEF CliAdd
  <2>2. fate # "forgotten" \/ mine[c].peer # None
    BY <1>6 DEF CliAdd, Admissions
  <2> DEFINE d == mine[c]
             e == Admit(d, i, None, prof)
  <2>3. /\ \/ d.peer # None /\ Grows(d.peer, e.peer)
           \/ d.peer = None /\ fate # "forgotten" /\ e.peer # None /\ e.peer.rev = 1
        /\ Paired(d.peer, vouched') => Paired(e.peer, vouched')
    <3>1. d \in Directory /\ None \in Seals \cup {None}
      OBVIOUS
    <3> QED BY <1>5, <2>2, <3>1, AdmitMoves
  <2> HIDE DEF e
  <2>4. CopyMoves(d.peer, e.peer, "done", fate)
    BY <1>5, <2>3 DEF CopyMoves
  <2>5. Command(c, e) /\ vouched' = vouched
    BY <1>6, <2>1 DEF CliAdd, e
  <2> QED BY <2>3, <2>4, <2>5, CommandStep
<1>7. ASSUME NEW c \in Clis, CliForget(c) PROVE MergeInv'
  <2>1. Forget(mine[c]).peer = None
    BY <1>7, ForgetTyped DEF CliForget
  <2>2. fate # "admitted" /\ Command(c, Forget(mine[c])) /\ vouched' = vouched
    BY <1>7 DEF CliForget, Forgets
  <2> QED BY <2>1, <2>2, NonePaired, CommandStep DEF CopyMoves
<1>8. ASSUME NEW c \in Clis, CliRotate(c) PROVE MergeInv'
  <2>1. PICK i \in Ids : Command(c, Rotate(mine[c], i))
    BY <1>8 DEF CliRotate
  <2>2. mine[c].peer # None /\ Kept(mine[c], Rotate(mine[c], i), vouched')
    BY <1>8, RotateKeeps DEF CliRotate
  <2> QED BY <1>8, <2>1, <2>2, CommandStep DEF CliRotate, CopyMoves, Kept
<1>9. ASSUME NEW c \in Clis, CliAccept(c) PROVE MergeInv'
  <2> DEFINE p == mine[c].peer
  <2>1. PICK s \in Seals \cup {None} :
          Command(c, AcceptSeal(mine[c], s)) /\ Vouch(p.id, Chosen(p, s))
    BY <1>9 DEF CliAccept
  <2>2. Held(mine[c]) /\ p \in Peer /\ p # None
    BY <1>9, HeldPeer DEF CliAccept
  <2>3. p.id \in Ids \cup {None} /\ Chosen(p, s) \in Seals \cup {None}
    BY <2>2, ChosenIs DEF Peer
  <2>4. vouched \subseteq vouched' /\ Vouched(p, Chosen(p, s), vouched')
    BY <2>1, <2>3, VouchIs DEF Vouched
  <2>5. Kept(mine[c], AcceptSeal(mine[c], s), vouched')
    BY <2>2, <2>4, AcceptSealKeeps
  <2> QED BY <2>1, <2>2, <2>4, <2>5, CommandStep DEF CopyMoves, Kept
<1>10. ASSUME NEW c \in Clis, CliBlock(c) PROVE MergeInv'
  <2>1. PICK d : Command(c, d) /\ d.peer = mine[c].peer
    BY <1>10, BlocksBeside DEF CliBlock
  <2> QED BY <1>10, <2>1, CommandStep DEF CliBlock, CopyMoves
<1>11. ASSUME NEW c \in Clis, Answer(c) PROVE MergeInv'
  <2>1. PICK d : /\ Walking(c, {"ready", "walking"}, "answered", d)
                 /\ Kept(mine[c], d, vouched')
    BY <1>11, AnswerIs
  <2>2. vouched \subseteq vouched'
    BY <1>11, AnswerIs
  <2>3. "done" \notin {"ready", "walking"}
    OBVIOUS
  <2> QED BY <2>1, <2>2, <2>3, WalkStep
<1>12. ASSUME NEW c \in Clis, Mention(c) PROVE MergeInv'
  <2>1. PICK i \in Ids \cup {None} :
          \/ Walking(c, {"ready", "walking"}, "walking", Hear(mine[c], i))
          \/ Walking(c, {"answered"}, "answered", Hear(mine[c], i))
    BY <1>12 DEF Mention
  <2>2. Kept(mine[c], Hear(mine[c], i), vouched') /\ vouched \subseteq vouched'
    BY <1>12, <2>1, HearKeeps DEF Mention, Walking
  <2>3. "done" \notin {"ready", "walking"} /\ "done" \notin {"answered"}
    OBVIOUS
  <2>4. CASE Walking(c, {"ready", "walking"}, "walking", Hear(mine[c], i))
    BY <2>2, <2>3, <2>4, WalkStep
  <2>5. CASE Walking(c, {"answered"}, "answered", Hear(mine[c], i))
    BY <2>2, <2>3, <2>5, WalkStep
  <2> QED BY <2>1, <2>4, <2>5
<1>13. CASE PageAdmit
  <2>1. PICK i \in Ids \cup {None}, s \in Seals \cup {None}, prof \in Profiles :
          Apply(Admit(file, i, s, prof))
    BY <1>13 DEF PageAdmit
  <2>2. fate # "forgotten" \/ file.peer # None
    BY <1>13 DEF PageAdmit, Admissions
  <2> DEFINE e == Admit(file, i, s, prof)
  <2>3. /\ \/ file.peer # None /\ Grows(file.peer, e.peer)
           \/ file.peer = None /\ fate # "forgotten" /\ e.peer \in Peer /\ e.peer.rev = 1
        /\ Paired(file.peer, vouched') => Paired(e.peer, vouched')
    BY <1>5, <2>2, AdmitMoves
  <2> HIDE DEF e
  <2>4. FileMoves(file.peer, e.peer, fate)
    BY <1>5, <2>3 DEF FileMoves
  <2>5. Apply(e) /\ vouched' = vouched
    BY <1>13, <2>1 DEF PageAdmit, e
  <2>6. FileStep
    BY <2>3, <2>4, <2>5, AppliedStep
  <2> QED BY <2>6, FileStepKeeps
<1>14. CASE PageForget
  <2>1. /\ Forget(file).peer = None /\ fate # "admitted" /\ Apply(Forget(file))
        /\ vouched' = vouched
    BY <1>14, ForgetTyped DEF PageForget, Forgets
  <2>2. FileStep
    BY <2>1, NonePaired, AppliedStep DEF FileMoves
  <2> QED BY <2>2, FileStepKeeps
<1>15. CASE PageAccept
  <2> DEFINE p == file.peer
  <2>1. PICK s \in Seals \cup {None} :
          Apply(AcceptSeal(file, s)) /\ Vouch(p.id, Chosen(p, s))
    BY <1>15 DEF PageAccept
  <2>2. Held(file) /\ p \in Peer /\ p # None
    BY <1>15, HeldPeer DEF PageAccept
  <2>3. p.id \in Ids \cup {None} /\ Chosen(p, s) \in Seals \cup {None}
    BY <2>2, ChosenIs DEF Peer
  <2>4. vouched \subseteq vouched' /\ Vouched(p, Chosen(p, s), vouched')
    BY <2>1, <2>3, VouchIs DEF Vouched
  <2>5. FileStep
    BY <2>1, <2>2, <2>4, AcceptSealKeeps, AppliedKeptStep
  <2> QED BY <2>5, FileStepKeeps
<1>16. CASE PageBlock
  <2>1. PICK d : Apply(d) /\ d.peer = file.peer
    BY <1>16, BlocksBeside DEF PageBlock
  <2>2. FileStep
    BY <1>16, <2>1, AppliedStep DEF PageBlock, FileMoves
  <2> QED BY <2>2, FileStepKeeps
<1>17. CASE CallerProvesKey
  <2>1. FileStep
    BY <1>17, BindKeyKeeps, AppliedKeptStep DEF CallerProvesKey
  <2> QED BY <2>1, FileStepKeeps
<1>18. CASE CallerBinds
  <2>1. FileStep
    BY <1>18, NoteBindingKeeps, AppliedKeptStep DEF CallerBinds
  <2> QED BY <2>1, FileStepKeeps
<1>19. CASE Reload \/ UNCHANGED vars
  BY <1>19 DEF Reload, vars, history, MergeInv
<1> QED
  BY <1>1, <1>3, <1>4, <1>6, <1>7, <1>8, <1>9, <1>10, <1>11, <1>12, <1>13, <1>14,
     <1>15, <1>16, <1>17, <1>18, <1>19 DEF Next

LEMMA MergeInit ==
  ASSUME "both" \notin Fates, Init
  PROVE  MergeInv
<1>1. TypeOK
  BY InitTyped
<1>2. (file.peer # None => file.peer.rev >= 1) /\ Paired(file.peer, vouched)
  <2>1. CASE file = Empty
    BY <2>1, EmptyTyped, NonePaired
  <2>2. ASSUME NEW i \in Ids \cup {None}, NEW prof \in Profiles,
               file = [Empty EXCEPT !.peer = Newcomer(i, None, prof)]
        PROVE  file.peer.rev >= 1 /\ Paired(file.peer, vouched)
    <3>1. file.peer = Newcomer(i, None, prof)
      BY <2>2 DEF Empty
    <3>2. file.peer.rev = 1 /\ ~file.peer.seen
      BY <3>1, NewcomerIs
    <3> QED BY <3>2 DEF Paired
  <2>3. ASSUME NEW i \in Ids, NEW prof \in Profiles, NEW s \in Seals, NEW t \in Seals,
               file = [Empty EXCEPT !.peer = Walked(Walked(Newcomer(i, None, prof), s), t)],
               vouched = {i} \X {s, t}
        PROVE  file.peer.rev >= 1 /\ Paired(file.peer, vouched)
    <3> DEFINE p == Newcomer(i, None, prof)
    <3>1. p \in Peer /\ p.rev >= 1 /\ Paired(p, vouched) /\ p.id = i
      <4>1. p \in Peer /\ p.rev = 1 /\ ~p.seen
        BY NewcomerIs
      <4>2. p.id = i
        BY DEF Newcomer
      <4> HIDE DEF p
      <4> QED BY <4>1, <4>2 DEF Paired
    <3>2. file = [Empty EXCEPT !.peer = Walked(Walked(p, s), t)]
      BY <2>3
    <3> HIDE DEF p
    <3>3. <<i, s>> \in vouched /\ <<i, t>> \in vouched
      BY <2>3
    <3>4. LET w == Walked(p, s) IN
          w \in Peer /\ w.id = i /\ w.rev >= 1 /\ Paired(w, vouched)
      BY <3>1, <3>3, WalkedIs
    <3>5. LET w == Walked(Walked(p, s), t) IN w.rev >= 1 /\ Paired(w, vouched)
      BY <3>3, <3>4, WalkedIs
    <3>6. file.peer = Walked(Walked(p, s), t)
      BY <3>2 DEF Empty
    <3> QED BY <3>5, <3>6
  <2> QED BY <2>1, <2>2, <2>3 DEF Init
<1>3. ASSUME NEW c \in Clis
      PROVE  /\ Writer(base[c].peer, mine[c].peer, phase[c], file.peer, fate)
             /\ Paired(mine[c].peer, vouched)
  <2>1. base[c].peer = None /\ mine[c].peer = None /\ phase[c] = "off"
    BY EmptyTyped DEF Init
  <2> QED BY <2>1, GoneIs, NonePaired
<1>4. fate # "both"
  BY DEF Init
<1> QED BY <1>1, <1>2, <1>3, <1>4 DEF MergeInv

(* A sealing key that a message may be sealed to was verified against, or  *)
(* accepted for, the identity its record now holds, whatever three-way     *)
(* merges of however many stale writers made it (directory.js 586-649,     *)
(* 1233-1263, 1312-1325), as long as the peer is not both forgotten and    *)
(* admitted anew while a writer runs.                                      *)
THEOREM SealsBelongToIdentities ==
  ASSUME "both" \notin Fates
  PROVE  Spec => []SealBelongsToIdentity
<1>1. Init => MergeInv
  BY MergeInit
<1>2. MergeInv /\ [Next]_vars => MergeInv'
  BY MergeStep
<1>3. MergeInv => SealBelongsToIdentity
  BY CoherentIsPaired, RecordsTyped DEF MergeInv, SealBelongsToIdentity, Optional
<1> QED BY <1>1, <1>2, <1>3, PTL DEF Spec

-----------------------------------------------------------------------------
(* Changes are swapped.  What a writer read and what it meets differ only  *)
(* where the revision tells, as long as no other process has merged since. *)

(* What an operation makes of a record: the same, or one of a revision     *)
(* that it did not have.                                                   *)
Advances(p, q) == q = p \/ q.rev > p.rev

(* commit() of a record that has the revision of the one it replaces.      *)
LEMMA CommitAdvances ==
  ASSUME NEW d, Held(d), NEW q \in Peer, q.rev = d.peer.rev
  PROVE  Commit(d, q).peer.rev > d.peer.rev
<1>1. d \in Directory /\ d.peer \in Peer
  BY HeldPeer DEF Held
<1> DEFINE r == [q EXCEPT !.rev = @ + 1]
<1>2. r.rev = q.rev + 1
  BY DEF Peer
<1>3. Commit(d, q) = [d EXCEPT !.peer = r]
  BY DEF Commit
<1> HIDE DEF r
<1>4. Commit(d, q).peer = r
  BY <1>1, <1>3 DEF Directory
<1>5. d.peer.rev \in Nat
  BY <1>1 DEF Peer
<1> QED BY <1>2, <1>4, <1>5

(* A peer that is admitted again keeps what it is known by.                *)
LEMMA AdmitAdvances ==
  ASSUME NEW d, Held(d), NEW i \in Ids \cup {None}, NEW s, NEW prof \in Profiles
  PROVE  Advances(d.peer, Admit(d, i, s, prof).peer)
<1> DEFINE p == d.peer
           q == [p EXCEPT !.id = IF @ = None THEN i ELSE @, !.profile = prof]
<1>1. q \in Peer /\ q.rev = p.rev
  BY HeldPeer DEF Peer
<1>2. Admit(d, i, s, prof) = Commit(d, q)
  BY DEF Admit, Held
<1> HIDE DEF q
<1> QED BY <1>1, <1>2, CommitAdvances DEF Advances

(* A rotation. *)
LEMMA RotateAdvances ==
  ASSUME NEW d, Held(d), NEW i \in Ids
  PROVE  Advances(d.peer, Rotate(d, i).peer)
<1> DEFINE p == d.peer
           e == [d EXCEPT !.retired = @ \cup Keyed(p)]
           q == [p EXCEPT !.id = i, !.seal = None, !.seen = FALSE, !.conf = None,
                          !.rivals = {}]
<1>1. p \in Peer /\ d \in Directory
  BY HeldPeer DEF Held
<1>2. q \in Peer /\ q.rev = p.rev
  BY <1>1 DEF Peer
<1>3. e.peer = p /\ e \in Directory
  BY <1>1 DEF Directory, Keyed, Peer
<1>4. Held(e)
  BY <1>3 DEF Held
<1>5. Rotate(d, i) = Commit(e, q)
  BY DEF Rotate
<1> HIDE DEF e, q
<1> QED BY <1>2, <1>3, <1>4, <1>5, CommitAdvances DEF Advances

(* A record made anew from what its peer says of itself.                   *)
LEMMA RemadeAdvances ==
  ASSUME NEW d, Held(d), NEW i \in Ids \cup {None}
  PROVE  Remade(d, i).peer.rev > d.peer.rev
<1> DEFINE p == d.peer
           q == KeepOurs(Newcomer(i, p.seal, None), p)
<1>1. p \in Peer
  BY HeldPeer
<1>2. q = [p EXCEPT !.id = i, !.seal = p.seal]
  BY DEF KeepOurs, Newcomer
<1>3. q \in Peer /\ q.rev = p.rev
  BY <1>1, <1>2 DEF Peer
<1>4. Remade(d, i) = Commit(d, q)
  BY DEF Remade
<1> HIDE DEF q
<1> QED BY <1>3, <1>4, CommitAdvances

(* What is heard of the peer from another.                                 *)
LEMMA HearAdvances ==
  ASSUME NEW d, Held(d), NEW i \in Ids \cup {None}
  PROVE  Advances(d.peer, Hear(d, i).peer)
<1>1. d.peer.id \in Ids \cup {None}
  BY HeldPeer DEF Peer
<1> QED BY <1>1, RemadeAdvances DEF Hear, Advances

(* A first verified hail of a caller, and a target it has named.           *)
LEMMA BindKeyAdvances ==
  ASSUME NEW d, Held(d), NEW i \in Ids
  PROVE  Advances(d.peer, BindKey(d, i).peer)
BY RemadeAdvances DEF BindKey, Advances

LEMMA NoteBindingAdvances ==
  ASSUME NEW d, Held(d)
  PROVE  Advances(d.peer, NoteBinding(d).peer)
<1> DEFINE q == [d.peer EXCEPT !.binds = TRUE]
<1>1. q \in Peer /\ q.rev = d.peer.rev
  BY HeldPeer DEF Peer
<1>2. NoteBinding(d) = d \/ NoteBinding(d) = Commit(d, q)
  BY DEF NoteBinding
<1> HIDE DEF q
<1> QED BY <1>1, <1>2, CommitAdvances DEF Advances

(* A sealing key that was accepted by hand.                                *)
LEMMA AcceptSealAdvances ==
  ASSUME NEW d, Held(d), NEW s \in Seals \cup {None}
  PROVE  Advances(d.peer, AcceptSeal(d, s).peer)
<1> DEFINE k == Chosen(d.peer, s)
           q == [d.peer EXCEPT !.seal = k, !.seen = TRUE, !.conf = None, !.req = TRUE]
<1>1. d.peer \in Peer
  BY HeldPeer
<1>2. k \in Seals \cup {None}
  BY <1>1, ChosenIs
<1>3. AcceptSeal(d, s) = d \/ AcceptSeal(d, s) = Commit(d, q)
  BY DEF AcceptSeal
<1> HIDE DEF k
<1>4. q \in Peer /\ q.rev = d.peer.rev
  BY <1>1, <1>2 DEF Peer
<1> HIDE DEF q
<1> QED BY <1>3, <1>4, CommitAdvances DEF Advances

(* A walk's answer always has a revision of its own: the record is made    *)
(* anew, or a rival is noted.                                              *)
LEMMA AnsweredAdvances ==
  ASSUME NEW d, Held(d), NEW i \in Ids, NEW s \in Seals \cup {None},
         NEW named \in BOOLEAN
  PROVE  Answered(d, i, s, named).peer.rev > d.peer.rev
<1> DEFINE a == Reachable(d)
           b == BindKey(a, i)
           n == IF named THEN NoteBinding(b) ELSE b
           v == {i} \X Seals
<1>1. d.peer.id \in Ids \cup {None} /\ d.peer.rev \in Nat
  BY HeldPeer DEF Peer
<1>2. Kept(d, a, v) /\ a.peer.rev > d.peer.rev
  BY <1>1, RemadeKeeps, RemadeAdvances DEF Reachable
<1> HIDE DEF a
<1>3. Held(a)
  BY <1>2 DEF Kept
<1>4. Kept(a, b, v) /\ Held(b)
  <2>1. Kept(a, b, v)
    BY <1>3, BindKeyKeeps
  <2> QED BY <2>1 DEF Kept
<1> HIDE DEF b
<1>5. Kept(a, n, v) /\ Held(n)
  <2>1. Kept(b, n, v)
    BY <1>4, NoteBindingKeeps, SameKept
  <2>2. Kept(a, n, v)
    BY <1>3, <1>4, <2>1, KeptChains
  <2> QED BY <2>2 DEF Kept
<1> HIDE DEF n
<1>6. ASSUME NEW e, Kept(a, e, v)
      PROVE  e.peer.rev > d.peer.rev
  <2>1. a.peer \in Peer /\ e.peer \in Peer /\ e.peer.rev >= a.peer.rev
    BY <1>3, <1>6, HeldPeer DEF Kept, Grows
  <2>2. a.peer.rev \in Nat /\ e.peer.rev \in Nat
    BY <2>1 DEF Peer
  <2> QED BY <1>1, <1>2, <2>1, <2>2
<1>7. CASE Keyed(d.peer) \subseteq {i} /\ s = None
  <2>1. Answered(d, i, s, named) = n
    BY <1>7 DEF Answered, n, b, a
  <2> QED BY <1>5, <1>6, <2>1
<1>8. CASE Keyed(d.peer) \subseteq {i} /\ s # None
  <2>1. Answered(d, i, s, named) = BindSeal(n, s, i)
    BY <1>8 DEF Answered, n, b, a
  <2>2. s \in Seals /\ <<i, s>> \in v
    BY <1>8
  <2>3. Kept(n, BindSeal(n, s, i), v)
    BY <1>5, <2>2, BindSealKeeps
  <2>4. Kept(a, BindSeal(n, s, i), v)
    BY <1>3, <1>5, <2>3, KeptChains
  <2> QED BY <1>6, <2>1, <2>4
<1>9. CASE ~(Keyed(d.peer) \subseteq {i})
  <2> DEFINE q == [d.peer EXCEPT !.rivals = @ \cup {i}]
  <2>1. q \in Peer /\ q.rev = d.peer.rev
    BY HeldPeer DEF Peer
  <2>2. Answered(d, i, s, named) = Commit(d, q)
    BY <1>9 DEF Answered, NoteKeyConflict
  <2> HIDE DEF q
  <2> QED BY <2>1, <2>2, CommitAdvances
<1> QED BY <1>7, <1>8, <1>9

(* The one record is the other where their revisions are the same.         *)
Same(b, p) == b # None /\ p # None /\ p.rev = b.rev => p = b

(* A writer's copy, and the file while no other process has merged, differ *)
(* from what the writer read only if their revision does.                  *)
SwapInv ==
  /\ MergeInv
  /\ \A c \in Clis :
       /\ phase[c] = "off" => base[c].peer = None
       /\ Same(base[c].peer, mine[c].peer)
       /\ c \notin overtaken => Same(base[c].peer, file.peer)

LEMMA SameAdvances ==
  ASSUME NEW b \in Optional, NEW p \in Peer, NEW q \in Optional,
         Since(b, p), Same(b, p), Advances(p, q)
  PROVE  Same(b, q)
<1>1. p # None
  BY NoneAssumption
<1> QED BY <1>1 DEF Same, Since, Advances, Optional, Peer

(* The daemon changes the file: it forgets the peer, admits one that       *)
(* nobody has read, or changes it.                                         *)
LEMMA AppliedSwap ==
  ASSUME SwapInv, MergeInv', NEW d, Apply(d),
         \/ d.peer = None
         \/ file.peer = None /\ fate = "admitted"
         \/ file.peer # None /\ Advances(file.peer, d.peer)
  PROVE  SwapInv'
<1>1. /\ base' = base /\ mine' = mine /\ phase' = phase /\ overtaken' = overtaken
      /\ file'.peer = d.peer
  BY DEF Apply, Change
<1>2. /\ file.peer \in Optional /\ file'.peer \in Optional
      /\ \A c \in Clis : base[c].peer \in Optional
  BY DEF MergeInv, SwapInv, TypeOK, Directory, Optional
<1>3. ASSUME NEW c \in Clis, Same(base[c].peer, file.peer)
      PROVE  Same(base[c].peer, file'.peer)
  <2>1. Writer(base[c].peer, mine[c].peer, phase[c], file.peer, fate)
    BY DEF SwapInv, MergeInv
  <2>2. CASE d.peer = None
    BY <1>1, <2>2 DEF Same
  <2>3. CASE file.peer = None /\ fate = "admitted"
    BY <2>1, <2>3 DEF Writer, Same
  <2>4. CASE file.peer # None /\ Advances(file.peer, d.peer)
    <3>1. file.peer \in Peer /\ Since(base[c].peer, file.peer)
      BY <1>2, <2>1, <2>4 DEF Optional, Writer
    <3> QED BY <1>1, <1>2, <1>3, <2>4, <3>1, SameAdvances
  <2> QED BY <2>2, <2>3, <2>4
<1> QED BY <1>1, <1>3 DEF SwapInv

(* A writer changes its copy: it forgets the peer, admits one that it did  *)
(* not read, or changes it.                                                *)
LEMMA CopySwap ==
  ASSUME SwapInv, MergeInv', NEW c \in Clis, NEW d, NEW ph, ph # "off",
         mine' = [mine EXCEPT ![c] = d], phase' = [phase EXCEPT ![c] = ph],
         UNCHANGED <<file, base, overtaken>>,
         \/ d.peer = None
         \/ mine[c].peer = None /\ fate = "admitted"
         \/ mine[c].peer # None /\ Advances(mine[c].peer, d.peer)
  PROVE  SwapInv'
<1>1. TypeOK /\ TypeOK'
  BY DEF SwapInv, MergeInv
<1>2. ASSUME NEW e \in Clis
      PROVE  /\ phase'[e] = "off" => base'[e].peer = None
             /\ Same(base'[e].peer, mine'[e].peer)
  <2>1. CASE e # c
    <3>1. base'[e] = base[e] /\ mine'[e] = mine[e] /\ phase'[e] = phase[e]
      BY <1>1, <2>1 DEF TypeOK
    <3> QED BY <3>1 DEF SwapInv
  <2>2. CASE e = c
    <3>1. mine'[e] = d /\ phase'[e] = ph /\ base'[e] = base[e]
      BY <1>1, <2>2 DEF TypeOK
    <3>2. /\ Writer(base[e].peer, mine[e].peer, phase[e], file.peer, fate)
          /\ Same(base[e].peer, mine[e].peer)
      BY DEF SwapInv, MergeInv
    <3>3. CASE d.peer = None
      BY <3>1, <3>3 DEF Same
    <3>4. CASE mine[c].peer = None /\ fate = "admitted"
      BY <2>2, <3>1, <3>2, <3>4 DEF Writer, Same
    <3>5. CASE mine[c].peer # None /\ Advances(mine[c].peer, d.peer)
      <4>1. /\ mine[e].peer \in Peer /\ base[e].peer \in Optional
            /\ mine'[e].peer \in Optional
        BY <1>1, <2>2, <3>5 DEF TypeOK, Directory, Optional
      <4>2. Since(base[e].peer, mine[e].peer)
        BY <3>2 DEF Writer
      <4>3. Same(base[e].peer, d.peer)
        BY <2>2, <3>1, <3>2, <3>5, <4>1, <4>2, SameAdvances
      <4> QED BY <3>1, <4>3
    <3> QED BY <3>1, <3>3, <3>4, <3>5
  <2> QED BY <2>1, <2>2
<1>3. \A e \in Clis : e \notin overtaken' => Same(base'[e].peer, file'.peer)
  BY DEF SwapInv
<1> QED BY <1>2, <1>3 DEF SwapInv

LEMMA CommandSwap ==
  ASSUME SwapInv, MergeInv', NEW c \in Clis, NEW d, Command(c, d),
         \/ d.peer = None
         \/ mine[c].peer = None /\ fate = "admitted"
         \/ mine[c].peer # None /\ Advances(mine[c].peer, d.peer)
  PROVE  SwapInv'
<1>1. /\ mine' = [mine EXCEPT ![c] = d] /\ phase' = [phase EXCEPT ![c] = "done"]
      /\ UNCHANGED <<file, base, overtaken>>
  BY DEF Command, Change
<1> QED BY <1>1, CopySwap

LEMMA WalkSwap ==
  ASSUME SwapInv, MergeInv', NEW c \in Clis, NEW d, NEW before, NEW after,
         Walking(c, before, after, d), after # "off",
         Advances(mine[c].peer, d.peer)
  PROVE  SwapInv'
<1>1. /\ mine' = [mine EXCEPT ![c] = d] /\ phase' = [phase EXCEPT ![c] = after]
      /\ UNCHANGED <<file, base, overtaken>> /\ mine[c].peer # None
  BY DEF Walking, Change
<1> QED BY <1>1, CopySwap

(* A process that ends: the others, if it has merged, are overtaken.       *)
LEMMA LeaveSwap ==
  ASSUME SwapInv, MergeInv', NEW c \in Clis, Leave(c),
         \/ file' = file /\ overtaken' = overtaken \ {c}
         \/ overtaken' = (overtaken \cup {d \in Clis : phase[d] # "off"}) \ {c}
  PROVE  SwapInv'
<1>1. TypeOK
  BY DEF SwapInv, MergeInv
<1>2. ASSUME NEW e \in Clis
      PROVE  /\ phase'[e] = "off" => base'[e].peer = None
             /\ Same(base'[e].peer, mine'[e].peer)
             /\ e \notin overtaken' => Same(base'[e].peer, file'.peer)
  <2>1. CASE e = c
    <3>1. base'[e].peer = None /\ mine'[e].peer = None
      BY <1>1, <2>1, EmptyTyped DEF Leave, TypeOK
    <3> QED BY <3>1 DEF Same
  <2>2. CASE e # c
    <3>1. base'[e] = base[e] /\ mine'[e] = mine[e] /\ phase'[e] = phase[e]
      BY <1>1, <2>2 DEF Leave, TypeOK
    <3>2. /\ phase[e] = "off" => base[e].peer = None
          /\ Same(base[e].peer, mine[e].peer)
          /\ e \notin overtaken => Same(base[e].peer, file.peer)
      BY DEF SwapInv
    <3>3. CASE file' = file /\ overtaken' = overtaken \ {c}
      BY <2>2, <3>1, <3>2, <3>3
    <3>4. CASE overtaken' = (overtaken \cup {d \in Clis : phase[d] # "off"}) \ {c}
      <4>1. e \notin overtaken' => base[e].peer = None
        BY <2>2, <3>2, <3>4
      <4> QED BY <3>1, <3>2, <4>1 DEF Same
    <3> QED BY <3>3, <3>4
  <2> QED BY <2>1, <2>2
<1> QED BY <1>2 DEF SwapInv

(* What a merge takes of whom.                                             *)
Swapped(disk, new, was, own) ==
  /\ Swaps(disk.id, new.id, was.id, own.id)
  /\ new.id = disk.id =>
       /\ Swaps(disk.seal, new.seal, was.seal, own.seal)
       /\ \/ Swaps(disk.conf, new.conf, was.conf, own.conf)
          \/ new.conf = own.seal /\ new.seal # own.seal
       /\ \/ disk.rivals \ new.rivals \subseteq was.rivals \ own.rivals
          \/ Cardinality(new.rivals) = MaxConflicts
  /\ Swaps(disk.profile, new.profile, was.profile, own.profile)

(* Two records that are swapped for the same are so too.                   *)
Alike(p, q) ==
  /\ p.id = q.id /\ p.seal = q.seal /\ p.conf = q.conf
  /\ p.rivals = q.rivals /\ p.profile = q.profile

LEMMA AlikeSwapped ==
  ASSUME NEW disk, NEW own, NEW was, NEW p, NEW q, Alike(p, q),
         Swapped(disk, p, was, own)
  PROVE  Swapped(disk, q, was, own)
BY DEF Alike, Swapped

LEMMA CutSwapped ==
  ASSUME NEW disk, NEW own, NEW was, NEW p \in Peer, NEW q, Cut(p, q),
         Swapped(disk, p, was, own)
  PROVE  Swapped(disk, q, was, own)
<1>1. /\ q.id = p.id /\ q.seal = p.seal /\ q.conf = p.conf /\ q.profile = p.profile
      /\ q.rivals = p.rivals \/ Cardinality(q.rivals) = MaxConflicts
  BY NoneAssumption DEF Cut
<1> QED BY <1>1 DEF Swapped

LEMMA FlooredAlike ==
  ASSUME NEW p \in Peer, NEW q
  PROVE  Alike(p, Floored(p, q))
BY DEF Alike, Floored, Peer

(* Of two records of one identity the merged sealing key is one side's, or *)
(* there is a dispute over both.                                           *)
LEMMA MergedSealSwaps ==
  ASSUME NEW disk \in Peer, NEW own \in Peer, NEW was \in Peer
  PROVE  LET m == MergedSeal(disk, own, was) IN
         /\ Swaps(disk.seal, m.seal, was.seal, own.seal)
         /\ \/ Swaps(disk.conf, m.conf, was.conf, own.conf)
            \/ m.conf = own.seal /\ m.seal # own.seal
<1> DEFINE m == MergedSeal(disk, own, was)
           w == WithSeal(disk, own)
           x == [disk EXCEPT !.seen = TRUE, !.conf = own.seal]
<1>1. CASE SameSeal(disk, was)
  <2>1. m = w
    BY <1>1 DEF MergedSeal
  <2>2. w.seal = own.seal /\ w.conf = own.conf
    BY WithSealIs
  <2>3. disk.seal = was.seal /\ disk.conf = was.conf
    BY <1>1, WithSealIs DEF SameSeal
  <2> HIDE DEF m, w
  <2> QED BY <2>1, <2>2, <2>3 DEF Swaps, m
<1>2. CASE ~SameSeal(disk, was) /\ m = x /\ disk.seal # own.seal
  <2>1. x.seal = disk.seal /\ x.conf = own.seal
    BY DEF Peer
  <2> HIDE DEF m, x
  <2> QED BY <1>2, <2>1 DEF Swaps, m
<1>3. CASE m = disk
  <2> HIDE DEF m
  <2> QED BY <1>3 DEF Swaps, m
<1>4. \/ SameSeal(disk, was)
      \/ ~SameSeal(disk, was) /\ m = x /\ disk.seal # own.seal
      \/ m = disk
  BY DEF MergedSeal
<1> QED BY <1>1, <1>2, <1>3, <1>4

(* Where both sides have changed the record.                               *)
LEMMA MergedFieldsSwaps ==
  ASSUME NEW disk, NEW own, NEW was, Rivals(disk, own, was)
  PROVE  Swapped(disk, MergedFields(disk, own, was), was, own)
<1> DEFINE x == Secured(disk, own, was)
           rivals == MergedRivals(disk, own, was)
           profile == MergedProfile(disk, own, was)
           rev == Higher(disk.rev, own.rev)
           m == MergedFields(disk, own, was)
<1>1. disk \in Peer /\ own \in Peer /\ was \in Peer
  BY DEF Rivals
<1>2. Swaps(disk.profile, profile, was.profile, own.profile)
  BY DEF MergedProfile, OneSided, Swaps
<1>3. /\ Swaps(disk.id, x.id, was.id, own.id)
      /\ x.id = disk.id =>
           /\ Swaps(disk.seal, x.seal, was.seal, own.seal)
           /\ \/ Swaps(disk.conf, x.conf, was.conf, own.conf)
              \/ x.conf = own.seal /\ x.seal # own.seal
           /\ disk.rivals \ rivals \subseteq was.rivals \ own.rivals
  <2>1. CASE was.id = None
    <3>1. x = disk
      BY <2>1 DEF Secured
    <3>2. rivals = OneSided(disk.rivals, own.rivals, was.rivals,
                            disk.rivals \cup own.rivals)
      BY <2>1 DEF MergedRivals, UnionRivals, BothRotated
    <3>3. disk.rivals \ rivals \subseteq was.rivals \ own.rivals
      BY <3>2 DEF OneSided
    <3> HIDE DEF x, rivals
    <3> QED BY <3>1, <3>3 DEF Swaps
  <2>2. CASE was.id # None /\ Rotated(own, was) /\ ~Rotated(disk, was)
    <3>1. x = own
      BY <2>2 DEF Secured
    <3>2. disk.id = was.id /\ own.id # was.id
      BY <2>2 DEF Rotated, Rivals
    <3> HIDE DEF x, rivals
    <3> QED BY <3>1, <3>2 DEF Swaps
  <2>3. CASE was.id # None /\ Rotated(disk, was) /\ own.id # disk.id
    <3>1. x = disk
      BY <2>3 DEF Secured
    <3>2. disk.rivals \subseteq rivals
      BY <2>3 DEF MergedRivals, AppendRival, BothRotated
    <3> HIDE DEF x, rivals
    <3> QED BY <3>1, <3>2 DEF Swaps
  <2>4. CASE /\ was.id # None
             /\ ~(Rotated(own, was) /\ ~Rotated(disk, was))
             /\ ~(Rotated(disk, was) /\ own.id # disk.id)
    <3>1. x = MergedSeal(disk, own, was)
      BY <2>4 DEF Secured
    <3>2. x.id = disk.id
      BY <1>1, <3>1, MergedSealPaired
    <3>3. disk.rivals \ rivals \subseteq was.rivals \ own.rivals
      BY <2>4 DEF MergedRivals, OneSided, UnionRivals, BothRotated
    <3>4. /\ Swaps(disk.seal, x.seal, was.seal, own.seal)
          /\ \/ Swaps(disk.conf, x.conf, was.conf, own.conf)
             \/ x.conf = own.seal /\ x.seal # own.seal
      BY <1>1, <3>1, MergedSealSwaps
    <3> HIDE DEF x, rivals
    <3> QED BY <3>2, <3>3, <3>4 DEF Swaps
  <2> QED BY <2>1, <2>2, <2>3, <2>4
<1>4. /\ m.id = x.id /\ m.seal = x.seal /\ m.conf = x.conf
      /\ m.rivals = rivals /\ m.profile = profile
  <2>1. x \in Peer
    BY <1>1, SecuredTyped
  <2>2. m = [x EXCEPT !.rivals = rivals, !.profile = profile, !.rev = rev]
    BY DEF MergedFields
  <2> HIDE DEF x, rivals, profile, rev, m
  <2> QED BY <2>1, <2>2 DEF Peer
<1> HIDE DEF x, rivals, profile, m
<1>5. Swapped(disk, m, was, own)
  BY <1>2, <1>3, <1>4 DEF Swapped
<1> QED BY <1>5 DEF m

(* mergeRecord() swaps, where a side has advanced if its revision has.     *)
LEMMA MergeSwaps ==
  ASSUME NEW disk, NEW own, NEW was, Rivals(disk, own, was),
         Same(was, own), Same(was, disk)
  PROVE  Swapped(disk, MergeRecord(disk, own, was), was, own)
<1> DEFINE m == MergeRecord(disk, own, was)
           x == MergedFields(disk, own, was)
           y == Floored(x, disk)
<1>1. /\ disk \in Peer /\ own \in Peer /\ was \in Peer
      /\ disk # None /\ own # None /\ was # None
  BY NoneAssumption DEF Rivals
<1>2. Swapped(disk, disk, was, own)
  BY DEF Swapped, Swaps
<1>3. CASE m = Floored(disk, own)
  BY <1>1, <1>2, <1>3, FlooredAlike, AlikeSwapped
<1>4. CASE disk.rev = was.rev /\ m = Floored(own, disk)
  <2>1. was = disk
    BY <1>1, <1>4 DEF Same
  <2>2. Swapped(disk, own, was, own)
    BY <2>1 DEF Swapped, Swaps
  <2> QED BY <1>1, <1>4, <2>2, FlooredAlike, AlikeSwapped
<1>5. CASE m = Floored(y, own)
  <2>1. x \in Peer /\ Swapped(disk, x, was, own)
    BY <1>1, MergedFieldsIs, MergedFieldsSwaps
  <2> HIDE DEF x
  <2>2. y \in Peer /\ Swapped(disk, y, was, own)
    BY <1>1, <2>1, FlooredIs, FlooredAlike, AlikeSwapped
  <2> HIDE DEF y, m
  <2>3. Swapped(disk, m, was, own)
    BY <1>5, <2>2, FlooredAlike, AlikeSwapped
  <2> QED BY <2>3 DEF m
<1>6. \/ m = Floored(disk, own)
      \/ disk.rev = was.rev /\ m = Floored(own, disk)
      \/ m = Floored(y, own)
  BY <1>1, MergeRecordCases
<1> QED BY <1>3, <1>4, <1>5, <1>6

(* What ChangesAreSwapped asks of a step of one process.                   *)
ChangeSwapped(c) ==
  /\ PresenceSwapped(c)
  /\ Sound(c) => IdentitySwapped(c) /\ SealSwapped(c) /\ EditsSwapped(c)

LEMMA PersistSwaps ==
  ASSUME SwapInv, NEW c \in Clis, Persist(c)
  PROVE  ChangeSwapped(c)
<1> DEFINE disk == file.peer
           own  == mine[c].peer
           was  == base[c].peer
           new  == MergedPeer(disk, own, was)
<1>1. disk \in Optional /\ own \in Optional /\ was \in Optional
  BY RecordsTyped DEF SwapInv, MergeInv
<1>2. /\ new \in Optional /\ Cut(new, file'.peer)
      /\ (new = None) = (file'.peer = None)
  <2>1. new \in Optional /\ Cut(new, file'.peer)
    BY PersistedTyped DEF SwapInv, MergeInv, Optional
  <2> HIDE DEF new
  <2> QED BY <2>1, NoneAssumption DEF Cut
<1>3. Writer(was, own, phase[c], disk, fate)
  BY DEF SwapInv, MergeInv
<1>4. PresenceSwapped(c)
  <2>1. disk # None /\ own # None => new # None
    <3>1. disk # None /\ own # None => new = MergeRecord(disk, own, was)
      BY DEF MergedPeer
    <3>2. disk # None /\ own # None => new \in Peer
      BY <1>1, <3>1, MergeKeepsFloors DEF Optional
    <3> QED BY <3>2, NoneAssumption
  <2>2. CASE (disk = None) # (new = None)
    <3>1. CASE disk = None
      <4>1. own # None /\ was = None
        BY <2>2, <3>1 DEF MergedPeer
      <4> QED BY <3>1, <4>1 DEF PresenceSwapped
    <3>2. CASE disk # None
      <4>1. own = None /\ was # None
        BY <2>1, <2>2, <3>2 DEF MergedPeer
      <4> QED BY <3>2, <4>1 DEF PresenceSwapped
    <3> QED BY <3>1, <3>2
  <2> QED BY <1>2, <2>2 DEF PresenceSwapped
<1>5. ASSUME Sound(c) PROVE IdentitySwapped(c) /\ SealSwapped(c) /\ EditsSwapped(c)
  <2>1. disk # None /\ new # None /\ was # None /\ c \notin overtaken
    BY <1>2, <1>5 DEF Sound, Both
  <2>2. own # None
    BY <2>1 DEF MergedPeer
  <2>3. disk \in Peer /\ own \in Peer /\ was \in Peer
    BY <1>1, <2>1, <2>2 DEF Optional
  <2>4. Rivals(disk, own, was)
    BY <1>3, <2>1, <2>2, <2>3 DEF Rivals, Writer, Since
  <2>5. Same(was, own) /\ Same(was, disk)
    BY <2>1 DEF SwapInv
  <2>6. new = MergeRecord(disk, own, was)
    BY <2>1, <2>2 DEF MergedPeer
  <2>7. Swapped(disk, new, was, own)
    BY <2>4, <2>5, <2>6, MergeSwaps
  <2> HIDE DEF new
  <2>8. new \in Peer
    BY <1>2, <2>1 DEF Optional
  <2>9. Swapped(disk, file'.peer, was, own)
    BY <1>2, <2>7, <2>8, CutSwapped
  <2> QED BY <2>9 DEF Swapped, IdentitySwapped, SealSwapped, EditsSwapped
<1> QED BY <1>4, <1>5 DEF ChangeSwapped

LEMMA SwapStep ==
  ASSUME SwapInv, [Next]_vars
  PROVE  SwapInv'
<1>0. TypeOK /\ TypeOK' /\ MergeInv /\ MergeInv'
  BY MergeStep, TypeStep DEF SwapInv, MergeInv
<1> USE <1>0, HeldByWriter, HeldByFile
<1>00. fate \in {"admitted", "forgotten"}
  BY ConstantsAssumption DEF MergeInv, TypeOK
<1>1. ASSUME NEW c \in Clis, Start(c) PROVE SwapInv'
  <2>1. ASSUME NEW e \in Clis
        PROVE  /\ phase'[e] = "off" => base'[e].peer = None
               /\ Same(base'[e].peer, mine'[e].peer)
               /\ e \notin overtaken' => Same(base'[e].peer, file'.peer)
    <3>1. file' = file /\ overtaken' = overtaken
      BY <1>1 DEF Start, history
    <3>2. CASE e = c
      <4>1. base'[e] = file /\ mine'[e] = file /\ phase'[e] = "ready"
        BY <1>1, <3>2 DEF Start, TypeOK
      <4> QED BY <3>1, <4>1 DEF Same
    <3>3. CASE e # c
      <4>1. base'[e] = base[e] /\ mine'[e] = mine[e] /\ phase'[e] = phase[e]
        BY <1>1, <3>3 DEF Start, TypeOK
      <4> QED BY <3>1, <4>1 DEF SwapInv
    <3> QED BY <3>2, <3>3
  <2> QED BY <2>1 DEF SwapInv
<1>2. ASSUME NEW c \in Clis, Persist(c) PROVE SwapInv'
  BY <1>2, LeaveSwap DEF Persist
<1>3. ASSUME NEW c \in Clis, Quit(c) PROVE SwapInv'
  BY <1>3, LeaveSwap DEF Quit
<1>4. ASSUME NEW c \in Clis, CliAdd(c) PROVE SwapInv'
  <2>1. PICK i \in Ids \cup {None}, prof \in Profiles :
          Command(c, Admit(mine[c], i, None, prof))
    BY <1>4 DEF CliAdd
  <2>2. mine[c].peer = None => fate = "admitted"
    BY <1>4, <1>00 DEF CliAdd, Admissions
  <2>3. mine[c].peer # None =>
          Advances(mine[c].peer, Admit(mine[c], i, None, prof).peer)
    BY AdmitAdvances
  <2> QED BY <2>1, <2>2, <2>3, CommandSwap
<1>5. ASSUME NEW c \in Clis, CliForget(c) PROVE SwapInv'
  BY <1>5, ForgetTyped, CommandSwap DEF CliForget
<1>6. ASSUME NEW c \in Clis, CliRotate(c) PROVE SwapInv'
  <2>1. PICK i \in Ids : Command(c, Rotate(mine[c], i))
    BY <1>6 DEF CliRotate
  <2>2. mine[c].peer # None
    BY <1>6 DEF CliRotate
  <2>3. Advances(mine[c].peer, Rotate(mine[c], i).peer)
    BY <2>2, RotateAdvances
  <2> QED BY <2>1, <2>2, <2>3, CommandSwap
<1>7. ASSUME NEW c \in Clis, CliAccept(c) PROVE SwapInv'
  <2>1. PICK s \in Seals \cup {None} : Command(c, AcceptSeal(mine[c], s))
    BY <1>7 DEF CliAccept
  <2>2. mine[c].peer # None
    BY <1>7 DEF CliAccept
  <2>3. Advances(mine[c].peer, AcceptSeal(mine[c], s).peer)
    BY <2>2, AcceptSealAdvances
  <2> QED BY <2>1, <2>2, <2>3, CommandSwap
<1>8. ASSUME NEW c \in Clis, CliBlock(c) PROVE SwapInv'
  <2>1. PICK d : Command(c, d) /\ d.peer = mine[c].peer
    BY <1>8, BlocksBeside DEF CliBlock
  <2>2. d.peer = None \/ (mine[c].peer # None /\ Advances(mine[c].peer, d.peer))
    BY <2>1 DEF Advances
  <2> QED BY <2>1, <2>2, CommandSwap
<1>9. ASSUME NEW c \in Clis, Answer(c) PROVE SwapInv'
  <2>0. PICK i \in Ids, s \in Seals \cup {None}, v \in BOOLEAN :
          \E d \in Capped(Answered(mine[c], i, s, v), {i}) :
            /\ Walking(c, {"ready", "walking"}, "answered", d)
            /\ Kept(mine[c], Answered(mine[c], i, s, v), vouched')
    BY <1>9, AnswerIs
  <2>1. PICK d \in Capped(Answered(mine[c], i, s, v), {i}) :
          /\ Walking(c, {"ready", "walking"}, "answered", d)
          /\ Kept(mine[c], Answered(mine[c], i, s, v), vouched')
    BY <2>0
  <2> DEFINE a == Answered(mine[c], i, s, v)
  <2>2. Held(mine[c])
    BY <1>9, AnswerIs
  <2>3. a.peer.rev > mine[c].peer.rev
    BY <2>2, AnsweredAdvances
  <2>4. Held(a)
    BY <2>1 DEF Kept
  <2>5. d \in Capped(a, {i})
    BY <2>1
  <2> HIDE DEF a
  <2>6. d.peer.rev = a.peer.rev
    BY <2>4, <2>5, CappedIs DEF Cut, Held
  <2>7. Advances(mine[c].peer, d.peer)
    BY <2>3, <2>6 DEF Advances
  <2>8. "answered" # "off"
    OBVIOUS
  <2> QED BY <2>1, <2>7, <2>8, WalkSwap
<1>10. ASSUME NEW c \in Clis, Mention(c) PROVE SwapInv'
  <2>1. PICK i \in Ids \cup {None} :
          \/ Walking(c, {"ready", "walking"}, "walking", Hear(mine[c], i))
          \/ Walking(c, {"answered"}, "answered", Hear(mine[c], i))
    BY <1>10 DEF Mention
  <2>2. Advances(mine[c].peer, Hear(mine[c], i).peer)
    BY <2>1, HearAdvances DEF Walking
  <2>3. "answered" # "off" /\ "walking" # "off"
    OBVIOUS
  <2> QED BY <2>1, <2>2, <2>3, WalkSwap
<1>11. CASE PageAdmit
  <2>1. PICK i \in Ids \cup {None}, s \in Seals \cup {None}, prof \in Profiles :
          Apply(Admit(file, i, s, prof))
    BY <1>11 DEF PageAdmit
  <2>2. file.peer = None => fate = "admitted"
    BY <1>11, <1>00 DEF PageAdmit, Admissions
  <2>3. file.peer # None => Advances(file.peer, Admit(file, i, s, prof).peer)
    BY AdmitAdvances
  <2> QED BY <2>1, <2>2, <2>3, AppliedSwap
<1>12. CASE PageForget
  BY <1>12, ForgetTyped, AppliedSwap DEF PageForget
<1>13. CASE PageAccept
  <2>1. PICK s \in Seals \cup {None} : Apply(AcceptSeal(file, s))
    BY <1>13 DEF PageAccept
  <2>2. file.peer # None
    BY <1>13 DEF PageAccept
  <2>3. Advances(file.peer, AcceptSeal(file, s).peer)
    BY <2>2, AcceptSealAdvances
  <2> QED BY <2>1, <2>2, <2>3, AppliedSwap
<1>14. CASE PageBlock
  <2>1. PICK d : Apply(d) /\ d.peer = file.peer
    BY <1>14, BlocksBeside DEF PageBlock
  <2>2. d.peer = None \/ (file.peer # None /\ Advances(file.peer, d.peer))
    BY <2>1 DEF Advances
  <2> QED BY <2>1, <2>2, AppliedSwap
<1>15. CASE CallerProvesKey
  <2>1. PICK i \in Ids : Apply(BindKey(file, i))
    BY <1>15 DEF CallerProvesKey
  <2>2. file.peer # None /\ Advances(file.peer, BindKey(file, i).peer)
    BY <1>15, BindKeyAdvances DEF CallerProvesKey
  <2> QED BY <2>1, <2>2, AppliedSwap
<1>16. CASE CallerBinds
  <2>1. file.peer # None /\ Advances(file.peer, NoteBinding(file).peer)
    BY <1>16, NoteBindingAdvances DEF CallerBinds
  <2> QED BY <1>16, <2>1, AppliedSwap DEF CallerBinds
<1>17. CASE Reload \/ UNCHANGED vars
  BY <1>17 DEF Reload, vars, history, SwapInv
<1> QED
  BY <1>1, <1>2, <1>3, <1>4, <1>5, <1>6, <1>7, <1>8, <1>9, <1>10, <1>11, <1>12,
     <1>13, <1>14, <1>15, <1>16, <1>17 DEF Next

LEMMA SwapInit ==
  ASSUME "both" \notin Fates, Init
  PROVE  SwapInv
<1>1. \A c \in Clis : base[c].peer = None /\ mine[c].peer = None
  BY EmptyTyped DEF Init
<1> QED BY <1>1, MergeInit DEF SwapInv, Same

(* A persist swaps what its writer changed and leaves what it did not to   *)
(* who did, however many writers there are and however stale they are: the *)
(* peer's presence always, its identity, sealing key, dispute, profile and *)
(* rivals for a writer that no other process has overtaken (directory.js   *)
(* 292-294, 414-430, 634-637, 678-757, 1251-1254), as long as the peer is  *)
(* not both forgotten and admitted anew while a writer runs.               *)
THEOREM ChangesSwapped ==
  ASSUME "both" \notin Fates
  PROVE  Spec => ChangesAreSwapped
<1>1. Init => SwapInv
  BY SwapInit
<1>2. SwapInv /\ [Next]_vars => SwapInv'
  BY SwapStep
<1>3. SwapInv => \A c \in Clis : ChangeSwapped(c)
  <2>1. ASSUME SwapInv, NEW c \in Clis, ~Persist(c)
        PROVE  ChangeSwapped(c)
    BY <2>1 DEF ChangeSwapped, PresenceSwapped, Sound, Both
  <2> QED BY <2>1, PersistSwaps
<1>4. SwapInv /\ [Next]_vars =>
        [\A c \in Clis :
           /\ PresenceSwapped(c)
           /\ Sound(c) => IdentitySwapped(c) /\ SealSwapped(c) /\ EditsSwapped(c)]_vars
  BY <1>3 DEF ChangeSwapped
<1> QED BY <1>1, <1>2, <1>4, PTL DEF Spec, ChangesAreSwapped

=============================================================================
