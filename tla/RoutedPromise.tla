----------------------------- MODULE RoutedPromise -----------------------------
(***************************************************************************)
(* What a routed send promises whoever called it, with relays nobody       *)
(* trusts between the two ends: it ends, and what it then says of the      *)
(* destination is so.  RoutedExchange is the machinery that keeps it.      *)
(***************************************************************************)
CONSTANT Ids  \* message ids, each minted for one send

VARIABLES
  asked,     \* sends that left the origin: those that ask for a sealed reply
  public,    \* and those in the clear
  accepted,  \* messages the destination accepted
  refused,   \* messages it refused, once at least
  answered,  \* messages to which its consumer's reply was sealed
  told       \* told[i]: what the send i has reported

Nothing == [proof |-> "none", body |-> "waiting"]

(* A report: what is proved of the destination, and what stands for the    *)
(* reply.                                                                  *)
Reports == [proof : {"none", "delivered", "refused"},
            body : {"none", "clear", "sealed", "withheld"}]

Init ==
  /\ asked = {} /\ public = {}
  /\ accepted = {} /\ refused = {} /\ answered = {}
  /\ told = [i \in Ids |-> Nothing]

Ask(i) ==
  /\ i \notin asked \cup public
  /\ \/ asked' = asked \cup {i} /\ UNCHANGED public
     \/ public' = public \cup {i} /\ UNCHANGED asked
  /\ UNCHANGED <<accepted, refused, answered, told>>

Accept(i) ==
  /\ i \in (asked \cup public) \ accepted
  /\ accepted' = accepted \cup {i}
  /\ UNCHANGED <<asked, public, refused, answered, told>>

Refuse(i) ==
  /\ i \in asked \cup public
  /\ refused' = refused \cup {i}
  /\ UNCHANGED <<asked, public, accepted, answered, told>>

Reply(i) ==
  /\ i \in accepted \cap asked
  /\ answered' = answered \cup {i}
  /\ UNCHANGED <<asked, public, accepted, refused, told>>

(* A send reports once.  A proof is of what the destination did with this  *)
(* message; a sealed reply is the one it made to this message, and nothing *)
(* in the clear stands for it.                                             *)
Tell(i, r) ==
  /\ i \in asked \cup public
  /\ told[i] = Nothing
  /\ r.proof = "delivered" => i \in accepted
  /\ r.proof = "refused" => i \in refused
  /\ r.body = "sealed" => i \in answered
  /\ r.body = "clear" => i \in public
  /\ told' = [told EXCEPT ![i] = r]
  /\ UNCHANGED <<asked, public, accepted, refused, answered>>

Next ==
  \E i \in Ids :
    \/ Ask(i) \/ Accept(i) \/ Refuse(i) \/ Reply(i)
    \/ \E r \in Reports : Tell(i, r)

vars == <<asked, public, accepted, refused, answered, told>>
Spec == Init /\ [][Next]_vars
=============================================================================
