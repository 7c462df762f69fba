-------------------------------- MODULE Sessions -------------------------------
(***************************************************************************)
(* Byte streams carried in requests: the tunnel and shell plugins          *)
(* (builtin/tunnelPlugin.js, builtin/shellPlugin.js), the clients that     *)
(* drive them (pipeTunnel() of tunnelClient.js, execShell() of             *)
(* shellClient.js) and the calls in between (callPeer() of hail.js).       *)
(*                                                                         *)
(* Both plugins hold sessions that are opened, sent to, polled and closed  *)
(* by requests of their own; what a poll drains is in its answer or        *)
(* nowhere.  A call that gets no answer within its time is asked again at  *)
(* the next address of the peer, whether or not the first was served.      *)
(*                                                                         *)
(* A behaviour is of one kind throughout, so that one run checks both.     *)
(* One client carries one stream.                                         *)
(* Chunks are numbered in the order they were written.                     *)
(***************************************************************************)
EXTENDS Naturals, Sequences, FiniteSets, SequencesExt

CONSTANTS
  Kinds,        \* the plugins: a subset of {"tunnel", "shell"}
  Addresses,    \* how many addresses the peer's record has
  MaxPerPeer,   \* MAX_TUNNELS_PER_PEER, MAX_PER_PEER: the only peer's, so in all
  Buffered,     \* MAX_BUFFERED, in chunks
  InLen,        \* chunks the client has to send
  OutLen,       \* chunks the far side writes; a shell's last one has the sentinel
  MaxPolls,     \* maxPolls of execShell()
  MaxLog,       \* records a shell plugin's history keeps: 200
  MaxOpens,     \* bound: sessions opened
  MaxLosses     \* bound: calls cut off, clients killed, plugins stopped

ASSUME SessionsAssumption ==
  /\ Kinds \subseteq {"tunnel", "shell"}
  /\ {Addresses, MaxPerPeer, Buffered, OutLen, MaxPolls, MaxLog} \subseteq Nat \ {0}
  /\ {InLen, MaxOpens, MaxLosses} \subseteq Nat

VARIABLES
  kind,      \* which plugin and client this behaviour is about
  sess,      \* every session opened, and what is behind it
  log,       \* the shell plugin's `log`, oldest record first
  calls,     \* the client's outstanding calls, by path
  strays,    \* requests their client gave up, still on the way
  pipe,      \* the client
  repeated,  \* history: a call was asked again after it may have been served
  losses     \* bound: what was cut off so far

vars == <<kind, sess, log, calls, strays, pipe, repeated, losses>>

Shell == kind = "shell"
Ids == DOMAIN sess

-----------------------------------------------------------------------------
(* The plugins' sessions. *)

(* An entry of `open` with its socket or child: whether it is in the map,   *)
(* and the socket or child alive; what was written and is not yet read at   *)
(* the far side, what was; what the far side wrote, and what of it waits    *)
(* for a poll; whether its idle time and its lifetime are over; and whether *)
(* its end is recorded.                                                     *)
Entry ==
  [held |-> TRUE, up |-> TRUE, pend |-> <<>>, got |-> <<>>,
   made |-> 0, chunks |-> <<>>, closed |-> FALSE, error |-> FALSE,
   idle |-> FALSE, old |-> FALSE, recorded |-> FALSE]

(* destroy() of the socket, kill() of the group: what was not read is gone. *)
Killed(e) == [e EXCEPT !.up = FALSE, !.pend = <<>>]

(* Out of the map. *)
Dropped(e) ==
  [e EXCEPT !.held = FALSE, !.chunks = <<>>, !.idle = FALSE, !.old = FALSE]

(* forget(): its end is recorded unless it was, see Ending.                 *)
Forgotten(e) == [Dropped(e) EXCEPT !.recorded = TRUE]

(* Plausible bug: a shell that keeps printing or being typed at goes on.    *)
ExpiredWhenIdle(e) == e.held /\ e.idle
Expired(e) == e.held /\ (e.idle \/ (Shell /\ e.old))

Reaped(s) ==
  [i \in DOMAIN s |-> IF Expired(s[i]) THEN Forgotten(Killed(s[i])) ELSE s[i]]

HeldIn(s) == {i \in DOMAIN s : s[i].held}

(* What a handler leaves, and what it answers.                              *)
Refused(s) == [sess |-> s, answer |-> [state |-> "refused"]]
Served(s, reply) == [sess |-> s, answer |-> [state |-> "ok", reply |-> reply]]
Reply(id, data, closed) == [id |-> id, data |-> data, closed |-> closed]

OpenHandler ==
  LET s == Reaped(sess) IN
  IF Cardinality(HeldIn(s)) >= MaxPerPeer THEN Refused(s)
  ELSE Served(Append(s, Entry), Reply(Len(s) + 1, <<>>, FALSE))

(* A write to a socket or child that is gone is lost in silence.            *)
Written(e, data) == IF e.up THEN [e EXCEPT !.pend = Append(@, data)] ELSE e
Touched(e) == [e EXCEPT !.idle = FALSE]

TunnelSend(id, data) ==
  LET e == Touched(sess[id]) IN
  Served([sess EXCEPT ![id] = IF e.closed THEN e ELSE Written(e, data)],
         Reply(id, <<>>, e.closed))

(* To type into a shell that is over does not keep it.                      *)
ShellSend(id, data) ==
  LET e == sess[id] IN
  Served([sess EXCEPT ![id] = IF e.closed THEN e ELSE Written(Touched(e), data)],
         Reply(id, <<>>, e.closed))

(* drain()                                                                  *)
Drained(e) == [e EXCEPT !.chunks = <<>>]

(* Plausible bug: a poll answers a closed tunnel as a send does.            *)
TunnelPollClosedFirst(id) ==
  LET e == Touched(sess[id]) IN
  IF e.closed THEN Served([sess EXCEPT ![id] = e], Reply(id, <<>>, TRUE))
  ELSE Served([sess EXCEPT ![id] = Drained(e)], Reply(id, e.chunks, FALSE))

TunnelPoll(id) ==
  LET e == Touched(sess[id]) IN
  Served([sess EXCEPT ![id] = Drained(e)], Reply(id, e.chunks, e.closed))

(* "A poll is not activity" of a shell.                                     *)
ShellPoll(id) ==
  Served([sess EXCEPT ![id] = Drained(@)], Reply(id, sess[id].chunks, sess[id].closed))

CloseHandler(id) ==
  Served([sess EXCEPT ![id] = Forgotten(Killed(@))], Reply(id, <<>>, TRUE))

(* ownedBy(): the session a request names is still there.                   *)
Handled(path, id, data) ==
  IF path = "open" THEN OpenHandler
  ELSE IF ~sess[id].held THEN Refused(sess)
  ELSE CASE path = "send"  -> IF Shell THEN ShellSend(id, data) ELSE TunnelSend(id, data)
         [] path = "poll"  -> IF Shell THEN ShellPoll(id) ELSE TunnelPoll(id)
         [] path = "close" -> CloseHandler(id)

-----------------------------------------------------------------------------
(* The history of a shell plugin: sessions opened and why they ended.       *)

Newest(l) ==
  IF Len(l) <= MaxLog THEN l ELSE SubSeq(l, Len(l) - MaxLog + 1, Len(l))

(* record(), of some records one after the other.                           *)
Recorded(records) == log' = Newest(log \o records)

(* A record: the session stands for its name, its peer and its times.       *)
Listed(i, event) == <<[id |-> i, event |-> event]>>

(* What forget() records of a session. *)
Ending(i, why) == IF Shell /\ ~sess[i].recorded THEN Listed(i, why) ELSE <<>>

(* What reap() records: the sessions that go, in the order of the map.      *)
Reapings ==
  LET ends == {[id |-> i, event |-> IF sess[i].old THEN "lifetime" ELSE "idle"] :
                 i \in {j \in Ids : Shell /\ Expired(sess[j]) /\ ~sess[j].recorded}} IN
  {es \in SeqOf(ends, Len(sess)) :
     /\ \A r \in ends : \E k \in DOMAIN es : es[k] = r
     /\ \A j, k \in DOMAIN es : j < k => es[j].id < es[k].id}

(* What a handler records.                                                  *)
Noted(path, id) ==
  CASE path = "open" ->
         LET opened == Len(OpenHandler.sess) > Len(sess) IN
         \E es \in Reapings :
           Recorded(es \o (IF Shell /\ opened THEN Listed(Len(sess) + 1, "opened")
                                              ELSE <<>>))
    [] path = "close" -> Recorded(IF sess[id].held THEN Ending(id, "closed") ELSE <<>>)
    [] OTHER -> UNCHANGED log

-----------------------------------------------------------------------------
(* callPeer(). *)

Paths == {"open", "send", "poll", "close"}
NoCall == [state |-> "none"]
Pending == [state |-> "pending"]

Asked(path, id, data) ==
  [state |-> "out", at |-> 1, id |-> id, data |-> data, answer |-> Pending]

Out(path) == calls[path].state = "out"
HasRoom(path) == path = "open" => Len(sess) < MaxOpens

(* A request is served.                                                     *)
Serve(path) ==
  /\ Out(path) /\ calls[path].answer = Pending /\ HasRoom(path)
  /\ LET h == Handled(path, calls[path].id, calls[path].data) IN
     /\ sess' = h.sess
     /\ calls' = [calls EXCEPT ![path].answer = h.answer]
  /\ Noted(path, calls[path].id)
  /\ UNCHANGED <<kind, strays, pipe, repeated, losses>>

(* One is served whose client no longer waits for it.                       *)
ServeStray(q) ==
  /\ q \in strays /\ HasRoom(q.path)
  /\ sess' = Handled(q.path, q.id, q.data).sess
  /\ Noted(q.path, q.id)
  /\ strays' = strays \ {q}
  /\ UNCHANGED <<kind, calls, pipe, repeated, losses>>

(* The next address, or none is left and the call has failed.               *)
TriedNext(path) ==
  IF calls[path].at < Addresses
  THEN [calls EXCEPT ![path].at = @ + 1, ![path].answer = Pending]
  ELSE [calls EXCEPT ![path].answer = [state |-> "failed"]]

(* A refusal is not an answer to callPeer().                                *)
TurnedAway(path) ==
  /\ Out(path) /\ calls[path].answer.state = "refused"
  /\ calls' = TriedNext(path)
  /\ UNCHANGED <<kind, sess, log, strays, pipe, repeated, losses>>

(* The address does not take the request, or not in time, or its answer     *)
(* does not come in time.                                                   *)
CutOff(path) ==
  /\ Out(path) /\ calls[path].answer.state \in {"pending", "ok"}
  /\ losses < MaxLosses
  /\ losses' = losses + 1
  /\ calls' = TriedNext(path)
  /\ LET again == calls[path].at < Addresses IN
     \/ /\ calls[path].answer = Pending
        /\ UNCHANGED <<strays, repeated>>
     \/ /\ calls[path].answer = Pending
        /\ strays' = strays \cup {[path |-> path, id |-> calls[path].id, data |-> calls[path].data]}
        /\ repeated' = (repeated \/ again)
     \/ /\ calls[path].answer # Pending
        /\ repeated' = (repeated \/ again)
        /\ UNCHANGED strays
  /\ UNCHANGED <<kind, sess, log, pipe>>

(* No address can be reached any more.                                      *)
Unreachable(path) ==
  /\ Out(path) /\ calls[path].answer.state \in {"pending", "ok"}
  /\ losses < MaxLosses
  /\ losses' = losses + 1
  /\ calls' = [calls EXCEPT ![path].answer = [state |-> "failed"]]
  /\ UNCHANGED <<kind, sess, log, strays, pipe, repeated>>

-----------------------------------------------------------------------------
(* The clients. *)

Start == [pc |-> "start", id |-> 0, reader |-> "off", poller |-> "off",
          sent |-> 0, polls |-> 0, out |-> <<>>, why |-> "none"]

Done == pipe.why # "none"
Came(path) == Out(path) /\ calls[path].answer.state \in {"ok", "failed"}
Failed(path) == calls[path].answer.state = "failed"
Answer(path) == calls[path].answer.reply
Back(path) == [calls EXCEPT ![path] = NoCall]

Quiet == UNCHANGED <<kind, sess, log, strays, repeated, losses>>

Open ==
  /\ pipe.pc = "start"
  /\ pipe' = [pipe EXCEPT !.pc = "opening"]
  /\ calls' = [calls EXCEPT !["open"] = Asked("open", 0, 0)]
  /\ Quiet

Opened ==
  /\ Came("open")
  /\ IF Failed("open")
     THEN /\ pipe' = [pipe EXCEPT !.pc = "over", !.why = "failed"]
          /\ calls' = Back("open")
     ELSE LET id == Answer("open").id IN
          /\ pipe' = [pipe EXCEPT !.pc = "on", !.id = id, !.reader = "read",
                                  !.poller = IF Shell THEN "off" ELSE "poll"]
          /\ calls' = IF Shell THEN Back("open")
                      ELSE [Back("open") EXCEPT !["poll"] = Asked("poll", id, 0)]
  /\ Quiet

(* finish(): the first reason counts, and the session is closed.            *)
Finished(p, why) == IF p.why # "none" THEN p ELSE [p EXCEPT !.why = why]
Closing(c, p) ==
  IF p.why # "none" THEN c ELSE [c EXCEPT !["close"] = Asked("close", p.id, 0)]

Send(p) ==
  /\ pipe' = [p EXCEPT !.reader = "send", !.sent = @ + 1]
  /\ calls' = [calls EXCEPT !["send"] = Asked("send", p.id, p.sent + 1)]

(* The reader of pipeTunnel(): the next chunk of the input.                 *)
ReadChunk ==
  /\ pipe.reader = "read" /\ ~Shell /\ pipe.sent < InLen
  /\ IF Done
     THEN pipe' = [pipe EXCEPT !.reader = "end"] /\ UNCHANGED calls
     ELSE Send(pipe)
  /\ Quiet

(* execShell()'s line, with the sentinel at its end.                        *)
SendLine ==
  /\ pipe.reader = "read" /\ Shell /\ pipe.sent < InLen
  /\ Send(pipe)
  /\ Quiet

InputEnds ==
  /\ pipe.reader = "read" /\ ~Shell
  /\ pipe' = Finished([pipe EXCEPT !.reader = "end"], "input ended")
  /\ calls' = Closing(calls, pipe)
  /\ Quiet

(* Plausible bug: a chunk that could not be sent is skipped.                *)
SentOrSkipped ==
  /\ Came("send") /\ ~Shell
  /\ pipe' = [pipe EXCEPT !.reader = "read"]
  /\ calls' = Back("send")
  /\ Quiet

Sent ==
  /\ Came("send") /\ ~Shell
  /\ LET p == [pipe EXCEPT !.reader = "end"] IN
     IF Failed("send")
     THEN pipe' = Finished(p, "failed") /\ calls' = Closing(Back("send"), pipe)
     ELSE IF Answer("send").closed
     THEN pipe' = Finished(p, "send closed") /\ calls' = Closing(Back("send"), pipe)
     ELSE pipe' = [pipe EXCEPT !.reader = "read"] /\ calls' = Back("send")
  /\ Quiet

(* execShell() sends one line, and polls once that was answered.            *)
LineSent ==
  /\ Came("send") /\ Shell
  /\ IF Failed("send")
     THEN pipe' = Finished([pipe EXCEPT !.reader = "end", !.poller = "end"], "failed")
          /\ calls' = Closing(Back("send"), pipe)
     ELSE pipe' = [pipe EXCEPT !.reader = "end", !.poller = "poll"]
          /\ calls' = [Back("send") EXCEPT !["poll"] = Asked("poll", pipe.id, 0)]
  /\ Quiet

(* The other end is asked again, or it is over.                             *)
PollAgain(p) ==
  pipe' = p /\ calls' = [Back("poll") EXCEPT !["poll"] = Asked("poll", pipe.id, 0)]
PollsEnd(p, why) ==
  /\ pipe' = Finished([p EXCEPT !.poller = "end"], why)
  /\ calls' = IF why = "none" THEN Back("poll") ELSE Closing(Back("poll"), pipe)

(* The poller of pipeTunnel(): what came is written out, and asked for      *)
(* more until the tunnel is closed or the pipe is done.                     *)
PipePolled ==
  /\ Came("poll") /\ ~Shell
  /\ IF Failed("poll") THEN PollsEnd(pipe, "failed")
     ELSE LET p == [pipe EXCEPT !.out = @ \o Answer("poll").data] IN
          IF Answer("poll").closed THEN PollsEnd(p, "poll closed")
          ELSE IF Done THEN PollsEnd(p, "none") ELSE PollAgain(p)
  /\ Quiet

(* execShell() polls until it finds its sentinel, the session is over, or   *)
(* it has polled often enough.                                              *)
Sentinel(out) == \E k \in DOMAIN out : out[k] = OutLen

ExecPolled ==
  /\ Came("poll") /\ Shell
  /\ IF Failed("poll") THEN PollsEnd(pipe, "failed")
     ELSE LET p == [pipe EXCEPT !.out = @ \o Answer("poll").data, !.polls = @ + 1] IN
          IF Sentinel(p.out) THEN PollsEnd(p, "mark")
          ELSE IF Answer("poll").closed THEN PollsEnd(p, "poll closed")
          ELSE IF p.polls >= MaxPolls THEN PollsEnd(p, "polls") ELSE PollAgain(p)
  /\ Quiet

Closed ==
  /\ Came("close")
  /\ calls' = Back("close")
  /\ UNCHANGED pipe
  /\ Quiet

(* pipeTunnel() returns when both loops have ended and the close is back.   *)
Return ==
  /\ pipe.pc = "on" /\ Done
  /\ pipe.reader = "end" /\ pipe.poller = "end" /\ \A path \in Paths : ~Out(path)
  /\ pipe' = [pipe EXCEPT !.pc = "over"]
  /\ UNCHANGED calls
  /\ Quiet

(* The client's process is killed; what it had asked may still arrive.      *)
Die ==
  /\ pipe.pc \in {"opening", "on"} /\ losses < MaxLosses
  /\ losses' = losses + 1
  /\ pipe' = [pipe EXCEPT !.pc = "over", !.why = "died", !.reader = "end", !.poller = "end"]
  /\ \E left \in SUBSET {path \in Paths : Out(path) /\ calls[path].answer = Pending} :
       strays' = strays \cup {[path |-> path, id |-> calls[path].id,
                               data |-> calls[path].data] : path \in left}
  /\ calls' = [path \in Paths |-> NoCall]
  /\ UNCHANGED <<kind, sess, log, repeated>>

-----------------------------------------------------------------------------
(* The far side, time, and other peers. *)

Behind == UNCHANGED <<kind, calls, strays, pipe, repeated, losses>>

(* Bound: what a tunnel carries is followed while its client reads it.      *)
Watched(i) == Shell \/ (pipe.pc = "on" /\ pipe.id = i)

Deliver(i) ==
  /\ Watched(i)
  /\ sess[i].up /\ sess[i].pend # <<>>
  /\ sess' = [sess EXCEPT ![i].got = Append(@, Head(sess[i].pend)), ![i].pend = Tail(@)]
  /\ UNCHANGED log
  /\ Behind

(* A chunk that does not fit: the socket is destroyed, its close follows.   *)
TunnelOverflow(e) == [Killed(e) EXCEPT !.error = TRUE]

(* Plausible bug: the end of a shell that printed too much is left to its   *)
(* exit.                                                                    *)
ShellOverflowUnrecorded(e) == [Killed(e) EXCEPT !.error = TRUE, !.closed = TRUE]

(* A shell is closed, its end recorded, however often, and its group killed.*)
ShellOverflow(e) ==
  [Killed(e) EXCEPT !.error = TRUE, !.closed = TRUE, !.recorded = TRUE]

(* What the service wrote arrives, in chunks of any size; a destroyed       *)
(* socket reads no more.                                                    *)
Room(e) == Len(e.chunks) < Buffered
Kept(e) == [e EXCEPT !.chunks = Append(@, e.made)]
Made(i) == [sess[i] EXCEPT !.made = @ + 1]

TunnelData(i) ==
  /\ ~Shell /\ Watched(i)
  /\ sess[i].held /\ sess[i].up /\ sess[i].made < OutLen
  /\ \/ Room(sess[i]) /\ sess' = [sess EXCEPT ![i] = Kept(Made(i))]
     \/ sess[i].chunks # <<>> /\ sess' = [sess EXCEPT ![i] = TunnelOverflow(Made(i))]
  /\ UNCHANGED log
  /\ Behind

(* Of a child that is gone, what its pipe holds still comes.                *)
ShellData(i) ==
  /\ Shell /\ Watched(i)
  /\ sess[i].held /\ sess[i].got # <<>> /\ sess[i].made < OutLen
  /\ \/ /\ Room(sess[i])
        /\ sess' = [sess EXCEPT ![i] = Touched(Kept(Made(i)))]
        /\ UNCHANGED log
     \/ /\ sess[i].chunks # <<>>
        /\ sess' = [sess EXCEPT ![i] = ShellOverflow(Made(i))]
        /\ Recorded(Listed(i, "limit"))
  /\ Behind

(* A forgotten shell leaves a job that prints on: nobody can read it, but   *)
(* too much of it is recorded like that of any other.                       *)
PrintsOn(i) ==
  /\ Shell
  /\ ~sess[i].held /\ sess[i].recorded /\ sess[i].got # <<>>
  /\ Recorded(Listed(i, "limit"))
  /\ UNCHANGED sess
  /\ Behind

(* The service closes its end, or the shell exits: the event comes after.   *)
Ends(i) ==
  /\ sess[i].up
  /\ sess' = [sess EXCEPT ![i] = Killed(@)]
  /\ UNCHANGED log
  /\ Behind

(* "close" of a socket.                                                     *)
SocketCloses(i) ==
  /\ ~Shell
  /\ sess[i].held /\ ~sess[i].up /\ ~sess[i].closed
  /\ sess' = [sess EXCEPT ![i].closed = TRUE]
  /\ UNCHANGED log
  /\ Behind

(* "exit" of a child.                                                       *)
ChildExits(i) ==
  /\ Shell
  /\ sess[i].held /\ ~sess[i].up
  /\ sess' = [sess EXCEPT ![i] = Forgotten([@ EXCEPT !.closed = TRUE])]
  /\ Recorded(Ending(i, "exited"))
  /\ Behind

EndEvent(i) == SocketCloses(i) \/ ChildExits(i)

(* "error" of a socket: a connection refused or reset.                      *)
Broken(e) == [Killed(e) EXCEPT !.error = TRUE, !.closed = TRUE]

SocketFails(i) ==
  /\ ~Shell
  /\ sess[i].held /\ sess[i].up
  /\ sess' = [sess EXCEPT ![i] = Broken(@)]
  /\ UNCHANGED log
  /\ Behind

(* "error" of a child: a shell that does not start.                         *)
ChildFails(i) ==
  /\ Shell
  /\ sess[i].held /\ sess[i].up /\ sess[i].got = <<>>
  /\ sess' = [sess EXCEPT ![i] = Forgotten(Broken(@))]
  /\ Recorded(Ending(i, "not started"))
  /\ Behind

(* IDLE_MS.  A pipe polls its tunnel every 25 ms: while it does, the tunnel *)
(* is not idle.                                                             *)
Age(i) ==
  /\ sess[i].held /\ ~sess[i].idle
  /\ Shell \/ pipe.pc = "over" \/ pipe.id # i
  /\ sess' = [sess EXCEPT ![i].idle = TRUE]
  /\ UNCHANGED log
  /\ Behind

GrowOld(i) ==
  /\ Shell /\ sess[i].held /\ ~sess[i].old
  /\ sess' = [sess EXCEPT ![i].old = TRUE]
  /\ UNCHANGED log
  /\ Behind

(* The sweep's timer.                                                       *)
Sweep ==
  /\ \E i \in Ids : Expired(sess[i])
  /\ sess' = Reaped(sess)
  /\ \E es \in Reapings : Recorded(es)
  /\ Behind

(* The peer types into its shell from elsewhere too, a call at a time.      *)
Types(i) ==
  /\ Shell /\ sess[i].held /\ ~sess[i].closed /\ sess[i].idle
  /\ sess' = [sess EXCEPT ![i].idle = FALSE]
  /\ UNCHANGED log
  /\ Behind

(* stop(), of a reload: every session goes and nothing is recorded, the     *)
(* history goes with the plugin.  What is opened afterwards is in the one   *)
(* that takes its place, whose sweep and history are its own; a request the *)
(* old one still has is Runtime's subject.                                  *)
Stop ==
  /\ losses < MaxLosses /\ HeldIn(sess) # {}
  /\ losses' = losses + 1
  /\ sess' = [i \in Ids |->
       [(IF sess[i].held THEN Dropped(Killed(sess[i])) ELSE sess[i])
          EXCEPT !.recorded = FALSE]]
  /\ log' = <<>>
  /\ UNCHANGED <<kind, calls, strays, pipe, repeated>>

-----------------------------------------------------------------------------
Init ==
  /\ kind \in Kinds
  /\ sess = <<>>
  /\ log = <<>>
  /\ calls = [path \in Paths |-> NoCall]
  /\ strays = {}
  /\ pipe = Start
  /\ repeated = FALSE /\ losses = 0

ClientStep ==
  \/ Open \/ Opened \/ SendLine \/ Sent \/ LineSent
  \/ PipePolled \/ ExecPolled \/ Closed \/ Return

Next ==
  \/ ClientStep \/ ReadChunk \/ InputEnds \/ Die
  \/ \E path \in Paths : Serve(path) \/ TurnedAway(path) \/ CutOff(path) \/ Unreachable(path)
  \/ \E q \in strays : ServeStray(q)
  \/ \E i \in Ids : \/ Deliver(i) \/ TunnelData(i) \/ ShellData(i) \/ PrintsOn(i)
                    \/ Ends(i) \/ EndEvent(i) \/ SocketFails(i) \/ ChildFails(i)
                    \/ Age(i) \/ GrowOld(i) \/ Types(i)
  \/ Sweep \/ Stop

(* Requests are served or cut off, events and timers come, and a client     *)
(* that is not waiting for its input goes on.  Nothing is said of the       *)
(* input, nor of the far side.                                              *)
Fairness ==
  /\ WF_vars(ClientStep)
  /\ \A path \in Paths : WF_vars(Serve(path)) /\ WF_vars(TurnedAway(path))
  /\ \A i \in 1..MaxOpens : /\ WF_vars(i \in Ids /\ EndEvent(i))
                             /\ WF_vars(i \in Ids /\ Age(i))
                             /\ WF_vars(i \in Ids /\ GrowOld(i))
  /\ WF_vars(Sweep)

Spec == Init /\ [][Next]_vars /\ Fairness

-----------------------------------------------------------------------------
(* Properties. *)

(* Chunks 1 to n, in order.                                                 *)
UpTo(n) == [k \in 1..n |-> k]

Mine == sess[pipe.id]

(* tunnelClient.js: "`for await` serialises it, so bytes reach the endpoint *)
(* in order".  What each end has read is, without a gap or a repetition,    *)
(* the beginning of what the other wrote, whatever was lost: as long as no  *)
(* call was made twice, and no overflow was reported.                       *)
StreamsAreKept ==
  pipe.id # 0 /\ ~repeated =>
    /\ IsPrefix(Mine.got, UpTo(pipe.sent))
    /\ ~Mine.error => IsPrefix(pipe.out, UpTo(Mine.made))

(* A pipe that ends because a poll found the end has all the far side       *)
(* wrote; execShell() that saw its sentinel ran its line once and has its   *)
(* whole output: again unless a call was made twice.                        *)
EndsAreWhole ==
  pipe.id # 0 /\ ~repeated /\ ~Mine.error =>
    /\ pipe.why = "poll closed" => pipe.out = UpTo(Mine.made)
    /\ pipe.why = "mark" => pipe.out = UpTo(OutLen) /\ Mine.got = <<1>>

(* Every session ends: a tunnel once its client is gone, however it went    *)
(* and whatever of its calls was lost, and a shell even when it is in use.  *)
Held(i) == i \in Ids /\ sess[i].held
SessionsEnd == \A i \in 1..MaxOpens : Held(i) /\ (Shell \/ pipe.pc = "over") ~> ~Held(i)

(* shellPlugin.js 178-184, 296-305: what the history still lists is told to *)
(* its end and with the real reason, whatever has been cut off it.  A shell *)
(* listed as opened that is gone has its end listed after it; an end that   *)
(* is not the overflow's is the first listed and the shell had no error,    *)
(* whichever of the sweep, the exit, a close and the overflow came after.   *)
EndsAreRecorded ==
  \A k \in DOMAIN log :
    LET i == log[k].id IN
    /\ log[k].event = "opened" /\ ~sess[i].held =>
         \E j \in DOMAIN log : k < j /\ log[j].id = i
    /\ log[k].event \in {"idle", "lifetime", "closed", "exited"} => ~sess[i].error
    /\ \A j \in DOMAIN log : j < k /\ log[j].id = i =>
         log[j].event = "opened" \/ log[k].event = "limit"

(* sendTunnel(): the bytes "reach the endpoint's socket unchanged", with no *)
(* regard to how often callPeer() asks.                                     *)
StreamIsUnchanged == pipe.id # 0 => IsPrefix(Mine.got, UpTo(pipe.sent))

(* pipeTunnel(): "When either the local stream ends or the endpoint closes, *)
(* the tunnel is closed once and both loops stop."                          *)
PipeReturns == pipe.why \in {"poll closed", "send closed"} ~> pipe.pc = "over"
=============================================================================
