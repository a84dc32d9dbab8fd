---------------------------- MODULE StreamFanout ----------------------------
(***************************************************************************)
(* One live stream of the daemon, from the sample ring to the WebSocket     *)
(* clients: the Opus loop of modules/opus_stream.rs, which encodes only     *)
(* while somebody listens, the broadcast channel it publishes to, and the   *)
(* upgrade handlers, subscriber guards and socket loops of                  *)
(* modules/stream_io.rs on a TCP and a UDS listener.  The inference stream  *)
(* uses the same handlers; its producer is in module Daemon.                *)
(*                                                                         *)
(* A sample is its absolute position; one unit stands for a few hundred of  *)
(* them.  Codec, resampling rate, envelope bytes and HTTP texts are left    *)
(* out; which samples end up in which packet is not.                        *)
(***************************************************************************)
EXTENDS Integers, Sequences, FiniteSets

CONSTANTS
    Clients,     \* connections that may be attempted
    Uds,         \* the clients that come over the UNIX socket
    MaxConn,     \* [{"tcp", "uds"} -> max_connections_per_stream], 0: no cap
    Strict,      \* listeners whose policy demands the subprotocol
    ChanCap,     \* broadcast capacity
    Pull,        \* PCM_PULL_CHUNK
    Frame,       \* samples per Opus packet
    Backlog,     \* BACKLOG_SAMPLES
    LagLimit,    \* samples a reader may be behind before peek_into says Lagged
    Period,      \* samples the capture thread publishes at a time
    MaxHead,     \* bound: samples captured
    MaxDials     \* bound: connection attempts per client

ASSUME StreamAssumption ==
    /\ IsFiniteSet(Clients)
    /\ Uds \subseteq Clients
    /\ MaxConn \in [{"tcp", "uds"} -> Nat]
    /\ Strict \subseteq {"tcp", "uds"}
    /\ {ChanCap, Pull, Frame, Backlog, LagLimit, Period} \subseteq Nat \ {0}
    /\ Pull <= LagLimit /\ Backlog <= LagLimit /\ Pull < 2 * Frame

VARIABLES
    head,      \* samples the microphone side has published
    opus,      \* control point of opus_stream::run
    tail,      \* its reader's position
    last,      \* last_status, "ready" standing for Lagged too
    carry,     \* out_pcm: samples not yet part of a packet
    seq,       \* audio_seq
    chan,      \* the packets the broadcast channel still holds
    pos,       \* packets ever accepted by the channel
    subs,      \* value of the subscriber watch
    unseen,    \* the watch changed since opus last consumed a change
    pc,        \* [Clients -> control point of the connection's handler]
    rx,        \* [Clients -> next channel position of the receiver]
    seen,      \* ghost: [Clients -> audio_seq numbers put on the socket]
    peer,      \* [Clients -> the other end is still there]
    dials,     \* [Clients -> attempts made]
    uds,       \* state of the accept loop of serve_uds
    shutdown   \* the daemon's cancellation token

opusVars == <<opus, tail, last, carry, seq>>
chanVars == <<chan, pos>>
wsVars == <<pc, rx, seen, peer, dials>>
vars == <<head, opusVars, chanVars, subs, unseen, wsVars, uds, shutdown>>

Listener(c) == IF c \in Uds THEN "uds" ELSE "tcp"
Behind(n) == IF head >= n THEN head - n ELSE 0

\* Handlers that hold a SubscriberGuard, and those that hold a receiver.
Guarded == {c \in Clients : pc[c] \in {"guarded", "upgrading", "open", "sending", "closing"}}
Receivers == {c \in Clients : pc[c] \in {"upgrading", "open", "sending", "closing"}}

Init ==
    /\ head = 0
    /\ opus = "top" /\ tail = 0 /\ last = "wait" /\ carry = <<>> /\ seq = 0
    /\ chan = <<>> /\ pos = 0
    /\ subs = 0 /\ unseen = FALSE
    /\ pc = [c \in Clients |-> "idle"]
    /\ rx = [c \in Clients |-> 0]
    /\ seen = [c \in Clients |-> {}]
    /\ peer = [c \in Clients |-> FALSE]
    /\ dials = [c \in Clients |-> 0]
    /\ uds = "accepting"
    /\ shutdown = FALSE

----------------------------------------------------------------------------
\* Admission.

\* What an upgrade request carries that the policies look at.
Requests == [proto : BOOLEAN, origin : {"none", "listed", "other"}]

\* enforce_subprotocol, then origin_ok, then the cap, as in the handlers.
Refusal(l, req) ==
    IF l \in Strict /\ ~req.proto THEN "bad_request"
    ELSE IF req.origin = "other" THEN "forbidden"
    ELSE IF MaxConn[l] # 0 /\ subs >= MaxConn[l] THEN "too_many"
    ELSE "none"

\* Mutant of TryAcquire: the closure bumps the count but reports "not
\* modified", so nobody waiting on the watch is woken.
TryAcquireSilent ==
    /\ subs' = subs + 1
    /\ UNCHANGED unseen

\* SubscriberGuard::try_acquire once admitted: the count and the
\* notification are one send_modify / send_if_modified.
TryAcquire ==
    /\ subs' = subs + 1
    /\ unseen' = TRUE

\* Mutant of DropGuard: the socket loop's early exit keeps its slot.
DropGuardForgotten(c) ==
    IF pc[c] = "closing" THEN UNCHANGED <<subs, unseen>>
    ELSE subs' = subs - 1 /\ unseen' = TRUE

\* SubscriberGuard::drop, on every way out of a handler.
DropGuard(c) == subs' = subs - 1 /\ unseen' = TRUE

\* A request reaches its handler and is refused or takes a slot.  Both accept
\* loops stop at the token; the UDS one also while it backs off or for good.
Dial(c, req) ==
    /\ pc[c] = "idle"
    /\ dials[c] < MaxDials
    /\ ~shutdown
    /\ c \in Uds => uds = "accepting"
    /\ dials' = [dials EXCEPT ![c] = @ + 1]
    /\ \/ /\ Refusal(Listener(c), req) # "none"
          /\ UNCHANGED <<pc, peer, subs, unseen>>
       \/ /\ Refusal(Listener(c), req) = "none"
          /\ TryAcquire
          /\ peer' = [peer EXCEPT ![c] = TRUE]
          /\ pc' = [pc EXCEPT ![c] = "guarded"]
    /\ UNCHANGED <<head, opusVars, chanVars, rx, seen,
                   uds, shutdown>>

\* audio_tx.subscribe(): the receiver starts at the channel's tail.
Subscribe(c) ==
    /\ pc[c] = "guarded"
    /\ rx' = [rx EXCEPT ![c] = pos]
    /\ seen' = [seen EXCEPT ![c] = {}]
    /\ pc' = [pc EXCEPT ![c] = "upgrading"]
    /\ UNCHANGED <<head, opusVars, chanVars, subs, unseen, peer, dials, uds, shutdown>>

\* The 101 response is out and on_upgrade runs handle_ws.
Upgraded(c) ==
    /\ pc[c] = "upgrading"
    /\ peer[c]
    /\ pc' = [pc EXCEPT ![c] = "open"]
    /\ UNCHANGED <<head, opusVars, chanVars, subs, unseen, rx, seen, peer,
                   dials, uds, shutdown>>

\* The connection is gone before the upgrade (the peer hung up, or serve_uds
\* dropped it at shutdown): the closure that owns guard and receiver is
\* dropped.
UpgradeFails(c) ==
    /\ pc[c] = "upgrading"
    /\ ~peer[c] \/ (shutdown /\ c \in Uds)
    /\ DropGuard(c)
    /\ pc' = [pc EXCEPT ![c] = "idle"]
    /\ UNCHANGED <<head, opusVars, chanVars, rx, seen, peer, dials, uds, shutdown>>

----------------------------------------------------------------------------
\* handle_ws.

Oldest == pos - Len(chan)
RecvReady(c) == rx[c] < pos

\* Mutant of RecvLagged: skip what was missed and keep the socket.
RecvLaggedCarriesOn(c) ==
    /\ pc[c] = "open"
    /\ rx[c] < Oldest
    /\ rx' = [rx EXCEPT ![c] = Oldest]
    /\ UNCHANGED <<head, opusVars, chanVars, subs, unseen, pc, seen, peer,
                   dials, uds, shutdown>>

\* recv() says Lagged(n): count it in the statistics, send Close 1011, leave
\* the loop.
RecvLagged(c) ==
    /\ pc[c] = "open"
    /\ rx[c] < Oldest
    /\ rx' = [rx EXCEPT ![c] = Oldest]
    /\ pc' = [pc EXCEPT ![c] = "closing"]
    /\ UNCHANGED <<head, opusVars, chanVars, subs, unseen, seen, peer, dials,
                   uds, shutdown>>

\* recv() returns a packet; socket.send is awaited in "sending".
Recv(c) ==
    /\ pc[c] = "open"
    /\ RecvReady(c) /\ rx[c] >= Oldest
    /\ seen' = [seen EXCEPT ![c] = @ \cup {chan[rx[c] - Oldest + 1].seq}]
    /\ rx' = [rx EXCEPT ![c] = @ + 1]
    /\ pc' = [pc EXCEPT ![c] = "sending"]
    /\ UNCHANGED <<head, opusVars, chanVars, subs, unseen, peer, dials, uds, shutdown>>

\* The socket accepted the message, however long the client took, or is gone.
SendDone(c) ==
    /\ pc[c] = "sending"
    /\ pc' = [pc EXCEPT ![c] = IF peer[c] THEN "open" ELSE "closing"]
    /\ UNCHANGED <<head, opusVars, chanVars, subs, unseen, rx, seen, peer,
                   dials, uds, shutdown>>

\* The biased select looks at the socket only when recv() would wait: the
\* peer's Close, an error or the end of the stream all end the loop.  Pings
\* and stray messages change nothing.
PeerMessage(c) ==
    /\ pc[c] = "open"
    /\ ~RecvReady(c)
    /\ ~peer[c]
    /\ pc' = [pc EXCEPT ![c] = "closing"]
    /\ UNCHANGED <<head, opusVars, chanVars, subs, unseen, rx, seen, peer,
                   dials, uds, shutdown>>

\* handle_ws returns: the close frame, when there is one, is best effort.
HandlerEnds(c) ==
    /\ pc[c] = "closing"
    /\ DropGuard(c)
    /\ pc' = [pc EXCEPT ![c] = "idle"]
    /\ peer' = [peer EXCEPT ![c] = FALSE]
    /\ UNCHANGED <<head, opusVars, chanVars, rx, seen, dials, uds, shutdown>>

\* The client goes away.
PeerGone(c) ==
    /\ peer[c]
    /\ peer' = [peer EXCEPT ![c] = FALSE]
    /\ UNCHANGED <<head, opusVars, chanVars, subs, unseen, pc, rx, seen,
                   dials, uds, shutdown>>

----------------------------------------------------------------------------
\* The listeners.

\* serve_uds: a transient accept error (descriptor pressure) backs off for
\* UDS_ACCEPT_BACKOFF and goes on, any other one ends the loop for good.  It
\* is only of interest while a client may still come that way.
AcceptError(transient) ==
    /\ uds = "accepting" /\ ~shutdown
    /\ \E c \in Uds : pc[c] = "idle" /\ dials[c] < MaxDials
    /\ uds' = IF transient THEN "backoff" ELSE "failed"
    /\ UNCHANGED <<head, opusVars, chanVars, subs, unseen, wsVars, shutdown>>

BackoffOver ==
    /\ uds = "backoff"
    /\ uds' = "accepting"
    /\ UNCHANGED <<head, opusVars, chanVars, subs, unseen, wsVars, shutdown>>

----------------------------------------------------------------------------
\* The Opus loop.

\* The capture side publishes one period.
Capture ==
    /\ head + Period <= MaxHead
    /\ head' = head + Period
    /\ UNCHANGED <<opusVars, chanVars, subs, unseen, wsVars, uds, shutdown>>

OpusStep(next) ==
    /\ opus' = next
    /\ UNCHANGED <<head, chanVars, subs, wsVars, uds, shutdown>>

\* Top of the outer loop: token, then the count.
OpusTop ==
    /\ opus = "top"
    /\ OpusStep(IF shutdown THEN "done" ELSE IF subs = 0 THEN "paused" ELSE "resume")
    /\ UNCHANGED <<unseen, tail, last, carry, seq>>

\* The paused select: token first, then changed().
OpusPaused ==
    /\ opus = "paused"
    /\ shutdown \/ unseen
    /\ OpusStep(IF shutdown THEN "done" ELSE "top")
    /\ unseen' = (shutdown /\ unseen)
    /\ UNCHANGED <<tail, last, carry, seq>>

\* OpusEngine::new() and seek_latest(BACKLOG_SAMPLES).
OpusResume ==
    /\ opus = "resume"
    /\ OpusStep("inner")
    /\ tail' = Behind(Backlog)
    /\ carry' = <<>>
    /\ UNCHANGED <<unseen, last, seq>>

\* Top of the active loop.
OpusInner ==
    /\ opus = "inner"
    /\ OpusStep(IF shutdown THEN "done" ELSE IF subs = 0 THEN "top"
                ELSE IF last = "wait" THEN "tick" ELSE "peek")
    /\ UNCHANGED <<unseen, tail, last, carry, seq>>

\* The active select: token, changed(), or ACTIVE_TICK.
OpusTick ==
    /\ opus = "tick"
    /\ OpusStep(IF shutdown THEN "done" ELSE IF unseen THEN "inner" ELSE "peek")
    /\ unseen' = (shutdown /\ unseen)
    /\ UNCHANGED <<tail, last, carry, seq>>

PeekStatus ==
    CASE head - tail > LagLimit -> "lagged"
      [] head - tail < Pull -> "wait"
      [] OTHER -> "ready"

\* peek_into says Wait: back to the top of the active loop.
OpusWait ==
    /\ opus = "peek" /\ PeekStatus = "wait"
    /\ OpusStep("inner")
    /\ last' = "wait"
    /\ UNCHANGED <<unseen, tail, carry, seq>>

\* Mutant of OpusLagged: the samples of the unfinished packet survive.
OpusLaggedKeepsCarry ==
    /\ opus = "peek" /\ PeekStatus = "lagged"
    /\ OpusStep("inner")
    /\ last' = "ready"
    /\ tail' = Behind(Backlog)
    /\ UNCHANGED <<unseen, seq, carry>>

\* Lagged: seek_latest and reset_after_discontinuity.
OpusLagged ==
    /\ opus = "peek" /\ PeekStatus = "lagged"
    /\ OpusStep("inner")
    /\ last' = "ready"
    /\ tail' = Behind(Backlog)
    /\ carry' = <<>>
    /\ UNCHANGED <<unseen, seq>>

\* Packets cut from the front of pcm while a whole frame is there; all carry
\* the position of the pull as their capture stamp.
Packets(pcm, at) ==
    [k \in 1..(Len(pcm) \div Frame) |->
        [seq |-> seq + k, stamp |-> at,
         pcm |-> SubSeq(pcm, (k - 1) * Frame + 1, k * Frame)]]

\* broadcast::Sender::send per packet: without receivers it is an error that
\* is ignored, and the channel keeps its position.
Send(packets) ==
    IF Receivers = {} THEN UNCHANGED chanVars
    ELSE /\ pos' = pos + Len(packets)
         /\ chan' = LET all == chan \o packets
                        n == Len(all)
                    IN SubSeq(all, IF n > ChanCap THEN n - ChanCap + 1 ELSE 1, n)

\* Ready: advance, encode every whole frame, publish.
OpusReady ==
    LET pcm == carry \o [i \in 1..Pull |-> tail + i - 1]
        packets == Packets(pcm, tail)
    IN
    /\ opus = "peek" /\ PeekStatus = "ready"
    /\ opus' = "inner"
    /\ last' = "ready"
    /\ tail' = tail + Pull
    /\ carry' = SubSeq(pcm, Len(packets) * Frame + 1, Len(pcm))
    /\ seq' = seq + Len(packets)
    /\ Send(packets)
    /\ UNCHANGED <<head, subs, unseen, wsVars, uds, shutdown>>

\* process_pcm refuses a non-finite sample or the encoder fails: run returns
\* the error and nobody starts it again.
OpusFails ==
    /\ opus = "peek" /\ PeekStatus = "ready"
    /\ opus' = "failed"
    /\ tail' = tail + Pull
    /\ UNCHANGED <<head, last, carry, seq, chanVars, subs, unseen,
                   wsVars, uds, shutdown>>

Shutdown ==
    /\ ~shutdown
    /\ shutdown' = TRUE
    /\ UNCHANGED <<head, opusVars, chanVars, subs, unseen, wsVars, uds>>

----------------------------------------------------------------------------

OpusNext ==
    \/ OpusTop \/ OpusPaused \/ OpusResume \/ OpusInner \/ OpusTick
    \/ OpusWait \/ OpusLagged \/ OpusReady

HandlerNext(c) ==
    \/ Subscribe(c) \/ Upgraded(c) \/ UpgradeFails(c)
    \/ Recv(c) \/ RecvLagged(c) \/ PeerMessage(c) \/ HandlerEnds(c)

Next ==
    \/ OpusNext
    \/ OpusFails
    \/ \E c \in Clients :
         \/ \E req \in Requests : Dial(c, req)
         \/ HandlerNext(c)
         \/ SendDone(c)
         \/ PeerGone(c)
    \/ \E transient \in BOOLEAN : AcceptError(transient)
    \/ BackoffOver
    \/ Capture
    \/ Shutdown

\* The loop and the handlers run on the runtime; a send to a client that is
\* gone ends with an error, one to a client that stopped reading need never
\* end, and nothing obliges anybody to connect or the microphone to produce.
Fairness ==
    /\ WF_vars(OpusNext)
    /\ \A c \in Clients : WF_vars(HandlerNext(c))
    /\ \A c \in Clients : WF_vars(SendDone(c) /\ ~peer[c])

Spec == Init /\ [][Next]_vars /\ Fairness

----------------------------------------------------------------------------
\* Properties.

\* The count the encoder and the caps go by is the number of handlers that
\* are alive, on every path out of one: refused, failed upgrade, lag, send
\* error, hang-up.  With a cap on every listener it never passes the largest.
SlotsExact ==
    /\ subs = Cardinality(Guarded)
    /\ (\A l \in {"tcp", "uds"} : MaxConn[l] # 0) =>
         \/ subs <= MaxConn["tcp"]
         \/ subs <= MaxConn["uds"]

\* A client either sees consecutive packets or is disconnected: the channel
\* dropping packets under a slow client, or packets sent while nobody was
\* subscribed, never show up as a silent gap inside one connection.
ClientSeesNoGap ==
    \A c \in Clients : \A a, b \in seen[c] :
        \A n \in a..b : n \in seen[c]

\* Each packet holds consecutive samples, none from before the last resync
\* or pause, and its capture stamp is at most one frame off its first sample.
PacketsUnbroken ==
    \A k \in 1..Len(chan) :
        LET p == chan[k].pcm IN
        /\ \A i \in 1..(Frame - 1) : p[i + 1] = p[i] + 1
        /\ chan[k].stamp - p[1] \in -Frame..(Frame - 1)

\* No lost wake-up: while somebody is subscribed the encoder leaves its pause,
\* however joining, leaving and the loop's two looks at the count interleave;
\* and it ends once the token is cancelled.
EncoderFollowsDemand ==
    /\ (subs > 0) ~> (subs = 0 \/ opus \in {"tick", "peek", "done", "failed"})
    /\ shutdown ~> (opus \in {"done", "failed"})

============================================================================
