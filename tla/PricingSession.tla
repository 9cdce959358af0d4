---------------------------- MODULE PricingSession ----------------------------
(***************************************************************************)
(* The task behind LiveClient (pricing_client.rs: run_loop,                *)
(* connect_and_run, run_session): it waits for a list of symbols that is   *)
(* not empty, connects, subscribes, follows the list, reads frames into    *)
(* the cache, and reconnects when the connection ends.                     *)
(*                                                                         *)
(* The pricing service and the network are the environment.  A connection  *)
(* is two queues; it may be closed or reset, which the client reads behind *)
(* what was sent before, or be lost, which nobody is told.                 *)
(*                                                                         *)
(* Time passes in ticks.  A timer that is due fires before the next tick,  *)
(* and a connection that is up delivers and heartbeats on time.            *)
(***************************************************************************)
EXTENDS Integers, Sequences

CONSTANTS Symbols,
          Heartbeat,       \* ticks between two pings of the service
          ReadDeadline,    \* READ_DEADLINE
          InitialBackoff,  \* LiveClientConfig::initial_backoff
          MaxBackoff,      \* LiveClientConfig::max_backoff
          MaxWire,         \* bound: frames in flight in one direction
          MaxPrices,       \* bound: price frames in a behaviour
          MaxLists,        \* bound: changes of the list
          MaxFaults        \* bound: failed connects and connections ended

ASSUME SessionAssumption ==
    /\ Heartbeat \in Nat \ {0}
    /\ ReadDeadline \in Nat /\ ReadDeadline > Heartbeat
    /\ InitialBackoff \in Nat \ {0}
    /\ MaxBackoff \in Nat /\ MaxBackoff >= InitialBackoff
    /\ {MaxWire, MaxPrices, MaxLists, MaxFaults} \subseteq Nat

VARIABLES
    assets,     \* the watch channel: the list of symbols
    unseen,     \* the session's receiver has not seen its latest value
    sender,     \* the channel's sender is alive
    pc,         \* where the task is
    sent,       \* the session's record of what it subscribed to
    next,       \* the list it is moving to
    deadline,   \* ticks until the read deadline
    backoff,    \* the next wait after an error
    sleep,      \* what is left of the present wait
    cached,     \* the cache: number of the frame held per symbol, or 0
    link,       \* the connection
    up,         \* frames to the service
    down,       \* frames from the service
    subs,       \* the service's view of the subscription
    beat,       \* ticks since its last ping
    produced,   \* price frames sent so far
    lists,      \* changes of the list so far
    faults,     \* faults so far
    quiet,      \* history: ticks since the session last read a frame
    newest,     \* history: the latest frame ever cached, per symbol
    disowned,   \* history: frames up to this one are disowned, per symbol
    since       \* history: the frame after which the subscription to the
                \* symbol has not been interrupted

listVars   == <<assets, sender, lists>>
localVars  == <<unseen, sent, next, deadline, quiet>>
clientVars == <<pc, backoff, sleep, localVars>>
cacheVars  == <<cached, newest>>
wireVars   == <<link, up, down, subs, beat, since>>
feedVars   == <<produced, disowned>>
vars == <<listVars, clientVars, cacheVars, wireVars, feedVars, faults>>

Price(s, n)  == [kind |-> "price", symbol |-> s, n |-> n]
Halt(s)      == [kind |-> "halt", symbol |-> s]
Bare(kind)   == [kind |-> kind]
Subscribe(S)   == [kind |-> "subscribe", assets |-> S]
Unsubscribe(S) == [kind |-> "unsubscribe", assets |-> S]

InSession == {"opening", "reading", "removing"}

Init ==
    /\ assets \in SUBSET Symbols
    /\ unseen = FALSE /\ sender = TRUE /\ lists = 0
    /\ pc = "waiting" /\ sent = {} /\ next = {}
    /\ deadline = 0 /\ quiet = 0
    /\ backoff = InitialBackoff /\ sleep = 0
    /\ cached = [s \in Symbols |-> 0] /\ newest = [s \in Symbols |-> 0]
    /\ link = "none" /\ up = <<>> /\ down = <<>> /\ subs = {} /\ beat = 0
    /\ produced = 0 /\ faults = 0
    /\ disowned = [s \in Symbols |-> 0] /\ since = [s \in Symbols |-> 0]

-----------------------------------------------------------------------------
(* The connection.                                                         *)

\* The subscription to the symbols of S is interrupted.
Interrupted(S) == [s \in Symbols |-> IF s \in S THEN produced ELSE since[s]]

\* The socket is dropped, with whatever was in flight.
DropSocket ==
    /\ link' = "none" /\ up' = <<>> /\ down' = <<>> /\ subs' = {} /\ beat' = 0
    /\ since' = Interrupted(Symbols)

\* A send succeeds into the wire, or into the void of a connection that is
\* gone and whose end the client has not read yet.
Send(frame) ==
    /\ IF link = "up" THEN /\ Len(up) < MaxWire
                           /\ up' = Append(up, frame)
                      ELSE up' = up
    /\ UNCHANGED <<link, down, subs, beat, since>>

SendIf(cond, frame) == IF cond THEN Send(frame) ELSE UNCHANGED wireVars

-----------------------------------------------------------------------------
(* run_loop and connect_and_run.                                           *)

\* The session's locals go with it.
Locals == unseen' = FALSE /\ sent' = {} /\ next' = {} /\ deadline' = 0 /\ quiet' = 0

\* Ok(()): the backoff starts afresh and there is no wait.
EndOk ==
    /\ pc' = "waiting"
    /\ backoff' = InitialBackoff
    /\ DropSocket /\ Locals
    /\ UNCHANGED sleep

EndErr ==
    /\ pc' = "backoff"
    /\ sleep' = backoff
    /\ DropSocket /\ Locals
    /\ UNCHANGED backoff

\* Pricing rejects an empty Subscribe: wait until there is something to ask.
ListNotEmpty ==
    /\ pc = "waiting"
    /\ assets # {}
    /\ pc' = "starting"
    /\ UNCHANGED <<listVars, localVars, backoff, sleep, cacheVars, wireVars,
                   feedVars, faults>>

\* The sender is gone: the list stays empty and the task returns.
TaskEnds ==
    /\ pc = "waiting"
    /\ assets = {} /\ ~sender
    /\ pc' = "ended"
    /\ UNCHANGED <<listVars, localVars, backoff, sleep, cacheVars, wireVars,
                   feedVars, faults>>

\* connect_and_run reads the list again before it connects.
StartConnect ==
    /\ pc = "starting"
    /\ IF assets = {}
       THEN EndOk
       ELSE /\ pc' = "connecting"
            /\ UNCHANGED <<localVars, backoff, sleep, wireVars>>
    /\ UNCHANGED <<listVars, cacheVars, feedVars, faults>>

Connected ==
    /\ pc = "connecting"
    /\ pc' = "opening"
    /\ link' = "up"
    /\ UNCHANGED <<listVars, localVars, backoff, sleep, up, down, subs, beat,
                   since, cacheVars, feedVars, faults>>

\* No id token, a header that does not build, a refused handshake.
ConnectFails ==
    /\ pc = "connecting"
    /\ faults < MaxFaults
    /\ faults' = faults + 1
    /\ EndErr
    /\ UNCHANGED <<listVars, cacheVars, feedVars>>

Doubled == IF 2 * backoff < MaxBackoff THEN 2 * backoff ELSE MaxBackoff

Wake ==
    /\ pc = "backoff"
    /\ sleep = 0
    /\ pc' = "waiting"
    /\ backoff' = Doubled
    /\ UNCHANGED <<listVars, localVars, sleep, cacheVars, wireVars, feedVars, faults>>

-----------------------------------------------------------------------------
(* run_session.                                                            *)

\* Mutant: the list is not tested again after the handshake.
OpenUnchecked ==
    /\ pc = "opening"
    /\ sent' = assets /\ unseen' = FALSE
    /\ Send(Subscribe(assets))
    /\ pc' = "reading" /\ deadline' = ReadDeadline /\ quiet' = 0
    /\ UNCHANGED <<listVars, next, backoff, sleep, cacheVars, feedVars, faults>>

\* Subscribe to the list as it is after the handshake.
Open ==
    /\ pc = "opening"
    /\ IF assets = {}
       THEN EndOk
       ELSE /\ sent' = assets /\ unseen' = FALSE
            /\ Send(Subscribe(assets))
            /\ pc' = "reading" /\ deadline' = ReadDeadline /\ quiet' = 0
            /\ UNCHANGED <<next, backoff, sleep>>
    /\ UNCHANGED <<listVars, cacheVars, feedVars, faults>>

\* Mutant: a change of the list moves the deadline, as a frame does.
FollowMoved ==
    /\ pc = "reading"
    /\ unseen /\ unseen' = FALSE
    /\ next' = assets
    /\ SendIf(assets \ sent # {}, Subscribe(assets \ sent))
    /\ pc' = "removing"
    /\ deadline' = ReadDeadline
    /\ UNCHANGED <<listVars, sent, quiet, backoff, sleep, cacheVars, feedVars, faults>>

\* The list has changed: ask for what is new, then give up what is gone.
\* Other tasks run while each send is awaited.
Follow ==
    /\ pc = "reading"
    /\ unseen /\ unseen' = FALSE
    /\ next' = assets
    /\ SendIf(assets \ sent # {}, Subscribe(assets \ sent))
    /\ pc' = "removing"
    /\ UNCHANGED <<listVars, sent, deadline, quiet, backoff, sleep, cacheVars,
                   feedVars, faults>>

\* Mutant: the list is read again for the record of what was sent.
FollowedLatest ==
    /\ pc = "removing"
    /\ IF next = {}
       THEN EndOk
       ELSE /\ SendIf(sent \ next # {}, Unsubscribe(sent \ next))
            /\ sent' = assets /\ next' = {}
            /\ pc' = "reading"
            /\ UNCHANGED <<unseen, deadline, quiet, backoff, sleep>>
    /\ UNCHANGED <<listVars, cacheVars, feedVars, faults>>

\* With nothing left the session ends; the Unsubscribe goes with the socket.
Followed ==
    /\ pc = "removing"
    /\ IF next = {}
       THEN EndOk
       ELSE /\ SendIf(sent \ next # {}, Unsubscribe(sent \ next))
            /\ sent' = next /\ next' = {}
            /\ pc' = "reading"
            /\ UNCHANGED <<unseen, deadline, quiet, backoff, sleep>>
    /\ UNCHANGED <<listVars, cacheVars, feedVars, faults>>

\* One of the sends above fails.
SendFails ==
    /\ link \in {"lost", "closing"}
    /\ \/ pc = "opening" /\ assets # {}
       \/ pc = "reading" /\ unseen /\ assets \ sent # {}
       \/ pc = "removing" /\ sent \ next # {}
    /\ EndErr
    /\ UNCHANGED <<listVars, cacheVars, feedVars, faults>>

\* Mutant: the deadline is polled only while the list may still change.
DeadlineWhileWatching ==
    /\ pc = "reading"
    /\ deadline = 0 /\ sender
    /\ EndErr
    /\ UNCHANGED <<listVars, cacheVars, feedVars, faults>>

DeadlineFires ==
    /\ pc = "reading"
    /\ deadline = 0
    /\ EndErr
    /\ UNCHANGED <<listVars, cacheVars, feedVars, faults>>

\* An inbound frame moves the deadline.
FrameRead ==
    /\ pc = "reading"
    /\ down # <<>>
    /\ deadline' = ReadDeadline /\ quiet' = 0
    /\ UNCHANGED <<listVars, pc, unseen, sent, next, backoff, sleep, feedVars, faults>>

\* A frame that asks for no reply has been taken off the wire.
Taken == down' = Tail(down) /\ UNCHANGED <<link, up, subs, beat, since>>

\* Mutant: the price is cached whether or not its symbol is listed.
ReadAnyPrice ==
    /\ FrameRead
    /\ Head(down).kind = "price"
    /\ cached' = [cached EXCEPT ![Head(down).symbol] = Head(down).n]
    /\ newest' = [newest EXCEPT ![Head(down).symbol] = Head(down).n]
    /\ Taken

\* A price for a symbol that is not listed is dropped.
ReadPrice ==
    /\ FrameRead
    /\ Head(down).kind = "price"
    /\ LET s == Head(down).symbol
           n == Head(down).n
       IN  IF s \in assets
           THEN /\ cached' = [cached EXCEPT ![s] = n]
                /\ newest' = [newest EXCEPT ![s] = n]
           ELSE UNCHANGED cacheVars
    /\ Taken

\* Mutant: only a symbol that is still listed is evicted, as with a price.
ReadListedHalt ==
    /\ FrameRead
    /\ Head(down).kind = "halt"
    /\ cached' = IF Head(down).symbol \in sent
                 THEN [cached EXCEPT ![Head(down).symbol] = 0] ELSE cached
    /\ Taken
    /\ UNCHANGED newest

\* A halt or a stale-source error; on one chain both evict the symbol.
ReadHalt ==
    /\ FrameRead
    /\ Head(down).kind = "halt"
    /\ cached' = [cached EXCEPT ![Head(down).symbol] = 0]
    /\ Taken
    /\ UNCHANGED newest

\* Mutant: a heartbeat does not move the deadline, only data does.
ReadPingOnly ==
    /\ pc = "reading" /\ down # <<>>
    /\ Head(down).kind = "ping"
    /\ down' = Tail(down)
    /\ UNCHANGED <<listVars, clientVars, cacheVars, link, up, subs, beat, since,
                   feedVars, faults>>

\* The reply is a pong, whose failure to go out is ignored.
ReadPing ==
    /\ FrameRead
    /\ Head(down).kind = "ping"
    /\ IF link = "up" THEN /\ Len(up) < MaxWire
                           /\ up' = Append(up, Bare("pong"))
                      ELSE up' = up
    /\ down' = Tail(down)
    /\ UNCHANGED <<link, subs, beat, since, cacheVars>>

\* A resume, another error code, a text message, bytes that do not decode.
ReadOther ==
    /\ FrameRead
    /\ Head(down).kind = "other"
    /\ Taken
    /\ UNCHANGED cacheVars

\* The stream ends after a close, and with an error after a reset.
ReadEnd ==
    /\ pc = "reading"
    /\ down # <<>>
    /\ \/ Head(down).kind = "close" /\ EndOk
       \/ Head(down).kind = "reset" /\ EndErr
    /\ UNCHANGED <<listVars, cacheVars, feedVars, faults>>

Read == ReadPrice \/ ReadHalt \/ ReadPing \/ ReadOther \/ ReadEnd

ClientStep ==
    \/ ListNotEmpty \/ TaskEnds \/ StartConnect \/ Wake
    \/ Open \/ Follow \/ Followed \/ SendFails \/ DeadlineFires \/ Read

-----------------------------------------------------------------------------
(* The rest of the server: the reloader sends a list and forgets symbols   *)
(* it has removed or moved to another address.                             *)

SetAssets(S) ==
    /\ sender
    /\ lists < MaxLists /\ lists' = lists + 1
    /\ assets' = S
    /\ unseen' = (pc \in InSession)
    /\ UNCHANGED <<sender, pc, sent, next, deadline, quiet, backoff, sleep,
                   cacheVars, wireVars, feedVars, faults>>

\* The reload task is gone, or there never was one.
DropSender ==
    /\ sender
    /\ sender' = FALSE
    /\ UNCHANGED <<assets, lists, clientVars, cacheVars, wireVars, feedVars, faults>>

Forget(s) ==
    /\ cached[s] # 0
    /\ cached' = [cached EXCEPT ![s] = 0]
    /\ UNCHANGED <<newest, listVars, clientVars, wireVars, feedVars, faults>>

-----------------------------------------------------------------------------
(* The pricing service and the network.                                    *)

Push(frame) == Len(down) < MaxWire /\ down' = Append(down, frame)

ServiceReceives ==
    /\ link = "up" /\ up # <<>>
    /\ up' = Tail(up)
    /\ LET f == Head(up)
       IN  CASE f.kind = "subscribe" ->
                  subs' = subs \cup f.assets /\ UNCHANGED since
             [] f.kind = "unsubscribe" ->
                  subs' = subs \ f.assets /\ since' = Interrupted(f.assets)
             [] f.kind = "pong" -> UNCHANGED <<subs, since>>
    /\ UNCHANGED <<listVars, clientVars, cacheVars, link, down, beat, feedVars,
                   faults>>

ServicePrices(s) ==
    /\ link = "up" /\ s \in subs
    /\ produced < MaxPrices
    /\ produced' = produced + 1
    /\ Push(Price(s, produced'))
    /\ UNCHANGED <<listVars, clientVars, cacheVars, link, up, subs, beat, since,
                   disowned, faults>>

\* The service disowns what it has sent for s; a subscriber is told.
Disown(s) ==
    /\ disowned[s] < produced
    /\ disowned' = [disowned EXCEPT ![s] = produced]
    /\ IF link = "up" /\ s \in subs THEN Push(Halt(s)) ELSE UNCHANGED down
    /\ UNCHANGED <<listVars, clientVars, cacheVars, link, up, subs, beat, since,
                   produced, faults>>

ServicePings ==
    /\ link = "up" /\ beat = Heartbeat
    /\ beat' = 0
    /\ Push(Bare("ping"))
    /\ UNCHANGED <<listVars, clientVars, cacheVars, link, up, subs, since, feedVars,
                   faults>>

ServiceSendsOther ==
    /\ link = "up"
    /\ Push(Bare("other"))
    /\ UNCHANGED <<listVars, clientVars, cacheVars, link, up, subs, beat, since,
                   feedVars, faults>>

\* The service goes away, properly or not; what it sent before is read first.
ServiceCloses(kind) ==
    /\ link = "up" /\ faults < MaxFaults
    /\ faults' = faults + 1
    /\ link' = "closing"
    /\ down' = Append(down, Bare(kind))
    /\ up' = <<>> /\ subs' = {} /\ beat' = 0
    /\ since' = Interrupted(Symbols)
    /\ UNCHANGED <<listVars, clientVars, cacheVars, feedVars>>

\* The path breaks and the close never reaches the client.
LoseLink ==
    /\ link = "up" /\ faults < MaxFaults
    /\ faults' = faults + 1
    /\ link' = "lost"
    /\ up' = <<>> /\ down' = <<>> /\ subs' = {} /\ beat' = 0
    /\ since' = Interrupted(Symbols)
    /\ UNCHANGED <<listVars, clientVars, cacheVars, feedVars>>

\* Time moves on when no timer is due and a connection that is up has
\* delivered; a lost one delivers nothing.
Tick ==
    /\ \/ /\ pc = "reading"
          /\ deadline > 0
          /\ down = <<>>
          /\ link = "up" => up = <<>> /\ beat < Heartbeat
          /\ deadline' = deadline - 1 /\ quiet' = quiet + 1
          /\ beat' = IF link = "up" THEN beat + 1 ELSE beat
          /\ UNCHANGED sleep
       \/ /\ pc = "backoff"
          /\ sleep > 0
          /\ sleep' = sleep - 1
          /\ UNCHANGED <<deadline, quiet, beat>>
    /\ UNCHANGED <<listVars, pc, unseen, sent, next, backoff, cacheVars, link, up,
                   down, subs, since, feedVars, faults>>

-----------------------------------------------------------------------------
Environment ==
    \/ \E S \in SUBSET Symbols : SetAssets(S)
    \/ DropSender
    \/ \E s \in Symbols : Forget(s) \/ ServicePrices(s) \/ Disown(s)
    \/ ServiceReceives \/ ServicePings \/ ServiceSendsOther \/ LoseLink
    \/ \E kind \in {"close", "reset"} : ServiceCloses(kind)
    \/ Connected \/ ConnectFails \/ Tick

Next == ClientStep \/ Environment

Spec == Init /\ [][Next]_vars

\* The task is polled, and select! picks a branch that is ready again and again
\* in the end; a connect comes to an end; the service reads what it is sent and
\* heartbeats; time passes.
FairSpec == /\ Spec
            /\ WF_vars(ClientStep)
            /\ SF_vars(Follow) /\ WF_vars(DeadlineFires)
            /\ WF_vars(Connected \/ ConnectFails)
            /\ WF_vars(ServiceReceives) /\ WF_vars(ServicePings)
            /\ WF_vars(Tick)

-----------------------------------------------------------------------------
\* "Pricing rejects empty Subscribe frames": none is ever sent, although the
\* list may become empty while the handshake or a send is awaited.
NoEmptySubscribe == \A i \in DOMAIN up : up[i].kind # "pong" => up[i].assets # {}

\* The service's view once it has read what is on its way: the last frame
\* that names a symbol decides.
Names(i, s) == up[i].kind # "pong" /\ s \in up[i].assets

ViewAhead(s) ==
    IF \E i \in DOMAIN up : Names(i, s)
    THEN \E i \in DOMAIN up :
            /\ Names(i, s) /\ up[i].kind = "subscribe"
            /\ \A j \in DOMAIN up : j > i => ~Names(j, s)
    ELSE s \in subs

\* While the connection is up the service's view is, up to the frames on
\* their way, what the session believes it has subscribed to; a list that
\* changes again while a send is awaited does not part them.
ServiceFollowsSession ==
    link = "up" =>
       /\ pc = "reading"  => \A s \in Symbols : ViewAhead(s) <=> s \in sent
       /\ pc = "removing" => \A s \in Symbols : ViewAhead(s) <=> s \in sent \cup next

\* "Only an inbound frame moves the deadline": a session that reads nothing,
\* on a path that broke without a word, lasts no longer than READ_DEADLINE,
\* however often the list changes meanwhile.
SilenceEndsSession == pc \in {"reading", "removing"} => quiet <= ReadDeadline

\* "A healthy wire always carries a frame at least every 15s": the deadline
\* never ends a session whose connection is up.
HealthyWireKept == pc \in {"reading", "removing"} /\ link = "up" => deadline > 0

\* A cached price that the service has disowned is one whose halt is on the
\* way, or one whose subscription was interrupted after it was sent: only an
\* interruption loses a halt.
DisownedIsAnnounced ==
    \A s \in Symbols :
       /\ cached[s] > since[s]
       /\ cached[s] <= disowned[s]
       => \E i \in DOMAIN down : down[i] = Halt(s)

Feed == INSTANCE PriceFeed

\* The task keeps the promise of PriceFeed: whatever breaks, is dropped or is
\* reconnected, prices are cached in the producer's order and for listed
\* symbols only.
KeepsFeedPromise == Feed!Spec

\* Once lists and faults are over, the service's view is the list, and
\* without a list there is no connection.
SubscriptionConverges ==
    <>[](IF assets = {} THEN link = "none" ELSE link = "up" /\ subs = assets)
=============================================================================
