------------------------- MODULE PricingSessionProofs -------------------------
(***************************************************************************)
(* The pricing session for any symbols, deadlines, bounds and faults: what *)
(* the service and the session believe of each other, how long silence is  *)
(* borne, which disowned price may still be cached, and that the task      *)
(* implements PriceFeed.                                                   *)
(*                                                                         *)
(* The invariant has four parts that do not need each other's details:     *)
(* Wire (what is on the wire, and where there is one), Clocks, View and    *)
(* Prices.                                                                 *)
(***************************************************************************)
EXTENDS PricingSession, TLAPS

UpFrames == {Bare("pong")}
            \cup {Subscribe(S) : S \in (SUBSET Symbols) \ {{}}}
            \cup {Unsubscribe(S) : S \in (SUBSET Symbols) \ {{}}}

DownFrames == {Price(s, n) : s \in Symbols, n \in 1 .. MaxPrices}
              \cup {Halt(s) : s \in Symbols}
              \cup {Bare(kind) : kind \in {"ping", "other", "close", "reset"}}

Places == {"waiting", "starting", "connecting", "backoff", "ended"} \cup InSession

\* There is a connection only within a session, its wire carries well-formed
\* frames, and a session that opens finds it empty towards the service.
Wire ==
    /\ pc \in Places
    /\ link \in {"none", "up", "lost", "closing"}
    /\ up \in Seq(UpFrames) /\ down \in Seq(DownFrames)
    /\ produced \in 0 .. MaxPrices
    /\ assets \subseteq Symbols /\ sent \subseteq Symbols /\ next \subseteq Symbols
    /\ subs \subseteq Symbols
    /\ pc \notin InSession => link = "none" /\ down = <<>>
    /\ link # "up" \/ pc = "opening" => up = <<>> /\ subs = {}

\* The deadline counts down what is left of the silence that is allowed, and a
\* connection that is up is never silent for longer than a heartbeat.
Clocks ==
    /\ deadline \in Nat /\ quiet \in Nat /\ beat \in 0 .. Heartbeat
    /\ pc \in {"reading", "removing"} =>
          /\ deadline + quiet = ReadDeadline
          /\ link = "up" => /\ quiet <= Heartbeat
                            /\ down = <<>> => quiet <= beat

\* Frame f names symbol s in a subscription.
NamesIn(f, s) == f.kind # "pong" /\ s \in f.assets

\* ViewAhead over values: the frames q on their way to a service whose view is v.
View(q, v, s) ==
    IF \E i \in DOMAIN q : NamesIn(q[i], s)
    THEN \E i \in DOMAIN q : /\ NamesIn(q[i], s) /\ q[i].kind = "subscribe"
                             /\ \A j \in DOMAIN q : j > i => ~NamesIn(q[j], s)
    ELSE s \in v

\* What the session believes it has subscribed to.
Believed == IF pc = "removing" THEN sent \cup next ELSE sent

Views == link = "up" /\ pc \in {"reading", "removing"} =>
            \A s \in Symbols : View(up, subs, s) <=> s \in Believed

IsPrice(f, s) == f.kind = "price" /\ f.symbol = s

\* For symbol s, frames q on their way to the session, view v of the service,
\* latest frame nw ever cached, last disowned d, last interruption si, produced
\* pr: prices come in the producer's order and newer than any cached before, and
\* behind one that is disowned comes its halt, unless the subscription was
\* interrupted after the price was sent.
QueueOK(s, q, v, nw, d, si, pr) ==
    \A i \in DOMAIN q : IsPrice(q[i], s) =>
       /\ nw < q[i].n /\ q[i].n <= pr
       /\ \A j \in DOMAIN q : i < j /\ IsPrice(q[j], s) => q[i].n < q[j].n
       /\ s \notin v => q[i].n <= si
       /\ si < q[i].n /\ q[i].n <= d => \E j \in DOMAIN q : i < j /\ q[j] = Halt(s)

\* The same of the frame c that is cached.
HeldOK(s, q, v, c, d, si) ==
    /\ s \notin v => c <= si
    /\ si < c /\ c <= d => \E i \in DOMAIN q : q[i] = Halt(s)

Prices ==
    /\ cached \in [Symbols -> 0 .. produced] /\ newest \in [Symbols -> 0 .. produced]
    /\ disowned \in [Symbols -> 0 .. produced] /\ since \in [Symbols -> 0 .. produced]
    /\ \A s \in Symbols :
          /\ QueueOK(s, down, subs, newest[s], disowned[s], since[s], produced)
          /\ HeldOK(s, down, subs, cached[s], disowned[s], since[s])

SessionInv == Wire /\ Clocks /\ Views /\ Prices

-----------------------------------------------------------------------------
(* Frames and queues.                                                       *)

LEMMA UpFrame ==
    ASSUME NEW f \in UpFrames
    PROVE  /\ f.kind \in {"pong", "subscribe", "unsubscribe"}
           /\ f.kind # "pong" => f.assets # {} /\ f.assets \subseteq Symbols
<1>1. CASE f = Bare("pong")
    BY <1>1 DEF Bare
<1>2. CASE \E S \in (SUBSET Symbols) \ {{}} : f = Subscribe(S)
    BY <1>2 DEF Subscribe
<1>3. CASE \E S \in (SUBSET Symbols) \ {{}} : f = Unsubscribe(S)
    BY <1>3 DEF Unsubscribe
<1> QED BY <1>1, <1>2, <1>3 DEF UpFrames

LEMMA DownFrame ==
    ASSUME NEW f \in DownFrames
    PROVE  /\ f.kind \in {"price", "halt"} => f.symbol \in Symbols
           /\ f.kind = "price" => f.n \in 1 .. MaxPrices
           /\ f.kind = "halt" => f = Halt(f.symbol)
           /\ \A s : f = Halt(s) => f.kind = "halt" /\ f.symbol = s
<1>1. CASE \E s \in Symbols, n \in 1 .. MaxPrices : f = Price(s, n)
    BY <1>1 DEF Price, Halt
<1>2. CASE \E s \in Symbols : f = Halt(s)
    BY <1>2 DEF Halt
<1>3. CASE \E kind \in {"ping", "other", "close", "reset"} : f = Bare(kind)
    BY <1>3 DEF Bare, Halt
<1> QED BY <1>1, <1>2, <1>3 DEF DownFrames

LEMMA NewDownFrames ==
    /\ \A s \in Symbols : Halt(s) \in DownFrames
    /\ \A s \in Symbols, n \in 1 .. MaxPrices : Price(s, n) \in DownFrames
    /\ \A kind \in {"ping", "other", "close", "reset"} :
          Bare(kind) \in DownFrames /\ Bare(kind).kind = kind
BY DEF DownFrames, Bare

LEMMA Appended ==
    ASSUME NEW S, NEW q \in Seq(S), NEW x \in S
    PROVE  /\ Append(q, x) \in Seq(S) /\ Append(q, x) # <<>>
           /\ DOMAIN q = 1 .. Len(q) /\ Len(q) \in Nat
           /\ DOMAIN Append(q, x) = 1 .. (Len(q) + 1)
           /\ \A i \in DOMAIN q : Append(q, x)[i] = q[i]
           /\ Append(q, x)[Len(q) + 1] = x
OBVIOUS

LEMMA Tailed ==
    ASSUME NEW S, NEW q \in Seq(S), q # <<>>
    PROVE  /\ Tail(q) \in Seq(S) /\ Head(q) \in S /\ Head(q) = q[1]
           /\ DOMAIN q = 1 .. Len(q) /\ Len(q) \in Nat \ {0}
           /\ DOMAIN Tail(q) = 1 .. (Len(q) - 1)
           /\ \A i \in DOMAIN Tail(q) : Tail(q)[i] = q[i + 1]
OBVIOUS

-----------------------------------------------------------------------------
(* The service's view.                                                      *)

\* The frame behind all others decides on the symbols it names.
LEMMA ViewAppend ==
    ASSUME NEW q \in Seq(UpFrames), NEW f \in UpFrames, NEW v, NEW s
    PROVE  View(Append(q, f), v, s)
              <=> IF NamesIn(f, s) THEN f.kind = "subscribe" ELSE View(q, v, s)
<1> DEFINE r == Append(q, f)
           n == Len(q) + 1
<1>1. /\ DOMAIN q = 1 .. Len(q) /\ Len(q) \in Nat /\ DOMAIN r = 1 .. n
      /\ \A i \in DOMAIN q : r[i] = q[i]
      /\ r[n] = f
    BY Appended
<1> HIDE DEF r
<1>2. CASE NamesIn(f, s)
    <2>1. View(r, v, s) <=> \E i \in DOMAIN r : /\ NamesIn(r[i], s) /\ r[i].kind = "subscribe"
                                               /\ \A j \in DOMAIN r : j > i => ~NamesIn(r[j], s)
        BY <1>1, <1>2 DEF View
    <2>2. \A i \in DOMAIN r : (\A j \in DOMAIN r : j > i => ~NamesIn(r[j], s)) => i = n
        BY <1>1, <1>2
    <2>3. \A j \in DOMAIN r : ~(j > n)
        BY <1>1
    <2> QED BY <1>1, <1>2, <2>1, <2>2, <2>3 DEF r
<1>3. CASE ~NamesIn(f, s)
    <2>1. \A i \in DOMAIN r : NamesIn(r[i], s) <=> i \in DOMAIN q /\ NamesIn(q[i], s)
        BY <1>1, <1>3
    <2>2. \A i \in DOMAIN q : i \in DOMAIN r /\ r[i] = q[i]
        BY <1>1
    <2>3. View(r, v, s) <=> View(q, v, s)
        BY <2>1, <2>2 DEF View
    <2> QED BY <1>3, <2>3 DEF r
<1> QED BY <1>2, <1>3

\* Reading the first frame does not change what the view will be.
LEMMA ViewTail ==
    ASSUME NEW q \in Seq(UpFrames), q # <<>>, NEW v, NEW w, NEW s,
           s \in w <=> IF NamesIn(Head(q), s) THEN Head(q).kind = "subscribe" ELSE s \in v
    PROVE  View(Tail(q), w, s) <=> View(q, v, s)
<1> DEFINE r == Tail(q)
<1>1. /\ DOMAIN q = 1 .. Len(q) /\ Len(q) \in Nat \ {0} /\ Head(q) = q[1]
      /\ DOMAIN r = 1 .. (Len(q) - 1)
      /\ \A i \in DOMAIN r : r[i] = q[i + 1]
    BY Tailed
<1> HIDE DEF r
<1>2. /\ \A i \in DOMAIN r : i + 1 \in DOMAIN q /\ i + 1 > 1 /\ i \in Nat
      /\ \A i \in DOMAIN q : i \in Nat /\ (i # 1 => i - 1 \in DOMAIN r /\ r[i - 1] = q[i])
    BY <1>1
<1>3. CASE \E i \in DOMAIN r : NamesIn(r[i], s)
    <2>1. PICK k \in DOMAIN r : NamesIn(r[k], s)
        BY <1>3
    <2>2. k + 1 \in DOMAIN q /\ NamesIn(q[k + 1], s) /\ k + 1 > 1
        BY <1>1, <1>2, <2>1
    <2>3. ASSUME NEW i \in DOMAIN r, NamesIn(r[i], s), r[i].kind = "subscribe",
                 \A j \in DOMAIN r : j > i => ~NamesIn(r[j], s)
          PROVE  View(q, v, s)
        <3>1. i + 1 \in DOMAIN q /\ q[i + 1] = r[i] /\ i \in Nat
            BY <1>1, <1>2
        <3>2. ASSUME NEW j \in DOMAIN q, j > i + 1 PROVE ~NamesIn(q[j], s)
            <4>1. j - 1 \in DOMAIN r /\ r[j - 1] = q[j] /\ j - 1 > i
                BY <1>2, <3>1, <3>2
            <4> QED BY <2>3, <4>1
        <3> QED BY <2>2, <2>3, <3>1, <3>2 DEF View
    <2>4. ASSUME NEW i \in DOMAIN q, NamesIn(q[i], s), q[i].kind = "subscribe",
                 \A j \in DOMAIN q : j > i => ~NamesIn(q[j], s)
          PROVE  View(r, w, s)
        <3>1. i # 1
            BY <2>2, <2>4
        <3>2. i - 1 \in DOMAIN r /\ r[i - 1] = q[i] /\ i \in Nat
            BY <1>2, <3>1
        <3>3. ASSUME NEW j \in DOMAIN r, j > i - 1 PROVE ~NamesIn(r[j], s)
            <4>1. j + 1 \in DOMAIN q /\ r[j] = q[j + 1] /\ j + 1 > i
                BY <1>1, <1>2, <3>2, <3>3
            <4> QED BY <2>4, <4>1
        <3> DEFINE k1 == i - 1
        <3>4. k1 \in DOMAIN r /\ NamesIn(r[k1], s) /\ r[k1].kind = "subscribe"
              /\ \A j \in DOMAIN r : j > k1 => ~NamesIn(r[j], s)
            BY <2>4, <3>2, <3>3
        <3> HIDE DEF k1
        <3> QED BY <1>3, <3>4 DEF View
    <2>5. View(r, w, s) => \E i \in DOMAIN r :
                             /\ NamesIn(r[i], s) /\ r[i].kind = "subscribe"
                             /\ \A j \in DOMAIN r : j > i => ~NamesIn(r[j], s)
        BY <1>3 DEF View
    <2>6. View(q, v, s) => \E i \in DOMAIN q :
                             /\ NamesIn(q[i], s) /\ q[i].kind = "subscribe"
                             /\ \A j \in DOMAIN q : j > i => ~NamesIn(q[j], s)
        BY <2>2 DEF View
    <2> HIDE DEF View
    <2>7. View(r, w, s) => View(q, v, s)
        BY <2>3, <2>5
    <2>8. View(q, v, s) => View(r, w, s)
        BY <2>4, <2>6
    <2> QED BY <2>7, <2>8 DEF r
<1>4. CASE \A i \in DOMAIN r : ~NamesIn(r[i], s)
    <2>1. View(r, w, s) <=> s \in w
        BY <1>4 DEF View
    <2>2. \A i \in DOMAIN q : NamesIn(q[i], s) => i = 1
        BY <1>2, <1>4
    <2>3. CASE NamesIn(q[1], s)
        <3>1. 1 \in DOMAIN q /\ \A j \in DOMAIN q : j > 1 => ~NamesIn(q[j], s)
            BY <1>1, <2>2
        <3>2. View(q, v, s) <=> q[1].kind = "subscribe"
            BY <2>2, <2>3, <3>1 DEF View
        <3> QED BY <1>1, <2>1, <2>3, <3>2 DEF r
    <2>4. CASE ~NamesIn(q[1], s)
        <3>1. View(q, v, s) <=> s \in v
            BY <2>2, <2>4 DEF View
        <3> QED BY <1>1, <2>1, <2>4, <3>1 DEF r
    <2> QED BY <2>3, <2>4
<1> QED BY <1>3, <1>4 DEF r

LEMMA ViewEmpty == ASSUME NEW v, NEW s PROVE View(<<>>, v, s) <=> s \in v
BY DEF View

LEMMA ViewIsAhead == ASSUME NEW s PROVE ViewAhead(s) <=> View(up, subs, s)
BY DEF ViewAhead, View, Names, NamesIn

-----------------------------------------------------------------------------
(* Kinds of steps.                                                          *)

\* The session is over, or none was begun: the socket goes with the locals.
Ended == /\ pc' \in {"waiting", "backoff"}
         /\ DropSocket /\ Locals
         /\ UNCHANGED <<assets, cacheVars, feedVars>>

\* Outside a session the task moves and nothing else does.
Outside == /\ pc \notin InSession
           /\ pc' \in Places \ InSession
           /\ UNCHANGED <<assets, localVars, cacheVars, wireVars, feedVars>>

LEMMA EndedSteps ==
    /\ EndOk \/ EndErr => pc' \in {"waiting", "backoff"} /\ DropSocket /\ Locals
    /\ ConnectFails \/ SendFails \/ DeadlineFires \/ ReadEnd => Ended
    /\ StartConnect /\ assets = {} => Ended
    /\ Open /\ assets = {} => Ended
    /\ Followed /\ next = {} => Ended
BY DEF EndOk, EndErr, Ended, ConnectFails, SendFails, DeadlineFires, ReadEnd,
       StartConnect, Open, Followed, listVars

LEMMA OutsideSteps ==
    /\ ListNotEmpty \/ TaskEnds \/ Wake => Outside
    /\ StartConnect /\ assets # {} => Outside
BY DEF Outside, ListNotEmpty, TaskEnds, Wake, StartConnect, InSession, Places, listVars

\* The steps, with those that end a session or stay outside one taken together.
LEMMA Steps ==
    ASSUME [Next]_vars
    PROVE  \/ Ended \/ Outside \/ Connected
           \/ Open /\ assets # {}
           \/ Follow
           \/ Followed /\ next # {}
           \/ ReadPrice \/ ReadHalt \/ ReadPing \/ ReadOther
           \/ \E S \in SUBSET Symbols : SetAssets(S)
           \/ DropSender
           \/ \E s \in Symbols : Forget(s) \/ ServicePrices(s) \/ Disown(s)
           \/ ServiceReceives \/ ServicePings \/ ServiceSendsOther \/ LoseLink
           \/ \E kind \in {"close", "reset"} : ServiceCloses(kind)
           \/ Tick
           \/ UNCHANGED vars
<1>1. CASE ClientStep
    BY <1>1, EndedSteps, OutsideSteps DEF ClientStep, Read
<1>2. CASE Environment
    BY <1>2, EndedSteps DEF Environment
<1> QED BY <1>1, <1>2 DEF Next

-----------------------------------------------------------------------------
LEMMA SendWire ==
    ASSUME Wire, NEW f \in UpFrames, Send(f)
    PROVE  up' \in Seq(UpFrames) /\ (link # "up" => up' = <<>>)
           /\ UNCHANGED <<link, down, subs, beat, since>>
<1>1. up \in Seq(UpFrames) /\ (link # "up" => up = <<>>)
    BY DEF Wire
<1>2. Append(up, f) \in Seq(UpFrames)
    BY <1>1, Appended
<1> QED BY <1>1, <1>2 DEF Send

LEMMA WireNext == Wire /\ [Next]_vars => Wire'
<1> SUFFICES ASSUME Wire, [Next]_vars PROVE Wire'
    OBVIOUS
<1>1. CASE Ended
    BY <1>1 DEF Ended, Wire, DropSocket, Locals, Places, InSession, feedVars
<1>2. CASE Outside
    BY <1>2 DEF Outside, Wire, localVars, wireVars, feedVars
<1>3. CASE Connected
    BY <1>3 DEF Connected, Wire, listVars, localVars, InSession, Places, feedVars
<1>4. CASE Open /\ assets # {}
    <2>1. Subscribe(assets) \in UpFrames
        BY <1>4 DEF UpFrames, Wire
    <2>2. Send(Subscribe(assets)) /\ pc' = "reading" /\ sent' = assets
          /\ UNCHANGED <<assets, next, produced>>
        BY <1>4 DEF Open, listVars, feedVars
    <2> QED BY <1>4, <2>1, <2>2, SendWire DEF Wire, Open, Places, InSession
<1>5. CASE Follow
    <2>1. /\ SendIf(assets \ sent # {}, Subscribe(assets \ sent)) /\ pc = "reading"
          /\ pc' = "removing" /\ next' = assets /\ UNCHANGED <<assets, sent, produced>>
        BY <1>5 DEF Follow, listVars, feedVars
    <2>2. CASE assets \ sent # {}
        <3>1. Subscribe(assets \ sent) \in UpFrames /\ Send(Subscribe(assets \ sent))
            BY <2>1, <2>2 DEF UpFrames, Wire, SendIf
        <3> QED BY <2>1, <3>1, SendWire DEF Wire, Places, InSession
    <2>3. CASE assets \ sent = {}
        BY <2>1, <2>3 DEF Wire, Places, InSession, SendIf, wireVars
    <2> QED BY <2>2, <2>3
<1>6. CASE Followed /\ next # {}
    <2>1. /\ SendIf(sent \ next # {}, Unsubscribe(sent \ next)) /\ pc = "removing"
          /\ pc' = "reading" /\ sent' = next /\ next' = {} /\ UNCHANGED <<assets, produced>>
        BY <1>6 DEF Followed, listVars, feedVars
    <2>2. CASE sent \ next # {}
        <3>1. Unsubscribe(sent \ next) \in UpFrames /\ Send(Unsubscribe(sent \ next))
            BY <2>1, <2>2 DEF UpFrames, Wire, SendIf
        <3> QED BY <2>1, <3>1, SendWire DEF Wire, Places, InSession
    <2>3. CASE sent \ next = {}
        BY <2>1, <2>3 DEF Wire, Places, InSession, SendIf, wireVars
    <2> QED BY <2>2, <2>3
<1>7. CASE ReadPrice \/ ReadHalt \/ ReadOther
    <2>1. /\ down # <<>> /\ down' = Tail(down) /\ pc = "reading"
          /\ UNCHANGED <<link, up, subs, pc, assets, sent, next, produced>>
        BY <1>7 DEF ReadPrice, ReadHalt, ReadOther, FrameRead, Taken, listVars, feedVars
    <2> QED BY <2>1, Tailed DEF Wire, InSession
<1>8. CASE ReadPing
    <2>1. /\ down # <<>> /\ down' = Tail(down) /\ pc = "reading"
          /\ IF link = "up" THEN up' = Append(up, Bare("pong")) ELSE up' = up
          /\ UNCHANGED <<link, subs, pc, assets, sent, next, produced>>
        BY <1>8 DEF ReadPing, FrameRead, listVars, feedVars
    <2>2. Bare("pong") \in UpFrames
        BY DEF UpFrames
    <2>3. up \in Seq(UpFrames) /\ down \in Seq(DownFrames)
        BY DEF Wire
    <2>4. Append(up, Bare("pong")) \in Seq(UpFrames) /\ Tail(down) \in Seq(DownFrames)
        BY <2>1, <2>2, <2>3, Tailed, Appended
    <2> QED BY <2>1, <2>4 DEF Wire, InSession
<1>9. CASE \E S \in SUBSET Symbols : SetAssets(S)
    BY <1>9 DEF SetAssets, Wire, wireVars, feedVars
<1>10. CASE DropSender \/ \E s \in Symbols : Forget(s)
    BY <1>10 DEF DropSender, Forget, Wire, wireVars, listVars, clientVars, localVars, feedVars
<1>11. ASSUME NEW f \in DownFrames, Push(f), link = "up",
              UNCHANGED <<pc, link, up, subs, assets, sent, next, produced>>
       PROVE  Wire'
    <2>1. down' = Append(down, f) /\ down \in Seq(DownFrames) /\ pc \in InSession
        BY <1>11 DEF Push, Wire
    <2>2. down' \in Seq(DownFrames)
        BY <2>1, Appended
    <2> QED BY <1>11, <2>1, <2>2 DEF Wire
<1>12. CASE \E s \in Symbols : ServicePrices(s)
    <2>1. PICK s \in Symbols : ServicePrices(s)
        BY <1>12
    <2>2. produced' \in 1 .. MaxPrices
        BY <2>1, SessionAssumption DEF ServicePrices, Wire
    <2>3. Price(s, produced') \in DownFrames
        BY <2>2, NewDownFrames
    <2>4. /\ down' = Append(down, Price(s, produced')) /\ link = "up"
          /\ UNCHANGED <<pc, link, up, subs, assets, sent, next>>
        BY <2>1 DEF ServicePrices, Push, listVars, clientVars, localVars
    <2>5. down \in Seq(DownFrames)
        BY DEF Wire
    <2>6. down' \in Seq(DownFrames)
        BY <2>3, <2>4, <2>5, Appended
    <2> QED BY <2>2, <2>4, <2>6 DEF Wire
<1>13. CASE \E s \in Symbols : Disown(s)
    <2>1. PICK s \in Symbols : Disown(s)
        BY <1>13
    <2>2. UNCHANGED <<pc, link, up, subs, assets, sent, next, produced>>
        BY <2>1 DEF Disown, listVars, clientVars, localVars
    <2>3. (Push(Halt(s)) /\ link = "up") \/ UNCHANGED down
        BY <2>1 DEF Disown
    <2>4. CASE UNCHANGED down
        BY <2>2, <2>4 DEF Wire
    <2> QED BY <1>11, <2>2, <2>3, <2>4, NewDownFrames
<1>14. CASE ServicePings \/ ServiceSendsOther
    BY <1>11, <1>14, NewDownFrames
       DEF ServicePings, ServiceSendsOther, listVars, clientVars, localVars, feedVars
<1>15. CASE ServiceReceives
    <2>1. /\ up # <<>> /\ up \in Seq(UpFrames) /\ up' = Tail(up) /\ link = "up"
          /\ UNCHANGED <<pc, link, down, assets, sent, next, produced>>
        BY <1>15 DEF ServiceReceives, Wire, listVars, clientVars, localVars, feedVars
    <2>2. Head(up) \in UpFrames /\ up' \in Seq(UpFrames)
        BY <2>1, Tailed
    <2>3. subs' \subseteq Symbols
        BY <1>15, <2>2, UpFrame DEF ServiceReceives, Wire
    <2>4. pc # "opening"
        BY <2>1 DEF Wire
    <2> QED BY <2>1, <2>2, <2>3, <2>4 DEF Wire
<1>16. CASE \E kind \in {"close", "reset"} : ServiceCloses(kind)
    <2>1. PICK kind \in {"close", "reset"} : ServiceCloses(kind)
        BY <1>16
    <2>2. /\ link = "up" /\ link' = "closing" /\ down' = Append(down, Bare(kind))
          /\ up' = <<>> /\ subs' = {} /\ UNCHANGED <<pc, assets, sent, next, produced>>
        BY <2>1 DEF ServiceCloses, listVars, clientVars, localVars, feedVars
    <2>3. Bare(kind) \in DownFrames /\ down \in Seq(DownFrames)
        BY NewDownFrames DEF Wire
    <2>4. down' \in Seq(DownFrames)
        BY <2>2, <2>3, Appended
    <2> QED BY <2>2, <2>4 DEF Wire
<1>17. CASE LoseLink
    BY <1>17 DEF LoseLink, Wire, listVars, clientVars, localVars, feedVars
<1>18. CASE Tick
    BY <1>18 DEF Tick, Wire, listVars, feedVars
<1>19. CASE UNCHANGED vars
    BY <1>19 DEF vars, Wire, listVars, clientVars, localVars, wireVars, feedVars
<1> QED BY <1>1, <1>2, <1>3, <1>4, <1>5, <1>6, <1>7, <1>8, <1>9, <1>10, <1>12, <1>13,
           <1>14, <1>15, <1>16, <1>17, <1>18, <1>19, Steps

-----------------------------------------------------------------------------
LEMMA PushMoves ==
    ASSUME Wire, NEW f \in DownFrames, Push(f)
    PROVE  down' # <<>>
BY Appended DEF Push, Wire

LEMMA ClocksNext == Wire /\ Clocks /\ [Next]_vars => Clocks'
<1> SUFFICES ASSUME Wire, Clocks, [Next]_vars PROVE Clocks'
    OBVIOUS
<1> USE SessionAssumption
<1>1. CASE Ended
    BY <1>1 DEF Ended, Clocks, DropSocket, Locals
<1>2. CASE Outside
    BY <1>2 DEF Outside, Clocks, InSession, localVars, wireVars
<1>3. CASE Connected
    BY <1>3 DEF Connected, Clocks, localVars
<1>4. CASE Open /\ assets # {}
    BY <1>4 DEF Open, Clocks, Send
<1>5. CASE Follow
    BY <1>5 DEF Follow, Clocks, SendIf, Send, wireVars
<1>6. CASE Followed /\ next # {}
    BY <1>6 DEF Followed, Clocks, SendIf, Send, wireVars
<1>7. CASE ReadPrice \/ ReadHalt \/ ReadPing \/ ReadOther
    BY <1>7 DEF ReadPrice, ReadHalt, ReadPing, ReadOther, FrameRead, Taken, Clocks
<1>8. CASE \/ \E S \in SUBSET Symbols : SetAssets(S)
           \/ DropSender
           \/ \E s \in Symbols : Forget(s)
           \/ UNCHANGED vars
    <2>1. UNCHANGED <<pc, deadline, quiet, link, down, beat>>
        BY <1>8 DEF SetAssets, DropSender, Forget, vars, clientVars, localVars, wireVars
    <2> QED BY <2>1 DEF Clocks
<1>9. CASE ServiceReceives
    BY <1>9 DEF ServiceReceives, Clocks, clientVars, localVars
<1>10. CASE \E s \in Symbols : ServicePrices(s) \/ Disown(s)
    <2>1. UNCHANGED <<pc, deadline, quiet, link, beat>>
        BY <1>10 DEF ServicePrices, Disown, clientVars, localVars
    <2>2. down' # <<>> \/ down' = down
        <3>1. ASSUME NEW s \in Symbols, ServicePrices(s) PROVE down' # <<>>
            <4>1. produced' \in 1 .. MaxPrices
                BY <3>1 DEF ServicePrices, Wire
            <4>2. Price(s, produced') \in DownFrames /\ Push(Price(s, produced'))
                BY <3>1, <4>1, NewDownFrames DEF ServicePrices
            <4> QED BY <4>2, PushMoves
        <3>2. ASSUME NEW s \in Symbols, Disown(s) PROVE down' # <<>> \/ down' = down
            BY <3>2, NewDownFrames, PushMoves DEF Disown
        <3> QED BY <1>10, <3>1, <3>2
    <2> QED BY <2>1, <2>2 DEF Clocks
<1>11. CASE ServicePings \/ ServiceSendsOther
    <2>1. UNCHANGED <<pc, deadline, quiet, link>> /\ (beat' = 0 \/ beat' = beat)
        BY <1>11 DEF ServicePings, ServiceSendsOther, clientVars, localVars
    <2>2. down' # <<>>
        BY <1>11, NewDownFrames, PushMoves DEF ServicePings, ServiceSendsOther
    <2> QED BY <2>1, <2>2 DEF Clocks
<1>12. CASE LoseLink \/ \E kind \in {"close", "reset"} : ServiceCloses(kind)
    BY <1>12 DEF LoseLink, ServiceCloses, Clocks, clientVars, localVars
<1>13. CASE Tick
    BY <1>13 DEF Tick, Clocks
<1> QED BY <1>1, <1>2, <1>3, <1>4, <1>5, <1>6, <1>7, <1>8, <1>9, <1>10, <1>11, <1>12,
           <1>13, Steps

-----------------------------------------------------------------------------
\* A send into a connection that is up moves the view by its frame.
LEMMA SendView ==
    ASSUME Wire, NEW f \in UpFrames, Send(f), link = "up", NEW s
    PROVE  View(up', subs', s)
              <=> IF NamesIn(f, s) THEN f.kind = "subscribe" ELSE View(up, subs, s)
<1>1. up' = Append(up, f) /\ subs' = subs /\ up \in Seq(UpFrames)
    BY DEF Send, Wire
<1> QED BY <1>1, ViewAppend

LEMMA ViewsNext == Wire /\ Views /\ [Next]_vars => Views'
<1> SUFFICES ASSUME Wire, Views, [Next]_vars,
                    link' = "up", pc' \in {"reading", "removing"}, NEW s \in Symbols
             PROVE  View(up', subs', s) <=> s \in Believed'
    BY DEF Views
<1>0. ASSUME UNCHANGED <<link, pc, sent, next, up, subs>>
      PROVE  View(up', subs', s) <=> s \in Believed'
    BY <1>0 DEF Views, Believed
<1>1. CASE Ended
    BY <1>1 DEF Ended
<1>2. CASE Outside
    BY <1>2 DEF Outside, InSession
<1>3. CASE Connected
    BY <1>3 DEF Connected
<1>4. CASE Open /\ assets # {}
    <2>1. /\ pc = "opening" /\ pc' = "reading" /\ sent' = assets /\ link = "up"
          /\ Send(Subscribe(assets))
        BY <1>4 DEF Open, Send
    <2>2. Subscribe(assets) \in UpFrames
        BY <1>4 DEF UpFrames, Wire
    <2>3. up = <<>> /\ subs = {}
        BY <2>1 DEF Wire
    <2>4. ~View(up, subs, s)
        BY <2>3, ViewEmpty
    <2>5. NamesIn(Subscribe(assets), s) <=> s \in assets
        BY DEF NamesIn, Subscribe
    <2>6. Subscribe(assets).kind = "subscribe"
        BY DEF Subscribe
    <2>7. Believed' = assets
        BY <2>1 DEF Believed
    <2> QED BY <2>1, <2>2, <2>4, <2>5, <2>6, <2>7, SendView
<1>5. CASE Follow
    <2>1. /\ pc = "reading" /\ pc' = "removing" /\ sent' = sent /\ next' = assets
          /\ SendIf(assets \ sent # {}, Subscribe(assets \ sent))
        BY <1>5 DEF Follow
    <2>2. link = "up"
        BY <2>1 DEF SendIf, Send, wireVars
    <2>3. View(up, subs, s) <=> s \in sent
        BY <2>1, <2>2 DEF Views, Believed
    <2>4. Believed' = sent \cup assets
        BY <2>1 DEF Believed
    <2>5. CASE assets \ sent # {}
        <3>1. Subscribe(assets \ sent) \in UpFrames /\ Send(Subscribe(assets \ sent))
            BY <2>1, <2>5 DEF UpFrames, Wire, SendIf
        <3>2. /\ NamesIn(Subscribe(assets \ sent), s) <=> s \in assets \ sent
              /\ Subscribe(assets \ sent).kind = "subscribe"
            BY DEF NamesIn, Subscribe
        <3> QED BY <2>2, <2>3, <2>4, <3>1, <3>2, SendView
    <2>6. CASE assets \ sent = {}
        <3>1. UNCHANGED <<up, subs>>
            BY <2>1, <2>6 DEF SendIf, wireVars
        <3> QED BY <2>3, <2>4, <2>6, <3>1
    <2> QED BY <2>5, <2>6
<1>6. CASE Followed /\ next # {}
    <2>1. /\ pc = "removing" /\ pc' = "reading" /\ sent' = next
          /\ SendIf(sent \ next # {}, Unsubscribe(sent \ next))
        BY <1>6 DEF Followed
    <2>2. link = "up"
        BY <2>1 DEF SendIf, Send, wireVars
    <2>3. View(up, subs, s) <=> s \in sent \cup next
        BY <2>1, <2>2 DEF Views, Believed
    <2>4. Believed' = next
        BY <2>1 DEF Believed
    <2>5. CASE sent \ next # {}
        <3>1. Unsubscribe(sent \ next) \in UpFrames /\ Send(Unsubscribe(sent \ next))
            BY <2>1, <2>5 DEF UpFrames, Wire, SendIf
        <3>2. /\ NamesIn(Unsubscribe(sent \ next), s) <=> s \in sent \ next
              /\ Unsubscribe(sent \ next).kind = "unsubscribe"
            BY DEF NamesIn, Unsubscribe
        <3> QED BY <2>2, <2>3, <2>4, <3>1, <3>2, SendView
    <2>6. CASE sent \ next = {}
        <3>1. UNCHANGED <<up, subs>>
            BY <2>1, <2>6 DEF SendIf, wireVars
        <3> QED BY <2>3, <2>4, <2>6, <3>1
    <2> QED BY <2>5, <2>6
<1>7. CASE ReadPrice \/ ReadHalt \/ ReadOther
    BY <1>0, <1>7 DEF ReadPrice, ReadHalt, ReadOther, FrameRead, Taken
<1>8. CASE ReadPing
    <2>1. /\ pc = "reading" /\ UNCHANGED <<pc, sent, next, link, subs>>
          /\ link = "up" /\ up' = Append(up, Bare("pong")) /\ up \in Seq(UpFrames)
        BY <1>8 DEF ReadPing, FrameRead, Wire
    <2>2. Bare("pong") \in UpFrames /\ ~NamesIn(Bare("pong"), s)
        BY DEF UpFrames, NamesIn, Bare
    <2>3. View(up', subs', s) <=> View(up, subs, s)
        BY <2>1, <2>2, ViewAppend
    <2> QED BY <2>1, <2>3 DEF Views, Believed
<1>9. CASE \/ \E S \in SUBSET Symbols : SetAssets(S)
           \/ DropSender
           \/ \E x \in Symbols : Forget(x) \/ ServicePrices(x) \/ Disown(x)
           \/ ServicePings \/ ServiceSendsOther
           \/ Tick
           \/ UNCHANGED vars
    <2>1. UNCHANGED <<link, pc, sent, next, up, subs>>
        BY <1>9 DEF SetAssets, DropSender, Forget, ServicePrices, Disown, ServicePings,
                    ServiceSendsOther, Tick, vars, clientVars, localVars, wireVars
    <2> QED BY <1>0, <2>1
<1>10. CASE ServiceReceives
    <2>1. /\ up # <<>> /\ up \in Seq(UpFrames) /\ up' = Tail(up) /\ link = "up"
          /\ UNCHANGED <<pc, link, sent, next>>
        BY <1>10 DEF ServiceReceives, Wire, clientVars, localVars
    <2>2. /\ Head(up).kind \in {"pong", "subscribe", "unsubscribe"}
        BY <2>1, Tailed, UpFrame
    <2>3. s \in subs' <=> IF NamesIn(Head(up), s) THEN Head(up).kind = "subscribe"
                                                 ELSE s \in subs
        BY <1>10, <2>2 DEF ServiceReceives, NamesIn
    <2>4. View(up', subs', s) <=> View(up, subs, s)
        BY <2>1, <2>3, ViewTail
    <2> QED BY <2>1, <2>4 DEF Views, Believed
<1>11. CASE LoseLink \/ \E kind \in {"close", "reset"} : ServiceCloses(kind)
    BY <1>11 DEF LoseLink, ServiceCloses
<1> QED BY <1>1, <1>2, <1>3, <1>4, <1>5, <1>6, <1>7, <1>8, <1>9, <1>10, <1>11, Steps

-----------------------------------------------------------------------------
(* The prices of one symbol, over values.                                   *)

\* An interruption settles everything sent before it.
LEMMA PricesInterrupted ==
    ASSUME NEW s, NEW q, NEW v, NEW w, NEW pr \in Nat,
           NEW nw \in 0 .. pr, NEW d \in 0 .. pr, NEW si \in 0 .. pr, NEW c \in 0 .. pr,
           \A i \in DOMAIN q : IsPrice(q[i], s) => q[i].n \in Nat,
           QueueOK(s, q, v, nw, d, si, pr)
    PROVE  QueueOK(s, q, w, nw, d, pr, pr) /\ HeldOK(s, q, w, c, d, pr)
BY DEF QueueOK, HeldOK

LEMMA NoPrices ==
    ASSUME NEW s, NEW v, NEW nw, NEW d, NEW si, NEW pr
    PROVE  QueueOK(s, <<>>, v, nw, d, si, pr)
BY DEF QueueOK

\* A frame that is no price for s goes behind the others.
LEMMA PricesAppend ==
    ASSUME NEW s, NEW q \in Seq(DownFrames), NEW f \in DownFrames, ~IsPrice(f, s),
           NEW v, NEW nw, NEW c, NEW d, NEW si, NEW pr
    PROVE  /\ QueueOK(s, q, v, nw, d, si, pr) => QueueOK(s, Append(q, f), v, nw, d, si, pr)
           /\ HeldOK(s, q, v, c, d, si) => HeldOK(s, Append(q, f), v, c, d, si)
<1> DEFINE r == Append(q, f)
           n == Len(q) + 1
<1>1. /\ DOMAIN q = 1 .. Len(q) /\ Len(q) \in Nat /\ DOMAIN r = 1 .. n
      /\ \A i \in DOMAIN q : r[i] = q[i]
      /\ r[n] = f
    BY Appended
<1> HIDE DEF r
<1>2. /\ \A i \in DOMAIN q : i \in DOMAIN r /\ r[i] = q[i]
      /\ \A i \in DOMAIN r : IsPrice(r[i], s) => i \in DOMAIN q /\ r[i] = q[i]
    BY <1>1
<1>3. QueueOK(s, q, v, nw, d, si, pr) => QueueOK(s, r, v, nw, d, si, pr)
    BY <1>2 DEF QueueOK
<1>4. HeldOK(s, q, v, c, d, si) => HeldOK(s, r, v, c, d, si)
    BY <1>2 DEF HeldOK
<1> QED BY <1>3, <1>4 DEF r

\* The next price for s goes behind the others.
LEMMA PricesProduced ==
    ASSUME NEW s, NEW q \in Seq(DownFrames), NEW pr \in Nat,
           NEW v, s \in v, NEW nw \in 0 .. pr, NEW d \in 0 .. pr, NEW si \in 0 .. pr, NEW c,
           Price(s, pr + 1) \in DownFrames,
           QueueOK(s, q, v, nw, d, si, pr), HeldOK(s, q, v, c, d, si)
    PROVE  /\ QueueOK(s, Append(q, Price(s, pr + 1)), v, nw, d, si, pr + 1)
           /\ HeldOK(s, Append(q, Price(s, pr + 1)), v, c, d, si)
<1> DEFINE f == Price(s, pr + 1)
           r == Append(q, f)
           n == Len(q) + 1
<1>1. /\ DOMAIN q = 1 .. Len(q) /\ Len(q) \in Nat /\ DOMAIN r = 1 .. n
      /\ \A i \in DOMAIN q : r[i] = q[i]
      /\ r[n] = f
    BY Appended
<1>2. f.n = pr + 1
    BY DEF Price
<1>3. \A i \in DOMAIN q : IsPrice(q[i], s) => q[i].n \in Nat
    BY DownFrame DEF IsPrice
<1> HIDE DEF r, f
<1>4. ASSUME NEW i \in DOMAIN r, IsPrice(r[i], s)
      PROVE  /\ nw < r[i].n /\ r[i].n <= pr + 1
             /\ \A j \in DOMAIN r : i < j /\ IsPrice(r[j], s) => r[i].n < r[j].n
             /\ si < r[i].n /\ r[i].n <= d => \E j \in DOMAIN r : i < j /\ r[j] = Halt(s)
    <2>1. CASE i = n
        BY <1>1, <1>2, <2>1
    <2>2. CASE i \in DOMAIN q
        <3>1. r[i] = q[i] /\ q[i].n \in Nat
            BY <1>1, <1>3, <1>4, <2>2
        <3>2. nw < q[i].n /\ q[i].n <= pr
            BY <1>4, <2>2, <3>1 DEF QueueOK
        <3>3. ASSUME NEW j \in DOMAIN r, i < j, IsPrice(r[j], s) PROVE q[i].n < r[j].n
            <4>1. CASE j = n
                BY <1>1, <1>2, <3>1, <3>2, <4>1
            <4>2. CASE j \in DOMAIN q
                BY <1>1, <1>4, <2>2, <3>1, <3>3, <4>2 DEF QueueOK
            <4> QED BY <1>1, <4>1, <4>2
        <3>4. si < q[i].n /\ q[i].n <= d => \E j \in DOMAIN r : i < j /\ r[j] = Halt(s)
            <4>1. si < q[i].n /\ q[i].n <= d => \E j \in DOMAIN q : i < j /\ q[j] = Halt(s)
                BY <1>4, <2>2, <3>1 DEF QueueOK
            <4>2. \A j \in DOMAIN q : j \in DOMAIN r /\ r[j] = q[j]
                BY <1>1
            <4> QED BY <4>1, <4>2
        <3> QED BY <3>1, <3>2, <3>3, <3>4
    <2> QED BY <1>1, <2>1, <2>2
<1>5. QueueOK(s, r, v, nw, d, si, pr + 1)
    BY <1>4 DEF QueueOK
<1>6. HeldOK(s, r, v, c, d, si)
    <2>1. \A j \in DOMAIN q : j \in DOMAIN r /\ r[j] = q[j]
        BY <1>1
    <2> QED BY <2>1 DEF HeldOK
<1> QED BY <1>5, <1>6 DEF r, f

\* Everything sent for s is disowned, and the halt goes behind it.
LEMMA PricesDisowned ==
    ASSUME NEW s, NEW q \in Seq(DownFrames), NEW pr, Halt(s) \in DownFrames,
           NEW v, s \in v, NEW nw, NEW d, NEW si, NEW c,
           QueueOK(s, q, v, nw, d, si, pr)
    PROVE  /\ QueueOK(s, Append(q, Halt(s)), v, nw, pr, si, pr)
           /\ HeldOK(s, Append(q, Halt(s)), v, c, pr, si)
<1> DEFINE r == Append(q, Halt(s))
           n == Len(q) + 1
<1>1. /\ DOMAIN q = 1 .. Len(q) /\ Len(q) \in Nat /\ DOMAIN r = 1 .. n
      /\ \A i \in DOMAIN q : r[i] = q[i]
      /\ r[n] = Halt(s)
    BY Appended
<1>2. ~IsPrice(Halt(s), s)
    BY DEF IsPrice, Halt
<1> HIDE DEF r
<1>3. /\ \A i \in DOMAIN q : i \in DOMAIN r /\ r[i] = q[i] /\ i < n
      /\ \A i \in DOMAIN r : IsPrice(r[i], s) => i \in DOMAIN q /\ r[i] = q[i]
      /\ n \in DOMAIN r
    BY <1>1, <1>2
<1> HIDE DEF n
<1>4. QueueOK(s, r, v, nw, pr, si, pr)
    BY <1>1, <1>3 DEF QueueOK
<1>5. HeldOK(s, r, v, c, pr, si)
    BY <1>1, <1>3 DEF HeldOK
<1> QED BY <1>4, <1>5 DEF r

\* The first frame is read; a price for s may be cached.
LEMMA PricesTail ==
    ASSUME NEW s, NEW q \in Seq(DownFrames), q # <<>>,
           NEW v, NEW nw \in Nat, NEW d \in Nat, NEW si \in Nat, NEW pr \in Nat, NEW c,
           QueueOK(s, q, v, nw, d, si, pr)
    PROVE  /\ QueueOK(s, Tail(q), v, nw, d, si, pr)
           /\ IsPrice(Head(q), s) =>
                 /\ QueueOK(s, Tail(q), v, Head(q).n, d, si, pr)
                 /\ HeldOK(s, Tail(q), v, Head(q).n, d, si)
                 /\ Head(q).n \in 0 .. pr
           /\ Head(q) # Halt(s) /\ HeldOK(s, q, v, c, d, si) => HeldOK(s, Tail(q), v, c, d, si)
<1> DEFINE r == Tail(q)
<1>1. /\ DOMAIN q = 1 .. Len(q) /\ Len(q) \in Nat \ {0} /\ Head(q) = q[1]
      /\ DOMAIN r = 1 .. (Len(q) - 1)
      /\ \A i \in DOMAIN r : r[i] = q[i + 1]
    BY Tailed
<1>2. \A i \in DOMAIN q : IsPrice(q[i], s) => q[i].n \in Nat
    BY DownFrame DEF IsPrice
<1> HIDE DEF r
<1>3. /\ \A i \in DOMAIN r : i + 1 \in DOMAIN q /\ i + 1 > 1 /\ i \in Nat
      /\ \A i \in DOMAIN q : i \in Nat /\ (i # 1 => i - 1 \in DOMAIN r /\ r[i - 1] = q[i])
      /\ 1 \in DOMAIN q
    BY <1>1
\* What the queue says of a price in the tail does not mention the head.
<1>4. ASSUME NEW i \in DOMAIN r, IsPrice(r[i], s)
      PROVE  /\ nw < r[i].n /\ r[i].n <= pr /\ r[i].n \in Nat
             /\ \A j \in DOMAIN r : i < j /\ IsPrice(r[j], s) => r[i].n < r[j].n
             /\ s \notin v => r[i].n <= si
             /\ si < r[i].n /\ r[i].n <= d => \E j \in DOMAIN r : i < j /\ r[j] = Halt(s)
             /\ IsPrice(q[1], s) => q[1].n < r[i].n
    <2> DEFINE k == i + 1
    <2>1. k \in DOMAIN q /\ q[k] = r[i] /\ i \in Nat /\ 1 < k
        BY <1>1, <1>3
    <2>2. /\ nw < q[k].n /\ q[k].n <= pr
          /\ \A j \in DOMAIN q : k < j /\ IsPrice(q[j], s) => q[k].n < q[j].n
          /\ s \notin v => q[k].n <= si
          /\ si < q[k].n /\ q[k].n <= d => \E j \in DOMAIN q : k < j /\ q[j] = Halt(s)
        <3> HIDE DEF k
        <3> QED BY <1>4, <2>1 DEF QueueOK
    <2>3. IsPrice(q[1], s) => q[1].n < q[k].n
        <3> HIDE DEF k
        <3> QED BY <1>3, <1>4, <2>1 DEF QueueOK
    <2>4. ASSUME NEW j \in DOMAIN r, i < j, IsPrice(r[j], s) PROVE r[i].n < r[j].n
        <3>1. j + 1 \in DOMAIN q /\ r[j] = q[j + 1] /\ k < j + 1
            BY <1>1, <1>3, <2>1, <2>4
        <3> QED BY <2>1, <2>2, <2>4, <3>1
    <2>5. ASSUME si < q[k].n, q[k].n <= d PROVE \E j \in DOMAIN r : i < j /\ r[j] = Halt(s)
        <3>1. PICK j \in DOMAIN q : k < j /\ q[j] = Halt(s)
            BY <2>2, <2>5
        <3>2. j - 1 \in DOMAIN r /\ r[j - 1] = q[j] /\ i < j - 1
            BY <1>3, <2>1, <3>1
        <3> QED BY <3>1, <3>2
    <2> QED BY <1>2, <1>4, <2>1, <2>2, <2>3, <2>4, <2>5
<1>5. QueueOK(s, r, v, nw, d, si, pr)
    BY <1>4 DEF QueueOK
<1>6. ASSUME IsPrice(q[1], s)
      PROVE  /\ QueueOK(s, r, v, q[1].n, d, si, pr)
             /\ HeldOK(s, r, v, q[1].n, d, si)
             /\ q[1].n \in 0 .. pr
    <2>1. QueueOK(s, r, v, q[1].n, d, si, pr)
        BY <1>4, <1>6 DEF QueueOK
    <2>2. /\ q[1].n <= pr /\ (s \notin v => q[1].n <= si)
          /\ si < q[1].n /\ q[1].n <= d => \E j \in DOMAIN q : 1 < j /\ q[j] = Halt(s)
        BY <1>3, <1>6 DEF QueueOK
    <2>3. ASSUME si < q[1].n, q[1].n <= d PROVE \E j \in DOMAIN r : r[j] = Halt(s)
        <3>1. PICK j \in DOMAIN q : 1 < j /\ q[j] = Halt(s)
            BY <2>2, <2>3
        <3>2. j - 1 \in DOMAIN r /\ r[j - 1] = q[j]
            BY <1>3, <3>1
        <3> QED BY <3>1, <3>2
    <2> QED BY <1>2, <1>3, <1>6, <2>1, <2>2, <2>3 DEF HeldOK
<1>7. q[1] # Halt(s) /\ HeldOK(s, q, v, c, d, si) => HeldOK(s, r, v, c, d, si)
    <2>1. q[1] # Halt(s) /\ (\E i \in DOMAIN q : q[i] = Halt(s))
             => \E j \in DOMAIN r : r[j] = Halt(s)
        BY <1>3
    <2> QED BY <2>1 DEF HeldOK
<1> QED BY <1>1, <1>5, <1>6, <1>7 DEF r

-----------------------------------------------------------------------------
PriceVars == <<cached, newest, disowned, since, produced>>

LEMMA PricesDown ==
    ASSUME Wire, Prices
    PROVE  /\ down \in Seq(DownFrames) /\ produced \in Nat
           /\ \A i \in DOMAIN down : down[i] \in DownFrames
           /\ \A s \in Symbols :
                 /\ cached[s] \in 0 .. produced /\ newest[s] \in 0 .. produced
                 /\ disowned[s] \in 0 .. produced /\ since[s] \in 0 .. produced
                 /\ QueueOK(s, down, subs, newest[s], disowned[s], since[s], produced)
                 /\ HeldOK(s, down, subs, cached[s], disowned[s], since[s])
                 /\ \A i \in DOMAIN down : IsPrice(down[i], s) => down[i].n \in Nat
<1>1. down \in Seq(DownFrames) /\ produced \in Nat
    BY SessionAssumption DEF Wire
<1>2. \A i \in DOMAIN down : down[i] \in DownFrames
    BY <1>1
<1>3. \A i \in DOMAIN down : \A s : IsPrice(down[i], s) => down[i].n \in Nat
    BY <1>2, DownFrame DEF IsPrice
<1> QED BY <1>1, <1>2, <1>3 DEF Prices

\* Every subscription is interrupted: the frames on their way stay as they are,
\* are dropped, or are followed by the end of the stream.
LEMMA PricesInterruptedAll ==
    ASSUME Wire, Prices, since' = Interrupted(Symbols),
           UNCHANGED <<cached, newest, disowned, produced>>,
           \/ down' = <<>>
           \/ \E kind \in {"close", "reset"} : down' = Append(down, Bare(kind))
    PROVE  Prices'
<1>1. since' = [s \in Symbols |-> produced]
    BY DEF Interrupted
<1>2. since' \in [Symbols -> 0 .. produced']
    BY <1>1, PricesDown
<1>3. ASSUME NEW s \in Symbols
      PROVE  /\ QueueOK(s, down', subs', newest[s], disowned[s], produced, produced)
             /\ HeldOK(s, down', subs', cached[s], disowned[s], produced)
    <2>1. CASE down' = <<>>
        BY <2>1, NoPrices, PricesDown DEF HeldOK
    <2>2. ASSUME NEW kind \in {"close", "reset"}, down' = Append(down, Bare(kind))
          PROVE  /\ QueueOK(s, down', subs', newest[s], disowned[s], produced, produced)
                 /\ HeldOK(s, down', subs', cached[s], disowned[s], produced)
        <3>1. /\ QueueOK(s, down, subs', newest[s], disowned[s], produced, produced)
              /\ HeldOK(s, down, subs', cached[s], disowned[s], produced)
            BY PricesDown, PricesInterrupted
        <3>2. Bare(kind) \in DownFrames /\ ~IsPrice(Bare(kind), s)
            BY NewDownFrames DEF IsPrice
        <3> QED BY <2>2, <3>1, <3>2, PricesAppend, PricesDown
    <2> QED BY <2>1, <2>2
<1> QED BY <1>1, <1>2, <1>3 DEF Prices

\* A frame that is a price for no symbol goes to the session.
LEMMA PricesPushed ==
    ASSUME Wire, Prices, NEW f \in DownFrames, f.kind # "price", Push(f),
           UNCHANGED <<subs, PriceVars>>
    PROVE  Prices'
<1>1. ASSUME NEW s \in Symbols
      PROVE  /\ QueueOK(s, down', subs, newest[s], disowned[s], since[s], produced)
             /\ HeldOK(s, down', subs, cached[s], disowned[s], since[s])
    <2>1. ~IsPrice(f, s) /\ down' = Append(down, f)
        BY DEF IsPrice, Push
    <2> QED BY <2>1, PricesAppend, PricesDown
<1> QED BY <1>1 DEF Prices, PriceVars

\* A frame leaves the wire: a price is cached or dropped, a halt evicts.
LEMMA PricesRead ==
    ASSUME Wire, Prices, down # <<>>, down' = Tail(down),
           UNCHANGED <<subs, disowned, since, produced>>,
           \/ UNCHANGED cacheVars /\ Head(down).kind # "halt"
           \/ /\ Head(down).kind = "price"
              /\ cached' = [cached EXCEPT ![Head(down).symbol] = Head(down).n]
              /\ newest' = [newest EXCEPT ![Head(down).symbol] = Head(down).n]
           \/ /\ Head(down).kind = "halt"
              /\ cached' = [cached EXCEPT ![Head(down).symbol] = 0]
              /\ UNCHANGED newest
    PROVE  Prices'
<1> DEFINE f == Head(down)
<1>1. f \in DownFrames
    BY Tailed, PricesDown
<1>2. ASSUME NEW s \in Symbols
      PROVE  /\ QueueOK(s, down', subs, newest[s], disowned[s], since[s], produced)
             /\ IsPrice(f, s) =>
                   /\ QueueOK(s, down', subs, f.n, disowned[s], since[s], produced)
                   /\ HeldOK(s, down', subs, f.n, disowned[s], since[s])
                   /\ f.n \in 0 .. produced
             /\ f # Halt(s) => HeldOK(s, down', subs, cached[s], disowned[s], since[s])
             /\ HeldOK(s, down', subs, 0, disowned[s], since[s])
    <2>1. HeldOK(s, down', subs, 0, disowned[s], since[s])
        BY PricesDown DEF HeldOK
    <2> QED BY <2>1, PricesTail, PricesDown
<1>3. \A s : f = Halt(s) => f.kind = "halt" /\ f.symbol = s
    BY <1>1, DownFrame
<1>4. CASE UNCHANGED cacheVars /\ f.kind # "halt"
    BY <1>2, <1>3, <1>4 DEF Prices, cacheVars
<1>5. CASE /\ f.kind = "price"
           /\ cached' = [cached EXCEPT ![f.symbol] = f.n]
           /\ newest' = [newest EXCEPT ![f.symbol] = f.n]
    <2>1. f.symbol \in Symbols /\ IsPrice(f, f.symbol) /\ f.n \in 0 .. produced
        BY <1>1, <1>2, <1>5, DownFrame DEF IsPrice
    <2>2. cached' \in [Symbols -> 0 .. produced] /\ newest' \in [Symbols -> 0 .. produced]
        BY <1>5, <2>1 DEF Prices
    <2>3. ASSUME NEW s \in Symbols
          PROVE  /\ QueueOK(s, down', subs, newest'[s], disowned[s], since[s], produced)
                 /\ HeldOK(s, down', subs, cached'[s], disowned[s], since[s])
        <3>1. CASE s = f.symbol
            <4>1. newest'[s] = f.n /\ cached'[s] = f.n /\ IsPrice(f, s)
                BY <1>5, <2>1, <3>1 DEF Prices
            <4> QED BY <1>2, <4>1
        <3>2. CASE s # f.symbol
            <4>1. newest'[s] = newest[s] /\ cached'[s] = cached[s]
                BY <1>5, <3>2 DEF Prices
            <4> QED BY <1>2, <1>3, <1>5, <4>1
        <3> QED BY <3>1, <3>2
    <2> QED BY <2>2, <2>3 DEF Prices
<1>6. CASE f.kind = "halt" /\ cached' = [cached EXCEPT ![f.symbol] = 0] /\ UNCHANGED newest
    <2>1. cached' \in [Symbols -> 0 .. produced]
        <3>1. 0 \in 0 .. produced
            BY PricesDown
        <3> QED BY <1>6, <3>1 DEF Prices
    <2>2. ASSUME NEW s \in Symbols
          PROVE  HeldOK(s, down', subs, cached'[s], disowned[s], since[s])
        <3>1. CASE s = f.symbol
            <4>1. cached'[s] = 0
                BY <1>6, <3>1 DEF Prices
            <4> QED BY <1>2, <4>1
        <3>2. CASE s # f.symbol
            <4>1. cached'[s] = cached[s]
                BY <1>6, <3>2 DEF Prices
            <4> QED BY <1>2, <1>3, <3>2, <4>1
        <3> QED BY <3>1, <3>2
    <2> QED BY <1>2, <1>6, <2>1, <2>2 DEF Prices
<1> QED BY <1>4, <1>5, <1>6

LEMMA PricesNext == Wire /\ Prices /\ [Next]_vars => Prices'
<1> SUFFICES ASSUME Wire, Prices, [Next]_vars PROVE Prices'
    OBVIOUS
<1>0. ASSUME UNCHANGED <<down, subs, PriceVars>> PROVE Prices'
    BY <1>0 DEF Prices, PriceVars
<1>1. CASE Ended
    BY <1>1, PricesInterruptedAll DEF Ended, DropSocket, cacheVars, feedVars
<1>2. CASE Outside \/ Connected \/ DropSender \/ Tick \/ UNCHANGED vars
           \/ \E S \in SUBSET Symbols : SetAssets(S)
    <2>1. UNCHANGED <<down, subs, PriceVars>>
        BY <1>2 DEF Outside, Connected, DropSender, Tick, SetAssets, vars, wireVars, cacheVars,
                    feedVars, PriceVars
    <2> QED BY <1>0, <2>1
<1>3. CASE Open /\ assets # {}
    BY <1>0, <1>3 DEF Open, Send, cacheVars, feedVars, PriceVars
<1>4. CASE Follow
    BY <1>0, <1>4 DEF Follow, SendIf, Send, wireVars, cacheVars, feedVars, PriceVars
<1>5. CASE Followed /\ next # {}
    BY <1>0, <1>5 DEF Followed, SendIf, Send, wireVars, cacheVars, feedVars, PriceVars
<1>6. CASE ReadPrice
    BY <1>6, PricesRead DEF ReadPrice, FrameRead, Taken, feedVars
<1>7. CASE ReadHalt
    BY <1>7, PricesRead DEF ReadHalt, FrameRead, Taken, feedVars
<1>8. CASE ReadPing \/ ReadOther
    BY <1>8, PricesRead DEF ReadPing, ReadOther, FrameRead, Taken, feedVars
<1>9. CASE \E s \in Symbols : Forget(s)
    <2>1. PICK s \in Symbols : Forget(s)
        BY <1>9
    <2>2. /\ cached' = [cached EXCEPT ![s] = 0]
          /\ UNCHANGED <<newest, down, subs, disowned, since, produced>>
        BY <2>1 DEF Forget, wireVars, feedVars
    <2>3. 0 \in 0 .. produced
        BY PricesDown
    <2>4. cached' \in [Symbols -> 0 .. produced]
        BY <2>2, <2>3 DEF Prices
    <2>5. ASSUME NEW x \in Symbols
          PROVE  HeldOK(x, down, subs, cached'[x], disowned[x], since[x])
        <3>1. cached'[x] = 0 \/ cached'[x] = cached[x]
            BY <2>2 DEF Prices
        <3>2. HeldOK(x, down, subs, 0, disowned[x], since[x])
            BY PricesDown DEF HeldOK
        <3> QED BY <3>1, <3>2, PricesDown
    <2> QED BY <2>2, <2>4, <2>5 DEF Prices
<1>10. CASE \E s \in Symbols : ServicePrices(s)
    <2>1. PICK s \in Symbols : ServicePrices(s)
        BY <1>10
    <2>2. /\ s \in subs /\ produced' = produced + 1 /\ produced < MaxPrices
          /\ down' = Append(down, Price(s, produced + 1))
          /\ UNCHANGED <<cached, newest, disowned, since, subs>>
        BY <2>1 DEF ServicePrices, Push, cacheVars
    <2>3. Price(s, produced + 1) \in DownFrames
        BY <2>2, NewDownFrames, PricesDown, SessionAssumption
    <2>4. /\ cached \in [Symbols -> 0 .. produced'] /\ newest \in [Symbols -> 0 .. produced']
          /\ disowned \in [Symbols -> 0 .. produced'] /\ since \in [Symbols -> 0 .. produced']
        <3>1. 0 .. produced \subseteq 0 .. produced'
            BY <2>2, PricesDown
        <3> QED BY <3>1 DEF Prices
    <2>5. ASSUME NEW x \in Symbols
          PROVE  /\ QueueOK(x, down', subs, newest[x], disowned[x], since[x], produced')
                 /\ HeldOK(x, down', subs, cached[x], disowned[x], since[x])
        <3>1. CASE x = s
            BY <2>2, <2>3, <3>1, PricesProduced, PricesDown
        <3>2. CASE x # s
            <4>1. ~IsPrice(Price(s, produced + 1), x)
                BY <3>2 DEF IsPrice, Price
            <4>2. QueueOK(x, down, subs, newest[x], disowned[x], since[x], produced')
                <5>1. QueueOK(x, down, subs, newest[x], disowned[x], since[x], produced)
                    BY PricesDown
                <5>2. \A i \in DOMAIN down : IsPrice(down[i], x) /\ down[i].n <= produced
                                                => down[i].n <= produced'
                    BY <2>2, PricesDown
                <5> QED BY <5>1, <5>2 DEF QueueOK
            <4> QED BY <2>2, <2>3, <4>1, <4>2, PricesAppend, PricesDown
        <3> QED BY <3>1, <3>2
    <2> QED BY <2>2, <2>4, <2>5 DEF Prices
<1>11. CASE \E s \in Symbols : Disown(s)
    <2>1. PICK s \in Symbols : Disown(s)
        BY <1>11
    <2>2. /\ disowned' = [disowned EXCEPT ![s] = produced]
          /\ UNCHANGED <<cached, newest, since, subs, produced>>
          /\ IF link = "up" /\ s \in subs THEN down' = Append(down, Halt(s)) ELSE down' = down
        BY <2>1 DEF Disown, Push, cacheVars
    <2>3. s \in subs => link = "up"
        BY DEF Wire
    <2>4. Halt(s) \in DownFrames /\ \A x : ~IsPrice(Halt(s), x)
        BY NewDownFrames DEF IsPrice, Halt
    <2>5. disowned' \in [Symbols -> 0 .. produced]
        <3>1. produced \in 0 .. produced
            BY PricesDown
        <3> QED BY <2>2, <3>1 DEF Prices
    <2>6. ASSUME NEW x \in Symbols
          PROVE  /\ QueueOK(x, down', subs, newest[x], disowned'[x], since[x], produced)
                 /\ HeldOK(x, down', subs, cached[x], disowned'[x], since[x])
        <3>1. CASE x = s /\ s \in subs
            <4>1. disowned'[x] = produced /\ down' = Append(down, Halt(x))
                BY <2>2, <2>3, <3>1 DEF Prices
            <4> QED BY <2>4, <3>1, <4>1, PricesDisowned, PricesDown
        <3>2. CASE x = s /\ s \notin subs
            <4>1. down' = down
                BY <2>2, <3>2
            <4>2. QueueOK(x, down, subs, newest[x], disowned[x], since[x], produced)
                BY PricesDown
            <4>3. QueueOK(x, down, subs, newest[x], disowned'[x], since[x], produced)
                BY <3>2, <4>2, PricesDown DEF QueueOK
            <4>4. HeldOK(x, down, subs, cached[x], disowned'[x], since[x])
                BY <3>2, PricesDown DEF HeldOK
            <4> QED BY <4>1, <4>3, <4>4
        <3>3. CASE x # s
            <4>1. disowned'[x] = disowned[x]
                BY <2>2, <3>3 DEF Prices
            <4>2. /\ QueueOK(x, down, subs, newest[x], disowned[x], since[x], produced)
                  /\ HeldOK(x, down, subs, cached[x], disowned[x], since[x])
                BY PricesDown
            <4>3. CASE down' = down
                BY <4>1, <4>2, <4>3
            <4>4. CASE down' = Append(down, Halt(s))
                BY <2>4, <4>1, <4>2, <4>4, PricesAppend, PricesDown
            <4> QED BY <2>2, <4>3, <4>4
        <3> QED BY <3>1, <3>2, <3>3
    <2> QED BY <2>2, <2>5, <2>6 DEF Prices
<1>12. CASE ServiceReceives
    <2>1. /\ up # <<>> /\ up \in Seq(UpFrames)
          /\ UNCHANGED <<down, cached, newest, disowned, produced>>
        BY <1>12 DEF ServiceReceives, Wire, cacheVars, feedVars
    <2>2. /\ Head(up).kind \in {"pong", "subscribe", "unsubscribe"}
        BY <2>1, Tailed, UpFrame
    <2>3. CASE Head(up).kind = "pong"
        BY <1>0, <1>12, <2>1, <2>3 DEF ServiceReceives, PriceVars
    <2>4. CASE Head(up).kind = "subscribe"
        <3>1. subs \subseteq subs' /\ since' = since
            BY <1>12, <2>4 DEF ServiceReceives
        <3>2. ASSUME NEW x \in Symbols
              PROVE  /\ QueueOK(x, down, subs', newest[x], disowned[x], since[x], produced)
                     /\ HeldOK(x, down, subs', cached[x], disowned[x], since[x])
            <4>1. x \notin subs' => x \notin subs
                BY <3>1
            <4>2. QueueOK(x, down, subs', newest[x], disowned[x], since[x], produced)
                BY <4>1, PricesDown DEF QueueOK
            <4>3. HeldOK(x, down, subs', cached[x], disowned[x], since[x])
                BY <4>1, PricesDown DEF HeldOK
            <4> QED BY <4>2, <4>3
        <3> QED BY <2>1, <3>1, <3>2 DEF Prices
    <2>5. CASE Head(up).kind = "unsubscribe"
        <3> DEFINE G == Head(up).assets
        <3>1. subs' = subs \ G /\ since' = Interrupted(G)
            BY <1>12, <2>5 DEF ServiceReceives
        <3>2. since' \in [Symbols -> 0 .. produced]
            BY <3>1, PricesDown DEF Interrupted
        <3>3. ASSUME NEW x \in Symbols
              PROVE  /\ QueueOK(x, down, subs', newest[x], disowned[x], since'[x], produced)
                     /\ HeldOK(x, down, subs', cached[x], disowned[x], since'[x])
            <4>1. CASE x \in G
                <5>1. since'[x] = produced
                    BY <3>1, <4>1 DEF Interrupted
                <5> QED BY <5>1, PricesInterrupted, PricesDown
            <4>2. CASE x \notin G
                <5>1. since'[x] = since[x] /\ (x \notin subs' => x \notin subs)
                    BY <3>1, <4>2 DEF Interrupted
                <5>2. QueueOK(x, down, subs', newest[x], disowned[x], since[x], produced)
                    BY <5>1, PricesDown DEF QueueOK
                <5>3. HeldOK(x, down, subs', cached[x], disowned[x], since[x])
                    BY <5>1, PricesDown DEF HeldOK
                <5> QED BY <5>1, <5>2, <5>3
            <4> QED BY <4>1, <4>2
        <3> QED BY <2>1, <3>2, <3>3 DEF Prices
    <2> QED BY <2>2, <2>3, <2>4, <2>5
<1>13. CASE ServicePings \/ ServiceSendsOther
    BY <1>13, PricesPushed, NewDownFrames
       DEF ServicePings, ServiceSendsOther, cacheVars, feedVars, PriceVars
<1>14. CASE LoseLink \/ \E kind \in {"close", "reset"} : ServiceCloses(kind)
    BY <1>14, PricesInterruptedAll DEF LoseLink, ServiceCloses, cacheVars, feedVars
<1> QED BY <1>1, <1>2, <1>3, <1>4, <1>5, <1>6, <1>7, <1>8, <1>9, <1>10, <1>11, <1>12,
           <1>13, <1>14, Steps

-----------------------------------------------------------------------------
LEMMA SessionInit == Init => SessionInv
<1> SUFFICES ASSUME Init PROVE SessionInv
    OBVIOUS
<1> USE SessionAssumption
<1>1. Wire
    BY DEF Init, Wire, Places, InSession
<1>2. Clocks
    BY DEF Init, Clocks
<1>3. Views
    BY DEF Init, Views
<1>4. Prices
    <2>1. /\ down = <<>> /\ produced = 0
          /\ \A s \in Symbols : cached[s] = 0 /\ since[s] = 0
        BY DEF Init
    <2>2. ASSUME NEW s \in Symbols
          PROVE  HeldOK(s, down, subs, cached[s], disowned[s], since[s])
        <3>1. cached[s] = 0 /\ since[s] = 0
            BY <2>1
        <3>2. cached[s] <= since[s] /\ ~(since[s] < cached[s])
            BY <3>1
        <3> QED BY <3>2 DEF HeldOK
    <2> QED BY <2>1, <2>2, NoPrices DEF Init, Prices
<1> QED BY <1>1, <1>2, <1>3, <1>4 DEF SessionInv

LEMMA SessionNext == SessionInv /\ [Next]_vars => SessionInv'
BY WireNext, ClocksNext, ViewsNext, PricesNext DEF SessionInv

LEMMA SessionAlways == Spec => []SessionInv
BY SessionInit, SessionNext, PTL DEF Spec

\* run_session and the loop around it never send an empty Subscribe or
\* Unsubscribe, whenever the list empties.
THEOREM EmptyNeverSent == Spec => []NoEmptySubscribe
<1>1. SessionInv => NoEmptySubscribe
    <2> SUFFICES ASSUME Wire, NEW i \in DOMAIN up, up[i].kind # "pong"
                 PROVE  up[i].assets # {}
        BY DEF SessionInv, NoEmptySubscribe
    <2>1. up[i] \in UpFrames
        BY DEF Wire
    <2> QED BY <2>1, UpFrame
<1> QED BY <1>1, SessionAlways, PTL

\* On a connection that is up, the frames on their way bring the service to what
\* the session has recorded as subscribed, also between the two sends of a change
\* of the list and when the list changes again meanwhile.
THEOREM ServiceFollows == Spec => []ServiceFollowsSession
<1>1. SessionInv => ServiceFollowsSession
    BY ViewIsAhead DEF SessionInv, Views, Believed, ServiceFollowsSession
<1> QED BY <1>1, SessionAlways, PTL

\* A session that reads nothing ends within READ_DEADLINE: neither a change of
\* the list nor a send moves the deadline.
THEOREM SilenceEnds == Spec => []SilenceEndsSession
<1>1. SessionInv => SilenceEndsSession
    BY SessionAssumption DEF SessionInv, Clocks, SilenceEndsSession
<1> QED BY <1>1, SessionAlways, PTL

\* A service that heartbeats on time is never cut off by the read deadline,
\* whatever ReadDeadline > Heartbeat are.
THEOREM HealthyKept == Spec => []HealthyWireKept
<1>1. SessionInv => HealthyWireKept
    BY SessionAssumption DEF SessionInv, Clocks, HealthyWireKept
<1> QED BY <1>1, SessionAlways, PTL

\* A disowned price is in the cache only until its halt is read, or because the
\* subscription was interrupted after it was sent.
THEOREM DisownedAnnounced == Spec => []DisownedIsAnnounced
<1>1. SessionInv => DisownedIsAnnounced
    <2> SUFFICES ASSUME Wire, Prices, NEW s \in Symbols,
                        cached[s] > since[s], cached[s] <= disowned[s]
                 PROVE  \E i \in DOMAIN down : down[i] = Halt(s)
        BY DEF SessionInv, DisownedIsAnnounced
    <2> QED BY PricesDown DEF HeldOK
<1> QED BY <1>1, SessionAlways, PTL

-----------------------------------------------------------------------------
(* The task implements PriceFeed.                                           *)

LEMMA FeedNext == Wire /\ Prices /\ [Next]_vars => [Feed!Next]_(Feed!feedVars)
<1> SUFFICES ASSUME Wire, Prices, [Next]_vars PROVE [Feed!Next]_(Feed!feedVars)
    OBVIOUS
<1>0. ASSUME UNCHANGED <<assets, cached, newest>> PROVE [Feed!Next]_(Feed!feedVars)
    BY <1>0 DEF Feed!feedVars
<1>1. CASE \/ Ended \/ Outside \/ Connected
           \/ Open /\ assets # {}
           \/ Follow
           \/ Followed /\ next # {}
           \/ ReadPing \/ ReadOther \/ DropSender
           \/ \E s \in Symbols : ServicePrices(s) \/ Disown(s)
           \/ ServiceReceives \/ ServicePings \/ ServiceSendsOther \/ LoseLink
           \/ \E kind \in {"close", "reset"} : ServiceCloses(kind)
           \/ Tick
           \/ UNCHANGED vars
    <2>1. UNCHANGED <<assets, cached, newest>>
        BY <1>1 DEF Ended, Outside, Connected, Open, Follow, Followed, ReadPing, ReadOther,
                    FrameRead, DropSender, ServicePrices, Disown, ServiceReceives, ServicePings,
                    ServiceSendsOther, LoseLink, ServiceCloses, Tick, vars, listVars, cacheVars
    <2> QED BY <1>0, <2>1
<1>2. CASE \E S \in SUBSET Symbols : SetAssets(S)
    BY <1>2 DEF SetAssets, cacheVars, Feed!Next, Feed!SetAssets
<1>3. CASE \E s \in Symbols : Forget(s)
    BY <1>3 DEF Forget, listVars, Feed!Next, Feed!Evict
<1>4. CASE ReadHalt
    <2>1. Head(down) \in DownFrames
        BY <1>4, Tailed, PricesDown DEF ReadHalt, FrameRead
    <2>2. Head(down).symbol \in Symbols
        BY <1>4, <2>1, DownFrame DEF ReadHalt
    <2>3. Feed!Evict(Head(down).symbol)
        BY <1>4 DEF ReadHalt, FrameRead, listVars, Feed!Evict
    <2> QED BY <2>2, <2>3 DEF Feed!Next
<1>5. CASE ReadPrice
    <2> DEFINE f == Head(down)
    <2>1. f \in DownFrames /\ f = down[1] /\ 1 \in DOMAIN down
        BY <1>5, Tailed, PricesDown DEF ReadPrice, FrameRead
    <2>2. f.symbol \in Symbols /\ IsPrice(f, f.symbol)
        BY <1>5, <2>1, DownFrame DEF ReadPrice, IsPrice
    <2>3. newest[f.symbol] < f.n
        BY <2>1, <2>2, PricesDown DEF QueueOK
    <2>4. CASE f.symbol \notin assets
        BY <1>0, <1>5, <2>4 DEF ReadPrice, FrameRead, listVars, cacheVars
    <2>5. CASE f.symbol \in assets
        <3>1. /\ cached' = [cached EXCEPT ![f.symbol] = f.n]
              /\ newest' = [newest EXCEPT ![f.symbol] = f.n]
              /\ UNCHANGED assets
            BY <1>5, <2>5 DEF ReadPrice, FrameRead, listVars
        <3>2. cached'[f.symbol] = f.n
            BY <2>2, <3>1 DEF Prices
        <3>3. Feed!Insert(f.symbol)
            BY <2>3, <2>5, <3>1, <3>2 DEF Feed!Insert
        <3> QED BY <2>2, <3>3 DEF Feed!Next
    <2> QED BY <2>4, <2>5
<1> QED BY <1>1, <1>2, <1>3, <1>4, <1>5, Steps

\* Whatever breaks, is dropped or is reconnected, a price enters the cache only
\* for a listed symbol and only if it is newer than all of that symbol before it.
THEOREM FeedPromiseKept == Spec => KeepsFeedPromise
<1>1. Init => Feed!Init
    BY DEF Init, Feed!Init
<1>2. SessionInv /\ [Next]_vars => [Feed!Next]_(Feed!feedVars)
    BY FeedNext DEF SessionInv
<1> QED BY <1>1, <1>2, SessionAlways, PTL DEF Spec, KeepsFeedPromise, Feed!Spec
=============================================================================
