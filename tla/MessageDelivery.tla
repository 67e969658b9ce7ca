-------------------------- MODULE MessageDelivery --------------------------
(***************************************************************************)
(* Delivery of the messages of ONE recipient user: the hub (ws/hub.rs),    *)
(* the socket handler (ws/handler.rs), live fan-out and offline replay     *)
(* (ws/message_service/storage.rs, fanout.rs, replay.rs) and the           *)
(* per-device ledger (db/messages.rs).                                     *)
(*                                                                         *)
(* A step ends where the code awaits the database or the socket.  A loop   *)
(* that sends without awaiting to several devices is one step: each send   *)
(* touches the state of its own device only.  Messages are numbered in     *)
(* (created_at, id) order, the order replay pages through; they commit in  *)
(* any order, because created_at is the start of the transaction.          *)
(***************************************************************************)
EXTENDS Naturals, Sequences, FiniteSets

CONSTANTS Device,         \* the recipient's devices
          Conn,           \* WebSocket handler tasks, reused once finished
          NoConn,         \* no sender channel registered for a device
          NMsg,           \* messages sent to the user
          Targets,        \* Targets[m]: device sets the sender may encrypt message m for
                          \* ({}: one canonical content)
          Cap,            \* mpsc::channel capacity, 256 in the code
          KickAt,         \* SLOW_CONSUMER_FULL_THRESHOLD, 50 in the code
          PageSize,       \* UNDELIVERED_PAGE_SIZE, 100 in the code
          MaxIterations,  \* replay pages per connection, 50 in the code
          MaxIncidents    \* bound on heartbeats and other frames, sockets that die with
                          \* frames queued, connects while an older handler of the device
                          \* lives, database errors and server restarts, together

ASSUME ConnAssumption == NoConn \notin Conn
ASSUME TargetsAssumption == Targets \in [1..NMsg -> SUBSET SUBSET Device]
ASSUME BoundAssumption == /\ NMsg \in Nat
                          /\ {Cap, KickAt, PageSize, MaxIterations} \subseteq Nat \ {0}
                          /\ MaxIncidents \in Nat

Msg == 1..NMsg
Other == [m |-> 0, kind |-> "other"]
Frame == [m : Msg, kind : {"ciphertext", "canonical", "placeholder"}]

VARIABLES
    stored,     \* messages in the messages table
    target,     \* devices the sender encrypted each message for
    rows,       \* committed message_device_contents rows of each message
    send,       \* how far handle_send_message is with each message
    fanned,     \* devices whose queue accepted the fan-out of a message
    ledger,     \* message_deliveries, as <<message, device>>
    delivered,  \* messages.delivered, with the sender's Delivered event
    hub,        \* the connection whose sender channel is registered per device
    fulls,      \* full_counters: consecutive Full results per device
    conn,       \* handler task: [pc, dev]
    queue,      \* outbound channel of each connection
    rp,         \* replay loop of each connection
    enq,        \* history: <<message, device, kind>> accepted by a queue
    seen,       \* history: <<message, device>> written to a socket
    faulty,     \* history: a socket died with frames queued, or a fault happened
    incidents   \* incidents so far

dbVars == <<stored, target, rows, ledger, delivered>>
sendVars == <<send, fanned>>
hubVars == <<hub, fulls, queue>>
connVars == <<conn, rp>>
histVars == <<enq, seen>>
bounds == <<faulty, incidents>>
vars == <<dbVars, sendVars, hubVars, connVars, histVars, bounds>>

NoReplay == [page |-> {}, last |-> "yes", ct |-> {}, any |-> {}, acc |-> {},
             cursor |-> 0, iter |-> 0]
Closed == [pc |-> "closed", dev |-> NoConn]

Init == /\ stored = {}
        /\ target = [m \in Msg |-> {}]
        /\ rows = [m \in Msg |-> {}]
        /\ send = [m \in Msg |-> "idle"]
        /\ fanned = [m \in Msg |-> {}]
        /\ ledger = {}
        /\ delivered = {}
        /\ hub = [d \in Device |-> NoConn]
        /\ fulls = [d \in Device |-> 0]
        /\ conn = [c \in Conn |-> Closed]
        /\ queue = [c \in Conn |-> <<>>]
        /\ rp = [c \in Conn |-> NoReplay]
        /\ enq = {} /\ seen = {}
        /\ faulty = FALSE /\ incidents = 0

Incident == incidents < MaxIncidents /\ incidents' = incidents + 1

\* A fault of a socket, of the database or of the server process.
Fault == Incident /\ faulty' = TRUE

-----------------------------------------------------------------------------
(* The hub. *)

\* Mutant: off by one at the capacity.
AcceptingOffByOne(D) == {d \in D : hub[d] # NoConn /\ Len(queue[hub[d]]) <= Cap}

\* Devices of D whose registered queue has room for one more frame.
Accepting(D) == {d \in D : hub[d] # NoConn /\ Len(queue[hub[d]]) < Cap}

\* Devices of D whose registered queue is full.
Saturated(D) == {d \in D : hub[d] # NoConn /\ Len(queue[hub[d]]) >= Cap}

\* record_full: the first Full, or one after the rolling window has passed
\* (late), starts the count at 1; any other adds 1 and kicks at the threshold.
Kicked(full, late) == {d \in full \ late : fulls[d] > 0 /\ fulls[d] + 1 >= KickAt}
RecordFull(late, d) == IF fulls[d] = 0 \/ d \in late THEN 1 ELSE fulls[d] + 1

\* send_to_device for each device of D: try_send_tracked on the registered channel.
TrySend(D, f) ==
  LET ok == Accepting(D)
      full == Saturated(D) IN
  \E late \in SUBSET full :
    /\ fulls' = [d \in Device |-> CASE d \in ok \cup Kicked(full, late) -> 0
                                     [] d \in full \ Kicked(full, late) -> RecordFull(late, d)
                                     [] OTHER -> fulls[d]]
    /\ hub' = [d \in Device |-> IF d \in Kicked(full, late) THEN NoConn ELSE hub[d]]
    /\ queue' = [c \in Conn |-> IF \E d \in ok : hub[d] = c
                                THEN Append(queue[c], f) ELSE queue[c]]
    /\ enq' = enq \cup {<<f.m, d, f.kind>> : d \in IF f = Other THEN {} ELSE ok}

\* register: insert replaces the channel of an earlier connection of the device.
Register(c, d) == /\ hub' = [hub EXCEPT ![d] = c]
                  /\ fulls' = [fulls EXCEPT ![d] = 0]

\* unregister works by device, whichever connection's channel is registered.
Unregister(d) == /\ hub' = [hub EXCEPT ![d] = NoConn]
                 /\ fulls' = [fulls EXCEPT ![d] = 0]

\* Heartbeats, presence, typing and receipt frames share the queue.
OtherFrame(d) == /\ Incident
                 /\ hub[d] # NoConn
                 /\ TrySend({d}, Other)
                 /\ UNCHANGED <<dbVars, sendVars, connVars, seen, faulty>>


-----------------------------------------------------------------------------
(* Sending: handle_send_message. *)

\* store_message commits the row; with no per-device ciphertexts the next
\* step is the fan-out.
StoreMessage(m) ==
  /\ m \notin stored
  /\ stored' = stored \cup {m}
  /\ \E t \in Targets[m] : /\ target' = [target EXCEPT ![m] = t]
                        /\ send' = [send EXCEPT ![m] = IF t = {} THEN "fanout" ELSE "rows"]
  /\ UNCHANGED <<rows, fanned, ledger, delivered, hubVars, connVars, histVars, bounds>>

\* persist_device_contents: an insert of its own, whose error is only logged.
PersistDeviceContents(m) ==
  /\ send[m] = "rows"
  /\ send' = [send EXCEPT ![m] = "fanout"]
  /\ \/ /\ rows' = [rows EXCEPT ![m] = target[m]]
        /\ UNCHANGED bounds
     \/ /\ Fault
        /\ UNCHANGED rows
  /\ UNCHANGED <<stored, target, fanned, ledger, delivered, hubVars, connVars, histVars>>

\* The devices the enqueue loop of fanout_message tries for this member.
FanoutDevices(m) == IF target[m] = {} THEN Device ELSE target[m]

\* fanout_message gives up when it cannot read the members.
FanoutAborts(m) ==
  /\ send[m] = "fanout"
  /\ Fault
  /\ send' = [send EXCEPT ![m] = "done"]
  /\ UNCHANGED <<dbVars, fanned, hubVars, connVars, histVars>>

\* Mutant: every device of the fan-out counts as accepted.
FanoutDeliverUnchecked(m) ==
  /\ send[m] = "fanout"
  /\ TrySend(FanoutDevices(m), [m |-> m, kind |-> "ciphertext"])
  /\ fanned' = [fanned EXCEPT ![m] = FanoutDevices(m)]
  /\ send' = [send EXCEPT ![m] = "ledger"]
  /\ UNCHANGED <<dbVars, connVars, seen, bounds>>

\* The enqueue loop of fanout_message; no database call follows if nothing was accepted.
FanoutDeliver(m) ==
  /\ send[m] = "fanout"
  /\ LET f == [m |-> m, kind |-> IF target[m] = {} THEN "canonical" ELSE "ciphertext"]
         ok == Accepting(FanoutDevices(m)) IN
     /\ TrySend(FanoutDevices(m), f)
     /\ fanned' = [fanned EXCEPT ![m] = ok]
     /\ send' = [send EXCEPT ![m] = IF ok = {} THEN "done" ELSE "ledger"]
  /\ UNCHANGED <<dbVars, connVars, seen, bounds>>

\* mark_devices_delivered_pairs; its error is only logged.
FanoutLedger(m) ==
  /\ send[m] = "ledger"
  /\ send' = [send EXCEPT ![m] = "confirm"]
  /\ \/ /\ ledger' = ledger \cup {<<m, d>> : d \in fanned[m]}
        /\ UNCHANGED bounds
     \/ /\ Fault
        /\ UNCHANGED ledger
  /\ fanned' = [fanned EXCEPT ![m] = {}]
  /\ UNCHANGED <<stored, target, rows, delivered, hubVars, connVars, histVars>>

\* send_delivery_confirmation: the sender is told whether or not mark_delivered failed.
FanoutConfirm(m) ==
  /\ send[m] = "confirm"
  /\ send' = [send EXCEPT ![m] = "done"]
  /\ delivered' = delivered \cup {m}
  /\ UNCHANGED <<stored, target, rows, fanned, ledger, hubVars, connVars, histVars, bounds>>

-----------------------------------------------------------------------------
(* The handler task of a connection: handle_socket and its offline replay. *)

Goto(c, pc) == conn' = [conn EXCEPT ![c].pc = pc]
Close(c) == conn' = [conn EXCEPT ![c] = Closed]
Live(c) == conn[c].pc # "closed"

\* The upgrade registers a fresh channel; the replay loop follows at once.
Connect(c, d) ==
  /\ ~Live(c)
  /\ LET overlapping == \E o \in Conn : Live(o) /\ conn[o].dev = d IN
     IF overlapping THEN Incident ELSE UNCHANGED incidents
  /\ Register(c, d)
  /\ conn' = [conn EXCEPT ![c] = [pc |-> "page", dev |-> d]]
  /\ UNCHANGED <<dbVars, sendVars, queue, rp, histVars, faulty>>

\* get_undelivered: the first PageSize messages after the cursor with no
\* ledger row for the device.  No rows, or an error, ends the replay.
Undelivered(c) == {m \in stored : m > rp[c].cursor /\ <<m, conn[c].dev>> \notin ledger}
Page(c) == {m \in Undelivered(c) : Cardinality({k \in Undelivered(c) : k < m}) < PageSize}

ReplayEnds(c) == Goto(c, "open") /\ rp' = [rp EXCEPT ![c] = NoReplay]

ReplayPage(c) ==
  /\ conn[c].pc = "page"
  /\ \/ Fault /\ ReplayEnds(c)
     \/ Page(c) = {} /\ ReplayEnds(c) /\ UNCHANGED bounds
     \/ /\ Page(c) # {}
        /\ Goto(c, "contents")
        /\ rp' = [rp EXCEPT ![c].page = Page(c),
                            ![c].last = IF Cardinality(Page(c)) = PageSize THEN "no" ELSE "yes",
                            ![c].acc = {},
                            ![c].cursor = CHOOSE m \in Page(c) : \A k \in Page(c) : k <= m,
                            ![c].iter = @ + 1]
        /\ UNCHANGED bounds
  /\ UNCHANGED <<dbVars, sendVars, hubVars, histVars>>

\* get_device_contents_batch: messages of the page with a row for this device.
\* An error counts as no row (unwrap_or_default).
ReplayContents(c) ==
  /\ conn[c].pc = "contents"
  /\ \/ /\ rp' = [rp EXCEPT ![c].ct = {m \in rp[c].page : conn[c].dev \in rows[m]}]
        /\ UNCHANGED bounds
     \/ /\ Fault
        /\ rp' = [rp EXCEPT ![c].ct = {}]
  /\ Goto(c, "anyrow")
  /\ UNCHANGED <<dbVars, sendVars, hubVars, histVars>>

\* message_ids_with_any_device_content, a second query.
ReplayAnyRow(c) ==
  /\ conn[c].pc = "anyrow"
  /\ \/ /\ rp' = [rp EXCEPT ![c].any = {m \in rp[c].page : rows[m] # {}}]
        /\ UNCHANGED bounds
     \/ /\ Fault
        /\ rp' = [rp EXCEPT ![c].any = {}]
  /\ Goto(c, "send")
  /\ UNCHANGED <<dbVars, sendVars, hubVars, histVars>>

\* classify_replay_content.
Kind(c, m) == IF m \in rp[c].ct THEN "ciphertext"
              ELSE IF m \in rp[c].any THEN "placeholder" ELSE "canonical"

\* Mutant: the result of send_to_device is ignored.
ReplaySendUnchecked(c) ==
  /\ conn[c].pc = "send"
  /\ \E m \in rp[c].page :
       /\ \A k \in rp[c].page : m <= k
       /\ TrySend({conn[c].dev}, [m |-> m, kind |-> Kind(c, m)])
       /\ rp' = [rp EXCEPT ![c].page = @ \ {m}, ![c].acc = @ \cup {m}]
       /\ Goto(c, IF rp[c].page = {m} THEN "ledger" ELSE "send")
  /\ UNCHANGED <<dbVars, sendVars, seen, bounds>>

\* One turn of the send loop of deliver_one_batch.  The frame goes to
\* whichever connection is registered for the device.
ReplaySend(c) ==
  /\ conn[c].pc = "send"
  /\ \E m \in rp[c].page :
       /\ \A k \in rp[c].page : m <= k
       /\ TrySend({conn[c].dev}, [m |-> m, kind |-> Kind(c, m)])
       /\ rp' = [rp EXCEPT ![c].page = @ \ {m},
                           ![c].acc = IF conn[c].dev \in Accepting({conn[c].dev})
                                      THEN @ \cup {m} ELSE @]
       /\ Goto(c, IF rp[c].page = {m} THEN "ledger" ELSE "send")
  /\ UNCHANGED <<dbVars, sendVars, seen, bounds>>

\* The next page, unless this was the last.
NextPage(c) ==
  IF rp[c].last = "no" /\ rp[c].iter < MaxIterations
  THEN /\ Goto(c, "page")
       /\ rp' = [rp EXCEPT ![c] = [NoReplay EXCEPT !.cursor = rp[c].cursor, !.iter = rp[c].iter]]
  ELSE ReplayEnds(c)

\* Accepted frames that carried content.
Content(c) == {m \in rp[c].acc : Kind(c, m) # "placeholder"}

\* mark_device_delivered_batch; its error is ignored.
ReplayLedger(c) ==
  /\ conn[c].pc = "ledger"
  /\ \/ /\ ledger' = ledger \cup {<<m, conn[c].dev>> : m \in rp[c].acc}
        /\ UNCHANGED bounds
     \/ /\ Fault
        /\ UNCHANGED ledger
  /\ IF Content(c) = {} THEN NextPage(c) ELSE Goto(c, "confirm") /\ UNCHANGED rp
  /\ UNCHANGED <<stored, target, rows, delivered, sendVars, hubVars, histVars>>

\* mark_delivered (its error ignored) and the Delivered events.
ReplayConfirm(c) ==
  /\ conn[c].pc = "confirm"
  /\ delivered' = delivered \cup Content(c)
  /\ NextPage(c)
  /\ UNCHANGED <<stored, target, rows, ledger, sendVars, hubVars, histVars, bounds>>

\* send_fut forwards the queue to the socket.  It is polled only after the
\* replay has finished.
SocketWrite(c) ==
  /\ conn[c].pc \in {"open", "draining"}
  /\ queue[c] # <<>>
  /\ queue' = [queue EXCEPT ![c] = Tail(@)]
  /\ LET f == Head(queue[c]) IN
     seen' = IF f = Other THEN seen ELSE seen \cup {<<f.m, conn[c].dev>>}
  /\ UNCHANGED <<dbVars, sendVars, hub, fulls, connVars, enq, bounds>>

\* recv returns None once no channel of this connection is registered.
SendEnds(c) ==
  /\ conn[c].pc = "open"
  /\ queue[c] = <<>>
  /\ hub[conn[c].dev] # c
  /\ Unregister(conn[c].dev)
  /\ Close(c)
  /\ UNCHANGED <<dbVars, sendVars, queue, rp, histVars, bounds>>

\* Mutant: the receive arm forgets to unregister.
RecvEndsRegistered(c) ==
  /\ conn[c].pc = "open"
  /\ Goto(c, "draining")
  /\ UNCHANGED <<dbVars, sendVars, hubVars, rp, histVars, bounds>>

\* The receive loop ends: unregister, then drain what is buffered.
RecvEnds(c) ==
  /\ conn[c].pc = "open"
  /\ Unregister(conn[c].dev)
  /\ Goto(c, "draining")
  /\ UNCHANGED <<dbVars, sendVars, queue, rp, histVars, bounds>>

DrainEnds(c) ==
  /\ conn[c].pc = "draining"
  /\ queue[c] = <<>>
  /\ Close(c)
  /\ UNCHANGED <<dbVars, sendVars, hubVars, rp, histVars, bounds>>

\* A write fails, or the 50 ms drain times out: the frames still queued are dropped.
SocketDies(c) ==
  /\ Fault
  /\ conn[c].pc \in {"open", "draining"}
  /\ queue[c] # <<>>
  /\ IF conn[c].pc = "open" THEN Unregister(conn[c].dev) ELSE UNCHANGED <<hub, fulls>>
  /\ queue' = [queue EXCEPT ![c] = <<>>]
  /\ Close(c)
  /\ UNCHANGED <<dbVars, sendVars, rp, histVars>>

\* The server process restarts: only the database survives.
Restart ==
  /\ Fault
  /\ send' = [m \in Msg |-> IF send[m] = "idle" THEN "idle" ELSE "done"]
  /\ fanned' = [m \in Msg |-> {}]
  /\ hub' = [d \in Device |-> NoConn]
  /\ fulls' = [d \in Device |-> 0]
  /\ queue' = [c \in Conn |-> <<>>]
  /\ conn' = [c \in Conn |-> Closed]
  /\ rp' = [c \in Conn |-> NoReplay]
  /\ UNCHANGED <<dbVars, histVars>>

Next == \/ \E m \in Msg : \/ StoreMessage(m)
                          \/ PersistDeviceContents(m)
                          \/ FanoutAborts(m)
                          \/ FanoutDeliver(m)
                          \/ FanoutLedger(m)
                          \/ FanoutConfirm(m)
        \/ \E d \in Device : OtherFrame(d)
        \/ \E c \in Conn, d \in Device : Connect(c, d)
        \/ \E c \in Conn : \/ ReplayPage(c)
                           \/ ReplayContents(c)
                           \/ ReplayAnyRow(c)
                           \/ ReplaySend(c)
                           \/ ReplayLedger(c)
                           \/ ReplayConfirm(c)
                           \/ SocketWrite(c)
                           \/ SendEnds(c)
                           \/ RecvEnds(c)
                           \/ DrainEnds(c)
                           \/ SocketDies(c)
        \/ Restart

Spec == Init /\ [][Next]_vars

\* Every task the runtime can poll is polled: the send handlers and the replay
\* loops.  Nothing is assumed of the peer: it need not read, close its socket or
\* connect.
Fairness == /\ \A m \in Msg : WF_vars(\/ PersistDeviceContents(m) \/ FanoutDeliver(m)
                                     \/ FanoutLedger(m) \/ FanoutConfirm(m))
            /\ \A c \in Conn : WF_vars(\/ ReplayPage(c) \/ ReplayContents(c) \/ ReplayAnyRow(c)
                                         \/ ReplaySend(c) \/ ReplayLedger(c) \/ ReplayConfirm(c))

FairSpec == Spec /\ Fairness

-----------------------------------------------------------------------------
(* Properties. *)

\* Every variable has the type the code gives it, and no queue exceeds its
\* channel's capacity.
TypeOK ==
  /\ stored \subseteq Msg
  /\ target \in [Msg -> SUBSET Device]
  /\ rows \in [Msg -> SUBSET Device]
  /\ send \in [Msg -> {"idle", "rows", "fanout", "ledger", "confirm", "done"}]
  /\ fanned \in [Msg -> SUBSET Device]
  /\ ledger \subseteq Msg \X Device
  /\ delivered \subseteq Msg
  /\ hub \in [Device -> Conn \cup {NoConn}]
  /\ fulls \in [Device -> 0..KickAt]
  /\ conn \in [Conn -> [pc : {"closed", "page", "contents", "anyrow", "send", "ledger",
                              "confirm", "open", "draining"},
                        dev : Device \cup {NoConn}]]
  /\ queue \in [Conn -> Seq(Frame \cup {Other})]
  /\ \A c \in Conn : Len(queue[c]) <= Cap
  /\ rp \in [Conn -> [page : SUBSET Msg, last : {"yes", "no"}, ct : SUBSET Msg,
                      any : SUBSET Msg, acc : SUBSET Msg, cursor : 0..NMsg,
                      iter : 0..MaxIterations]]
  /\ enq \subseteq Msg \X Device \X {"ciphertext", "canonical", "placeholder"}
  /\ seen \subseteq Msg \X Device
  /\ faulty \in BOOLEAN /\ incidents \in 0..MaxIncidents

Handed == {<<t[1], t[2]>> : t \in enq}
Readable == {<<t[1], t[2]>> : t \in {u \in enq : u[3] # "placeholder"}}

\* The detailed delivery implements the contract: nothing reaches the ledger
\* or the sender's delivered mark before a queue has accepted the frame, and
\* the ledger never forgets a pair (fanout_message, deliver_one_batch).
Contract == INSTANCE DeliveryContract
              WITH handed <- Handed, readable <- Readable,
                   recorded <- ledger, ticked <- delivered
ContractSpec == Contract!Spec

\* A channel in the hub belongs to a running handler of that very device that
\* has not begun its tear-down, whatever connections replace one another
\* (register, unregister).
NoDeadRegistration ==
  \A d \in Device : hub[d] # NoConn => /\ conn[hub[d]].dev = d
                                       /\ conn[hub[d]].pc \notin {"closed", "draining"}

\* While sockets and the server last, a pair in the ledger was written to a
\* socket of the device or waits in the queue of one of its live connections:
\* kicks, replaced connections and late unregistrations lose no frame that
\* "confirmed enqueue" recorded.
RecordedNotLost ==
  ~faulty =>
    \A p \in ledger :
      \/ p \in seen
      \/ \E c \in Conn : /\ conn[c].dev = p[2]
                         /\ \E i \in 1..Len(queue[c]) : queue[c][i].m = p[1]

\* No handler of the device is running.
Away(d) == \A c \in Conn : Live(c) => conn[c].dev # d

\* A device that keeps going away and coming back is handed every stored
\* message at some time, across full queues, kicks, overlapping connections,
\* backlogs longer than one connection replays, failed database calls and
\* restarts.  One connection is not enough: a frame its full queue refused waits
\* for the next ("leaving as undelivered for next reconnect").
EventuallyHanded ==
  \A d \in Device :
    []<>Away(d) /\ []<>~Away(d) =>
      \A m \in Msg : (m \in stored) ~> (<<m, d>> \in Handed)
=============================================================================
