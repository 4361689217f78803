---------------------------- MODULE EventClient ----------------------------
(***************************************************************************)
(* The part of RmqClientWrapper that publishes events                      *)
(* (libs/rabbitmq/src/rmq-client-wrapper.ts).  Every service has one       *)
(* channel on one connection for all its events and makes new ones when    *)
(* they are gone.  emit() is not awaited: events are published at the same *)
(* time, and each may find the channel missing, make it, or throw it away  *)
(* while others use it.                                                    *)
(*                                                                         *)
(* An action is the code between two awaits.  Connections are numbered in  *)
(* the order in which they are opened, a channel is named by its           *)
(* connection.  The broker and amqplib are external: a connection breaks,  *)
(* a call fails or the buffer of a channel is full MaxTroubles times.      *)
(***************************************************************************)
EXTENDS Integers, Sequences

CONSTANTS
    Emits,        \* calls of emit()
    MaxTroubles   \* bound: broken connections, failed calls and full buffers

ASSUME EventClientAssumption == MaxTroubles \in Nat

VARIABLES
    emit,             \* what each call is about to do, as EmitState says
    connections,      \* the state of each connection that was opened
    handled,          \* connections with handlers for 'error' and 'close'
    eventConnection, eventChannel,  \* the fields of the wrapper
    published,        \* history: how often each event reached the exchange
    full,             \* history: events that met a full buffer
    disturbed,        \* history: events that overlapped with a failure
    muddled,          \* history: the client was set up twice at once, or half,
                      \* and something of it is left
    troubles          \* what remains of MaxTroubles

eventVars == <<emit, connections, handled, eventConnection, eventChannel,
               published, full, disturbed, muddled, troubles>>

NoConnection == 0
Opened == DOMAIN connections
IsOpen(c) == c # NoConnection /\ connections[c] = "open"

EmitState == [at : {"start", "connect", "createChannel", "assertExchange", "publish",
                    "wait", "catch", "close", "published", "lost"},
              on : Nat, again : BOOLEAN]

\* Nothing is emitted.
EventsOff ==
    /\ emit = [e \in Emits |-> [at |-> "lost", on |-> NoConnection, again |-> FALSE]]
    /\ connections = <<>> /\ handled = {}
    /\ eventConnection = NoConnection /\ eventChannel = NoConnection
    /\ published = [e \in Emits |-> 0] /\ full = {} /\ disturbed = Emits
    /\ muddled = FALSE /\ troubles = 0

\* onModuleInit has set the client up.
EventsInit ==
    /\ emit = [e \in Emits |-> [at |-> "start", on |-> NoConnection, again |-> FALSE]]
    /\ connections = <<"open">> /\ handled = {1}
    /\ eventConnection = 1 /\ eventChannel = 1
    /\ published = [e \in Emits |-> 0] /\ full = {} /\ disturbed = {}
    /\ muddled = FALSE /\ troubles = MaxTroubles

InFlight == {e \in Emits : emit[e].at \notin {"start", "published", "lost"}}
SettingUp(e) == emit[e].at \in {"connect", "createChannel", "assertExchange", "close"}

Proceed(e, label) == [emit EXCEPT ![e].at = label]

Trouble == troubles > 0 /\ troubles' = troubles - 1
NoTrouble == UNCHANGED troubles

-----------------------------------------------------------------------------
(* ensureEventChannel                                                      *)

\* Slip: the connection counts when it is missing.
HasChannelOnly == eventChannel # NoConnection /\ eventConnection = NoConnection

HasChannel == eventChannel # NoConnection /\ eventConnection # NoConnection

\* Nothing is left of earlier set-ups.
Fresh ==
    /\ InFlight = {} /\ eventConnection = NoConnection /\ eventChannel = NoConnection
    /\ \A c \in Opened : ~IsOpen(c)

\* It returns at once if there is a channel, and connects if there is none.  (The
\* "closing" it asks the connection for is a property amqplib's has not.)
EnsureEventChannel(e) ==
    /\ emit' = Proceed(e, IF HasChannel THEN "publish" ELSE "connect")
    /\ muddled' = \/ muddled /\ ~Fresh
                  \/ ~HasChannel /\ (\E other \in Emits \ {e} : SettingUp(other))

\* emit() calls publishEvent, which ensures the channel.
PublishEvent(e) ==
    /\ emit[e].at = "start"
    /\ EnsureEventChannel(e)
    /\ disturbed' = IF muddled \/ (\E other \in Emits : emit[other].at \in {"catch", "close"})
                    THEN disturbed \cup {e} ELSE disturbed
    /\ NoTrouble
    /\ UNCHANGED <<connections, handled, eventConnection, eventChannel, published, full>>

\* amqp.connect: the connection becomes that of the wrapper, whoever waits for one.
Connect(e) ==
    /\ emit[e].at = "connect"
    /\ connections' = Append(connections, "open")
    /\ eventConnection' = Len(connections')
    /\ emit' = [emit EXCEPT ![e].at = "createChannel", ![e].on = Len(connections')]
    /\ NoTrouble
    /\ UNCHANGED <<handled, eventChannel, published, full, disturbed, muddled>>

\* createChannel: so does the channel.
CreateChannel(e) ==
    /\ emit[e].at = "createChannel" /\ IsOpen(emit[e].on)
    /\ eventChannel' = emit[e].on
    /\ emit' = Proceed(e, "assertExchange")
    /\ NoTrouble
    /\ UNCHANGED <<connections, handled, eventConnection, published, full, disturbed, muddled>>

\* Slip: nothing listens to the connection.
HandlersOfNone == handled

\* The handlers go to the connection the wrapper has by now.
Handlers == handled \cup {eventConnection}

\* assertExchange, and the handlers are attached.
AssertExchange(e) ==
    /\ emit[e].at = "assertExchange" /\ IsOpen(emit[e].on)
    /\ eventConnection # NoConnection
    /\ handled' = Handlers
    /\ emit' = Proceed(e, "publish")
    /\ NoTrouble
    /\ UNCHANGED <<connections, eventConnection, eventChannel, published, full, disturbed, muddled>>

\* The event e throws: what else is under way is disturbed, and e by its own trouble.
Throws(e) ==
    /\ emit' = Proceed(e, "catch")
    /\ disturbed' = disturbed \cup IF troubles' = troubles THEN InFlight \ {e} ELSE InFlight

\* A call of the set-up fails, as it may, or must when the connection is gone or
\* another event has taken it from the wrapper: the wrapper forgets what it has.
EnsureFails(e) ==
    /\ \/ emit[e].at \in {"connect", "createChannel", "assertExchange"} /\ Trouble
       \/ emit[e].at \in {"createChannel", "assertExchange"} /\ ~IsOpen(emit[e].on) /\ NoTrouble
       \/ emit[e].at = "assertExchange" /\ eventConnection = NoConnection /\ NoTrouble
    /\ eventConnection' = NoConnection /\ eventChannel' = NoConnection
    /\ muddled' = (muddled \/ emit[e].at # "connect")
    /\ Throws(e)
    /\ UNCHANGED <<connections, handled, published, full>>

-----------------------------------------------------------------------------
(* publishEvent                                                            *)

\* The event is written to the channel; the buffer may have become full by it.
Write(e) ==
    /\ IsOpen(eventChannel)
    /\ published' = [published EXCEPT ![e] = @ + 1]
    /\ \/ emit' = Proceed(e, "published") /\ NoTrouble /\ UNCHANGED <<full, disturbed>>
       \/ /\ Trouble
          /\ full' = full \cup {e}
          /\ IF emit[e].again THEN Throws(e)
             ELSE emit' = [emit EXCEPT ![e].at = "wait", ![e].again = TRUE] /\ UNCHANGED disturbed

\* There is no channel, or its connection is no longer open.
CannotWrite(e) ==
    /\ ~IsOpen(eventChannel)
    /\ NoTrouble
    /\ Throws(e)
    /\ UNCHANGED <<published, full>>

Publish(e) ==
    /\ emit[e].at = "publish"
    /\ Write(e) \/ CannotWrite(e)
    /\ UNCHANGED <<connections, handled, eventConnection, eventChannel, muddled>>

\* 100 ms after the buffer was full the event is written again, although the
\* buffer had taken it; only a missing channel is made anew.
Retry(e) ==
    /\ emit[e].at = "wait"
    /\ \/ /\ eventChannel # NoConnection
          /\ Write(e) \/ CannotWrite(e)
          /\ UNCHANGED muddled
       \/ /\ eventChannel = NoConnection
          /\ EnsureEventChannel(e)
          /\ NoTrouble
          /\ UNCHANGED <<published, full, disturbed>>
    /\ UNCHANGED <<connections, handled, eventConnection, eventChannel>>

\* The catch block drops the channel and closes the connection the wrapper has.
Catch(e) ==
    /\ emit[e].at = "catch"
    /\ eventChannel' = NoConnection
    /\ IF eventConnection = NoConnection
       THEN emit' = Proceed(e, "lost") /\ UNCHANGED connections
       ELSE /\ emit' = [emit EXCEPT ![e].at = "close", ![e].on = eventConnection]
            /\ connections' = IF IsOpen(eventConnection)
                              THEN [connections EXCEPT ![eventConnection] = "closing"]
                              ELSE connections
    /\ muddled' = (muddled \/ (\E other \in Emits \ {e} : SettingUp(other)))
    /\ NoTrouble
    /\ UNCHANGED <<handled, eventConnection, published, full, disturbed>>

\* When it is closed, the wrapper's connection is forgotten, whichever it is now.
Closed(e) ==
    /\ emit[e].at = "close" /\ connections[emit[e].on] = "closed"
    /\ eventConnection' = NoConnection
    /\ emit' = Proceed(e, "lost")
    /\ NoTrouble
    /\ UNCHANGED <<connections, handled, eventChannel, published, full, disturbed, muddled>>

-----------------------------------------------------------------------------
(* The broker                                                              *)

\* The handlers of 'error' and 'close' forget channel and connection.
OnClose(S) ==
    IF S \cap handled = {} THEN UNCHANGED <<eventConnection, eventChannel>>
    ELSE eventConnection' = NoConnection /\ eventChannel' = NoConnection

\* The broker confirms that a connection is closed.
CloseOk(c) ==
    /\ connections[c] = "closing"
    /\ connections' = [connections EXCEPT ![c] = "closed"]
    /\ OnClose({c})
    /\ NoTrouble
    /\ UNCHANGED <<emit, handled, published, full, disturbed, muddled>>

\* Some connections break, all of them when the broker restarts.
Break(S) ==
    /\ Trouble
    /\ S # {} /\ \A c \in S : connections[c] # "closed"
    /\ connections' = [c \in Opened |-> IF c \in S THEN "closed" ELSE connections[c]]
    /\ OnClose(S)
    /\ disturbed' = disturbed \cup InFlight
    /\ muddled' = (muddled \/ \E e \in Emits : SettingUp(e) /\ emit[e].on \in S)
    /\ UNCHANGED <<emit, handled, published, full>>

EventStep(e) ==
    \/ PublishEvent(e) \/ Connect(e) \/ CreateChannel(e) \/ AssertExchange(e)
    \/ EnsureFails(e) \/ Publish(e) \/ Retry(e) \/ Catch(e) \/ Closed(e)

EventsNext ==
    \/ \E e \in Emits : EventStep(e)
    \/ \E c \in Opened : CloseOk(c)
    \/ \E S \in SUBSET Opened : Break(S)

EventsSpec == EventsInit /\ [][EventsNext]_eventVars

-----------------------------------------------------------------------------
(* Properties                                                              *)

\* An event that emit() is called with reaches the exchange, however many are
\* published at the same time and set the channel up, unless a connection broke
\* or another event failed meanwhile, or two had set the client up at once and
\* left it with two connections.  It reaches it once, unless the buffer was full.
EventsArePublished ==
    \A e \in Emits :
        /\ emit[e].at = "lost" => e \in disturbed
        /\ emit[e].at = "published" => published[e] > 0
        /\ published[e] > 1 => e \in full

\* Between events a service has the one connection it publishes on, and none
\* that nobody listens to, unless events have set it up at the same time or a
\* set-up failed half way: connections neither leak nor break unnoticed.
OneConnection ==
    (InFlight = {} /\ ~muddled) =>
        /\ {c \in Opened : connections[c] = "open"} \subseteq {eventConnection}
        /\ eventChannel = eventConnection
        /\ eventConnection # NoConnection => eventConnection \in handled /\ IsOpen(eventConnection)
=============================================================================
