---------------------------- MODULE AttemptBroker ----------------------------
(***************************************************************************)
(* The attempt broker of light-workflow-runner (broker.rs), its table in   *)
(* the runner journal (journal.rs).  A worker asks the broker, over any    *)
(* number of connections, to call a provider on its behalf or to hand out  *)
(* its short-lived credential.  Every connection has a handler of its own; *)
(* the handlers share the set of active request ids and the journal, and   *)
(* outlive the accept loop that spawned them.                              *)
(*                                                                         *)
(* A request is an id and a content; the content stands for its digest and *)
(* decides its route and what it is charged.  An answer of the provider,   *)
(* and a generation of the credential, are members of sets of their own.   *)
(***************************************************************************)
EXTENDS Naturals, FiniteSets

CONSTANTS
    Conn,            \* connections, each with a handler
    Req,             \* request ids a worker uses
    Content,         \* contents of requests
    Refused,         \* contents that dispatch refuses before the journal
    Credentials,     \* contents on the route that delivers the credential
    Resource,        \* what is metered besides requests: tokens, cost
    Charge,          \* what a content is charged
    MaxRequests,     \* grant.maximum_requests
    Maximum,         \* grant.maximum_tokens, grant.maximum_cost_micros
    Answer,          \* bodies the provider may answer with
    Secret,          \* generations of the credential envelope
    None,            \* no content, no answer, no envelope
    JournalMayFail,  \* whether SQLite calls may return errors
    ProcessMayDie    \* whether the runner dies and a broker is bound again

ASSUME RequestAssumption == IsFiniteSet(Req)
ASSUME NoneAssumption == None \notin Content \cup Answer \cup Secret
ASSUME ChargeAssumption ==
    /\ Charge \in [Content -> [Resource -> Nat]]
    /\ Maximum \in [Resource -> Nat]
    /\ MaxRequests \in Nat \ {0}
ASSUME SecretAssumption == Secret \cap Answer = {}
ASSUME SwitchAssumption == JournalMayFail \in BOOLEAN /\ ProcessMayDie \in BOOLEAN

VARIABLES
    rows,       \* durable: broker_request_journal of this execution
    envelope,   \* external: the credential file, None when it is not usable
    expired,    \* the grant has expired
    serving,    \* the accept loop; "dead" when the runner has died
    active,     \* active_requests
    flagged,    \* the value of the unknown_outcome channel
    conn,       \* the handlers
    sent,       \* history: calls of outbound.send per request id
    delivered   \* history: what the worker was answered per request id

clock      == <<envelope, expired>>
history    == <<sent, delivered>>
brokerVars == <<rows, clock, serving, active, flagged, conn, history>>

RequestState == {"ABSENT", "IN_FLIGHT", "COMPLETED", "UNKNOWN"}

(* Of the usage in a reply, the number of requests is kept.                *)
Reply   == [body : Answer \cup Secret \cup {None}, used : Nat]
NoReply == [body |-> None, used |-> 0]

Row   == [state : RequestState, content : Content \cup {None}, reply : Reply]
NoRow == [state |-> "ABSENT", content |-> None, reply |-> NoReply]

(* Where a handler is: before the step it is named for.                    *)
HandlerState ==
    {"idle", "reading", "dispatch", "send", "await", "mark", "flag",
     "deliver", "usage", "complete", "answered", "failed", "reply"}

Handler == [pc : HandlerState, req : Req \cup {None},
            content : Content \cup {None}, replay : BOOLEAN, reply : Reply]
Idle    == [pc |-> "idle", req |-> None, content |-> None, replay |-> FALSE, reply |-> NoReply]

(* The state has its types: rows, handlers and counters as the code keeps  *)
(* them in SQLite, in the handler's locals and in the channels.            *)
BrokerTypeOK ==
    /\ rows      \in [Req -> Row]
    /\ envelope  \in Secret \cup {None}
    /\ expired   \in BOOLEAN
    /\ serving   \in {"serving", "stopped", "error", "dead"}
    /\ active    \in SUBSET Req
    /\ flagged   \in BOOLEAN
    /\ conn      \in [Conn -> Handler]
    /\ sent      \in [Req -> Nat]
    /\ delivered \in [Req -> SUBSET [content : Content, reply : Reply]]

BrokerInit ==
    /\ rows      = [r \in Req |-> NoRow]
    /\ envelope  \in Secret
    /\ expired   = FALSE
    /\ serving   = "serving"
    /\ active    = {}
    /\ flagged   = FALSE
    /\ conn      = [c \in Conn |-> Idle]
    /\ sent      = [r \in Req |-> 0]
    /\ delivered = [r \in Req |-> {}]

-----------------------------------------------------------------------------
(* The table.                                                              *)

(* A bug: only what has been completed counts against the budget.          *)
RecordedCompletedOnly == {r \in Req : rows[r].state = "COMPLETED"}

Recorded == {r \in Req : rows[r].state # "ABSENT"}

(* broker_usage: every recorded request counts, whatever became of it.     *)
(* The sum over the rows is the number of units they were charged.         *)
Units(m)   == UNION {{r} \X (1..Charge[rows[r].content][m]) : r \in Recorded}
Charged(m) == Cardinality(Units(m))

WithinGrant(b) ==
    /\ Cardinality(Recorded) < MaxRequests
    /\ \A m \in Resource : Charged(m) + Charge[b][m] <= Maximum[m]

Admitted(r, b) == [rows EXCEPT ![r] = [state |-> "IN_FLIGHT", content |-> b, reply |-> NoReply]]

(* UPDATE ... WHERE state='IN_FLIGHT'                                      *)
MarkedUnknown(r) ==
    [rows EXCEPT ![r] = IF @.state = "IN_FLIGHT" THEN [@ EXCEPT !.state = "UNKNOWN"] ELSE @]

Completed(r, reply) ==
    [rows EXCEPT ![r] = [@ EXCEPT !.state = "COMPLETED", !.reply = reply]]

-----------------------------------------------------------------------------
(* handle: one request per connection.                                     *)

Goto(c, pc) == conn' = [conn EXCEPT ![c].pc = pc]
Close(c)    == conn' = [conn EXCEPT ![c] = Idle]

At(c, pc) == conn[c].pc = pc

(* The step touches nothing but the handler itself.                        *)
OnlyHandler == UNCHANGED <<rows, clock, serving, active, flagged, history>>

(* serve: a connection is accepted and a handler spawned.                  *)
Accept(c) ==
    /\ serving = "serving"
    /\ At(c, "idle")
    /\ Goto(c, "reading")
    /\ OnlyHandler

(* The frame is too long, never ends, or is no request.                    *)
ReadFails(c) ==
    /\ At(c, "reading")
    /\ Close(c)
    /\ OnlyHandler

Receive(c, r, b) ==
    /\ At(c, "reading")
    /\ r \notin active
    /\ conn'   = [conn EXCEPT ![c] = [Idle EXCEPT !.pc = "dispatch", !.req = r, !.content = b]]
    /\ active' = active \cup {r}
    /\ UNCHANGED <<rows, clock, serving, flagged, history>>

RefuseActive(c, r) ==
    /\ At(c, "reading")
    /\ r \in active
    /\ Close(c)
    /\ OnlyHandler

(* dispatch returned: the id is released, then the answer is written.      *)
Finish(c) ==
    /\ At(c, "answered")
    /\ active' = active \ {conn[c].req}
    /\ Goto(c, "reply")
    /\ UNCHANGED <<rows, clock, serving, flagged, history>>

(* A bug: an error leaves the function before the id is released.          *)
FinishFailedEarly(c) ==
    /\ At(c, "failed")
    /\ Close(c)
    /\ OnlyHandler

FinishFailed(c) ==
    /\ At(c, "failed")
    /\ active' = active \ {conn[c].req}
    /\ Close(c)
    /\ UNCHANGED <<rows, clock, serving, flagged, history>>

(* The worker may be gone before the answer is written.                    *)
Respond(c) ==
    /\ At(c, "reply")
    /\ delivered' \in {delivered, [delivered EXCEPT ![conn[c].req] =
           @ \cup {[content |-> conn[c].content, reply |-> conn[c].reply]}]}
    /\ Close(c)
    /\ UNCHANGED <<rows, clock, serving, active, flagged, sent>>

-----------------------------------------------------------------------------
(* dispatch, up to begin_broker_request: one SQLite transaction.           *)

Existing(c) == rows[conn[c].req]

(* Identity, authority, method, path, route and body are checked first;    *)
(* the durable fence is the one this execution was recorded with.          *)
Admissible(c) == At(c, "dispatch") /\ ~expired /\ conn[c].content \notin Refused
Repeats(c)    == Admissible(c) /\ Existing(c).content = conn[c].content

Refuse(c) ==
    /\ At(c, "dispatch")
    /\ expired \/ conn[c].content \in Refused
    /\ Goto(c, "failed")
    /\ OnlyHandler

BeginReused(c) ==
    /\ Admissible(c)
    /\ Existing(c).content \notin {None, conn[c].content}
    /\ Goto(c, "failed")
    /\ OnlyHandler

(* COMPLETED: the recorded reply is returned; the credential route, whose  *)
(* recorded reply is redacted, reads the current credential instead.       *)
BeginReplay(c) ==
    /\ Repeats(c)
    /\ Existing(c).state = "COMPLETED"
    /\ conn' = [conn EXCEPT ![c] =
           IF conn[c].content \in Credentials
           THEN [@ EXCEPT !.pc = "deliver", !.replay = TRUE]
           ELSE [@ EXCEPT !.pc = "answered", !.replay = TRUE, !.reply = Existing(c).reply]]
    /\ OnlyHandler

(* A bug: an interrupted request is taken up again.                        *)
BeginInterruptedResumes(c) ==
    /\ Repeats(c)
    /\ Existing(c).state = "IN_FLIGHT"
    /\ Goto(c, IF conn[c].content \in Credentials THEN "deliver" ELSE "send")
    /\ OnlyHandler

(* IN_FLIGHT and not active: whoever began it did not finish it.           *)
BeginInterrupted(c) ==
    /\ Repeats(c)
    /\ Existing(c).state = "IN_FLIGHT"
    /\ rows' = MarkedUnknown(conn[c].req)
    /\ Goto(c, "flag")
    /\ UNCHANGED <<clock, serving, active, flagged, history>>

(* A bug: a request whose outcome is unknown may be tried again.           *)
BeginUnknownRetries(c) ==
    /\ Repeats(c)
    /\ Existing(c).state = "UNKNOWN"
    /\ rows' = Admitted(conn[c].req, conn[c].content)
    /\ Goto(c, IF conn[c].content \in Credentials THEN "deliver" ELSE "send")
    /\ UNCHANGED <<clock, serving, active, flagged, history>>

BeginUnknown(c) ==
    /\ Repeats(c)
    /\ Existing(c).state = "UNKNOWN"
    /\ Goto(c, "flag")
    /\ OnlyHandler

BeginOverBudget(c) ==
    /\ Admissible(c)
    /\ Existing(c).state = "ABSENT"
    /\ ~WithinGrant(conn[c].content)
    /\ Goto(c, "failed")
    /\ OnlyHandler

BeginNew(c) ==
    /\ Admissible(c)
    /\ Existing(c).state = "ABSENT"
    /\ WithinGrant(conn[c].content)
    /\ rows' = Admitted(conn[c].req, conn[c].content)
    /\ Goto(c, IF conn[c].content \in Credentials THEN "deliver" ELSE "send")
    /\ UNCHANGED <<clock, serving, active, flagged, history>>

(* The transaction fails, or it commits and the checkpoint after it fails. *)
BeginFails(c) ==
    /\ JournalMayFail
    /\ Admissible(c)
    /\ \/ UNCHANGED rows
       \/ /\ Existing(c).state = "ABSENT"
          /\ WithinGrant(conn[c].content)
          /\ rows' = Admitted(conn[c].req, conn[c].content)
       \/ /\ Repeats(c)
          /\ rows' = MarkedUnknown(conn[c].req)
    /\ Goto(c, "failed")
    /\ UNCHANGED <<clock, serving, active, flagged, history>>

-----------------------------------------------------------------------------
(* dispatch, a provider route.                                             *)

Send(c) ==
    /\ At(c, "send")
    /\ sent' = [sent EXCEPT ![conn[c].req] = @ + 1]
    /\ Goto(c, "await")
    /\ UNCHANGED <<rows, clock, serving, active, flagged, delivered>>

Receives(c, a) ==
    /\ At(c, "await")
    /\ conn' = [conn EXCEPT ![c].pc = "usage", ![c].reply.body = a]
    /\ OnlyHandler

(* No answer within the client's timeout, or one that cannot be read to    *)
(* its end within the admitted size.                                       *)
AnswerLost(c) ==
    /\ At(c, "await")
    /\ Goto(c, "mark")
    /\ OnlyHandler

MarkUnknown(c) ==
    /\ At(c, "mark")
    /\ rows' = MarkedUnknown(conn[c].req)
    /\ Goto(c, "flag")
    /\ UNCHANGED <<clock, serving, active, flagged, history>>

(* An error of the journal returns before the channel is set.              *)
MarkFails(c) ==
    /\ JournalMayFail
    /\ At(c, "mark")
    /\ rows' \in {rows, MarkedUnknown(conn[c].req)}
    /\ Goto(c, "failed")
    /\ UNCHANGED <<clock, serving, active, flagged, history>>

(* A bug: the request fails and nobody is told why.                        *)
RaiseFlagSilently(c) ==
    /\ At(c, "flag")
    /\ Goto(c, "failed")
    /\ OnlyHandler

RaiseFlag(c) ==
    /\ At(c, "flag")
    /\ flagged' = TRUE
    /\ Goto(c, "failed")
    /\ UNCHANGED <<rows, clock, serving, active, history>>

-----------------------------------------------------------------------------
(* dispatch, the route that hands out the attempt's credential.            *)

Deliver(c) ==
    /\ At(c, "deliver")
    /\ envelope # None
    /\ conn' = [conn EXCEPT ![c].pc = "usage", ![c].reply.body = envelope]
    /\ OnlyHandler

(* A new request stays IN_FLIGHT.                                          *)
DeliverFails(c) ==
    /\ At(c, "deliver")
    /\ envelope = None
    /\ Goto(c, "failed")
    /\ OnlyHandler

-----------------------------------------------------------------------------
(* dispatch, the end of both routes: usage, record, answer.                *)

ReadUsage(c) ==
    /\ At(c, "usage")
    /\ conn' = [conn EXCEPT ![c].pc = IF conn[c].replay THEN "answered" ELSE "complete",
                            ![c].reply.used = Cardinality(Recorded)]
    /\ OnlyHandler

UsageFails(c) ==
    /\ JournalMayFail
    /\ At(c, "usage")
    /\ Goto(c, "failed")
    /\ OnlyHandler

(* complete_broker_request_redacted on the credential route.               *)
Redacted(c) ==
    IF conn[c].content \in Credentials
    THEN [conn[c].reply EXCEPT !.body = None]
    ELSE conn[c].reply

(* A bug: the answer is returned before it is durable.                     *)
CompleteNotRecorded(c) ==
    /\ At(c, "complete")
    /\ Goto(c, "answered")
    /\ OnlyHandler

Complete(c) ==
    /\ At(c, "complete")
    /\ Existing(c).state = "IN_FLIGHT"
    /\ rows' = Completed(conn[c].req, Redacted(c))
    /\ Goto(c, "answered")
    /\ UNCHANGED <<clock, serving, active, flagged, history>>

(* The row is no longer in flight, the write fails, or the checkpoint      *)
(* after it does.                                                          *)
CompleteFails(c) ==
    /\ At(c, "complete")
    /\ JournalMayFail \/ Existing(c).state # "IN_FLIGHT"
    /\ \/ UNCHANGED rows
       \/ Existing(c).state = "IN_FLIGHT" /\ rows' = Completed(conn[c].req, Redacted(c))
    /\ Goto(c, "failed")
    /\ UNCHANGED <<clock, serving, active, flagged, history>>

HandlerStep(c) ==
    \/ ReadFails(c)
    \/ \E r \in Req : RefuseActive(c, r) \/ \E b \in Content : Receive(c, r, b)
    \/ Finish(c) \/ FinishFailed(c) \/ Respond(c)
    \/ Refuse(c) \/ BeginReused(c) \/ BeginReplay(c) \/ BeginInterrupted(c)
    \/ BeginUnknown(c) \/ BeginOverBudget(c) \/ BeginNew(c) \/ BeginFails(c)
    \/ Send(c) \/ AnswerLost(c) \/ \E a \in Answer : Receives(c, a)
    \/ MarkUnknown(c) \/ MarkFails(c) \/ RaiseFlag(c)
    \/ Deliver(c) \/ DeliverFails(c)
    \/ ReadUsage(c) \/ UsageFails(c) \/ Complete(c) \/ CompleteFails(c)

-----------------------------------------------------------------------------
(* The accept loop, the runner's death, time and the credential.           *)

(* The shutdown channel is set or closed.  Handlers are tasks of their own *)
(* and are not stopped.                                                    *)
StopServing ==
    /\ serving = "serving"
    /\ serving' = "stopped"
    /\ UNCHANGED <<rows, clock, active, flagged, conn, history>>

(* accept() or peer_cred() returns an error.                               *)
ServeFails ==
    /\ serving = "serving"
    /\ serving' = "error"
    /\ UNCHANGED <<rows, clock, active, flagged, conn, history>>

Crash ==
    /\ ProcessMayDie
    /\ serving # "dead"
    /\ serving' = "dead"
    /\ active'  = {}
    /\ flagged' = FALSE
    /\ conn'    = [c \in Conn |-> Idle]
    /\ UNCHANGED <<rows, clock, history>>

(* A broker is bound again for the same execution over the same journal.   *)
Bind ==
    /\ serving = "dead"
    /\ ~expired
    /\ serving' = "serving"
    /\ UNCHANGED <<rows, clock, active, flagged, conn, history>>

Expire ==
    /\ ~expired
    /\ expired' = TRUE
    /\ UNCHANGED <<rows, envelope, serving, active, flagged, conn, history>>

(* The issuer rotates the envelope, or it is revoked or runs out.          *)
Rotate(s) ==
    /\ envelope' = s
    /\ envelope' # envelope
    /\ UNCHANGED <<rows, expired, serving, active, flagged, conn, history>>

BrokerNext ==
    \/ \E c \in Conn : Accept(c) \/ HandlerStep(c)
    \/ StopServing \/ ServeFails \/ Crash \/ Bind
    \/ Expire \/ \E s \in Secret \cup {None} : Rotate(s)

BrokerSpec == BrokerInit /\ [][BrokerNext]_brokerVars

(* tokio polls every spawned handler, and the HTTP client ends at the      *)
(* latest with its timeout.  Nothing is assumed of the worker, which may   *)
(* never finish the frame it writes.                                       *)
Dispatching(c) == HandlerStep(c) /\ ~At(c, "reading")
HandlerFairness == \A c \in Conn : WF_brokerVars(Dispatching(c))

FairBrokerSpec == BrokerSpec /\ HandlerFairness
-----------------------------------------------------------------------------
(* Properties.                                                             *)

(* The provider is called at most once per request id, whatever the        *)
(* worker repeats and whenever the runner dies: "it never silently         *)
(* reissues the effect".                                                   *)
AtMostOneSend == \A r \in Req : sent[r] <= 1

(* Parallel admissions never exceed the grant, counting requests that      *)
(* failed or whose outcome is unknown (begin_broker_request).              *)
WithinBudget ==
    /\ Cardinality(Recorded) <= MaxRequests
    /\ \A m \in Resource : Charged(m) <= Maximum[m]

(* What the worker was answered is durable: the request is COMPLETED with  *)
(* the same content and, except for the credential, with the very reply    *)
(* that a repetition would get.                                            *)
ReplyRecorded ==
    \A r \in Req : \A d \in delivered[r] :
        /\ rows[r].state = "COMPLETED"
        /\ rows[r].content = d.content
        /\ d.content \notin Credentials => rows[r].reply = d.reply

(* The credential reaches the worker and never the journal.                *)
SecretsNotStored == \A r \in Req : rows[r].reply.body \notin Secret

(* While a handler works on a request it admitted, nobody else settles it: *)
(* the row is in flight, with the content it was admitted with.            *)
Working(c) ==
    \/ conn[c].pc \in {"send", "await", "mark", "complete"}
    \/ conn[c].pc \in {"deliver", "usage"} /\ ~conn[c].replay

OwnedRow ==
    \A c \in Conn : Working(c) =>
        /\ rows[conn[c].req].state = "IN_FLIGHT"
        /\ rows[conn[c].req].content = conn[c].content

(* A row that is COMPLETED or UNKNOWN is final for the broker: neither a   *)
(* late answer nor a repetition changes it.                                *)
SettledRowsStay ==
    [][\A r \in Req : rows[r].state \in {"COMPLETED", "UNKNOWN"} => rows'[r] = rows[r]]_brokerVars

(* No request id stays active for ever, or the worker could never repeat   *)
(* the request (handle releases the id on every path).                     *)
IdsReleased == \A r \in Req : r \in active ~> r \notin active

-----------------------------------------------------------------------------
(* The inductive invariant.                                                *)

(* A handler between insert and remove holds its request id in the set,    *)
(* and no other handler holds the same.                                    *)
Holding(c) == conn[c].pc \notin {"idle", "reading", "reply"}

Exclusive ==
    /\ \A c \in Conn : conn[c].pc \notin {"idle", "reading"} => conn[c].req \in Req /\ conn[c].content \in Content
    /\ \A c \in Conn : Holding(c) => conn[c].req \in active
    /\ \A c, d \in Conn : Holding(c) /\ Holding(d) /\ conn[c].req = conn[d].req => c = d

(* A row has a content unless it is absent.                                *)
RowsFilled == \A r \in Req : rows[r].state = "ABSENT" <=> rows[r].content = None

(* A request that was never admitted, or is about to be sent, was not sent. *)
Unsent ==
    /\ \A r \in Req : rows[r].state = "ABSENT" => sent[r] = 0
    /\ \A c \in Conn : conn[c].pc = "send" => sent[conn[c].req] = 0

(* What a handler is about to answer is recorded.                          *)
Answering(c) ==
    \/ conn[c].pc \in {"answered", "reply"}
    \/ conn[c].pc \in {"deliver", "usage"} /\ conn[c].replay

AnswerRecorded ==
    \A c \in Conn : Answering(c) =>
        /\ rows[conn[c].req].state = "COMPLETED"
        /\ rows[conn[c].req].content = conn[c].content
        /\ conn[c].content \notin Credentials =>
               /\ conn[c].pc \in {"answered", "reply"}
               /\ rows[conn[c].req].reply = conn[c].reply

(* replay is set where begin_broker_request finds a recorded reply.        *)
ReplayKnown ==
    \A c \in Conn : conn[c].replay =>
        conn[c].pc \in {"deliver", "usage", "answered", "reply", "failed"}

(* A handler carries a credential on the credential route only.            *)
SecretsOnRoute ==
    \A c \in Conn :
        conn[c].pc = "deliver" \/ conn[c].reply.body \in Secret => conn[c].content \in Credentials

(* The conjunction of the above, preserved by every step of the broker,    *)
(* faults and deaths included.                                             *)
BrokerInvariant ==
    /\ BrokerTypeOK
    /\ Exclusive
    /\ OwnedRow
    /\ RowsFilled
    /\ Unsent
    /\ AtMostOneSend
    /\ ReplayKnown
    /\ AnswerRecorded
    /\ ReplyRecorded
    /\ SecretsOnRoute
    /\ SecretsNotStored
=============================================================================
