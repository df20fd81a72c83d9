------------------------- MODULE AttemptBrokerProofs -------------------------
(***************************************************************************)
(* Machine-checked proofs about the attempt broker: the conjuncts of       *)
(* BrokerInvariant, one by one, and with them the safety properties, for   *)
(* any number of connections, requests, contents and answers, with faults  *)
(* of the journal and deaths of the runner.                                *)
(***************************************************************************)
EXTENDS AttemptBroker, FiniteSetTheorems, TLAPS

-----------------------------------------------------------------------------
(* Types                                                                   *)

(* The empty row, reply and handler are well typed.                        *)
LEMMA EmptyTypes ==
    /\ NoReply \in Reply
    /\ NoRow \in Row
    /\ Idle \in Handler
  BY DEF NoReply, Reply, NoRow, Row, RequestState, Idle, Handler, HandlerState

(* The number of recorded requests is a number.                            *)
LEMMA UsageType == Cardinality(Recorded) \in Nat
  BY RequestAssumption, FS_Subset, FS_CardinalityType DEF Recorded

(* Recording, marking and completing a request keep the table's type.      *)
LEMMA TableTypes ==
    ASSUME BrokerTypeOK, NEW r \in Req
    PROVE  /\ \A b \in Content : Admitted(r, b) \in [Req -> Row]
           /\ MarkedUnknown(r) \in [Req -> Row]
           /\ \A p \in Reply : Completed(r, p) \in [Req -> Row]
  BY EmptyTypes DEF BrokerTypeOK, Admitted, MarkedUnknown, Completed, Row, RequestState

(* A handler that moves on is a handler.                                   *)
LEMMA GotoType ==
    ASSUME BrokerTypeOK, NEW c \in Conn, NEW pc \in HandlerState, Goto(c, pc)
    PROVE  conn' \in [Conn -> Handler]
  <1>1. conn[c] \in Handler
    BY DEF BrokerTypeOK
  <1>2. [conn[c] EXCEPT !.pc = pc] \in Handler
    BY <1>1 DEF Handler
  <1>3. conn' = [conn EXCEPT ![c] = [conn[c] EXCEPT !.pc = pc]]
    BY DEF Goto, BrokerTypeOK
  <1>. QED
    BY <1>2, <1>3 DEF BrokerTypeOK

(* Every step keeps the types.                                             *)
LEMMA TypeStep ==
    ASSUME BrokerTypeOK, Exclusive, [BrokerNext]_brokerVars
    PROVE  BrokerTypeOK'
  <1>1. ASSUME NEW c \in Conn, Accept(c) \/ HandlerStep(c)
        PROVE  BrokerTypeOK'
    <2>1. CASE Accept(c)
      BY <2>1, EmptyTypes
      DEF Accept, At, Goto, OnlyHandler, BrokerTypeOK, Handler, HandlerState,
          clock, history
    <2>2. CASE ReadFails(c)
      BY <2>2, EmptyTypes
      DEF ReadFails, At, Close, OnlyHandler, BrokerTypeOK, Handler,
          HandlerState, clock, history
    <2>3. ASSUME NEW r \in Req, RefuseActive(c, r) PROVE BrokerTypeOK'
      BY <2>3, EmptyTypes
      DEF RefuseActive, At, Close, OnlyHandler, BrokerTypeOK, Handler,
          HandlerState, clock, history
    <2>4. ASSUME NEW r \in Req, NEW b \in Content, Receive(c, r, b) PROVE BrokerTypeOK'
      BY <2>4, EmptyTypes
      DEF Receive, At, BrokerTypeOK, Handler, HandlerState, clock, history
    <2>5. CASE Finish(c)
      BY <2>5, EmptyTypes
      DEF Finish, At, Goto, BrokerTypeOK, Handler, HandlerState, clock,
          history
    <2>6. CASE FinishFailed(c)
      BY <2>6, EmptyTypes
      DEF FinishFailed, At, Close, BrokerTypeOK, Handler, HandlerState, clock,
          history
    <2>7. CASE Respond(c)
      BY <2>7, EmptyTypes
      DEF Respond, At, Close, BrokerTypeOK, Handler, HandlerState, clock,
          history, Exclusive, Reply
    <2>8. CASE Refuse(c)
      BY <2>8, EmptyTypes
      DEF Refuse, At, Goto, OnlyHandler, BrokerTypeOK, Handler, HandlerState,
          clock, history
    <2>9. CASE BeginReused(c)
      BY <2>9, EmptyTypes
      DEF BeginReused, Admissible, Existing, At, Goto, OnlyHandler,
          BrokerTypeOK, Handler, HandlerState, clock, history
    <2>10. CASE BeginReplay(c)
      <3>1. conn[c] \in Handler /\ Existing(c).reply \in Reply
        BY <2>10 DEF BeginReplay, Repeats, Admissible, At, Existing, Exclusive, BrokerTypeOK, Row
      <3>2. /\ [conn[c] EXCEPT !.pc = "deliver", !.replay = TRUE] \in Handler
            /\ [conn[c] EXCEPT !.pc = "answered", !.replay = TRUE,
                               !.reply = Existing(c).reply] \in Handler
        BY <3>1 DEF Handler, HandlerState
      <3>3. conn' \in [Conn -> Handler]
        BY <2>10, <3>2 DEF BeginReplay, BrokerTypeOK
      <3>4. QED
        BY <2>10, <3>3 DEF BeginReplay, OnlyHandler, BrokerTypeOK, clock, history
    <2>11. CASE BeginInterrupted(c)
      BY <2>11, EmptyTypes, TableTypes
      DEF BeginInterrupted, Repeats, Admissible, Existing, At, Goto,
          BrokerTypeOK, Handler, HandlerState, clock, history, Exclusive
    <2>12. CASE BeginUnknown(c)
      BY <2>12, EmptyTypes
      DEF BeginUnknown, Repeats, Admissible, Existing, At, Goto, OnlyHandler,
          BrokerTypeOK, Handler, HandlerState, clock, history
    <2>13. CASE BeginOverBudget(c)
      BY <2>13, EmptyTypes
      DEF BeginOverBudget, Admissible, Existing, At, Goto, OnlyHandler,
          BrokerTypeOK, Handler, HandlerState, clock, history
    <2>14. CASE BeginNew(c)
      BY <2>14, EmptyTypes, TableTypes
      DEF BeginNew, Admissible, Existing, At, Goto, BrokerTypeOK, Handler,
          HandlerState, clock, history, Exclusive
    <2>15. CASE BeginFails(c)
      <3>1. conn[c].req \in Req /\ conn[c].content \in Content
        BY <2>15 DEF BeginFails, Admissible, At, Exclusive
      <3>2. rows' \in [Req -> Row]
        BY <2>15, <3>1, TableTypes DEF BeginFails, BrokerTypeOK
      <3>3. conn' \in [Conn -> Handler]
        <4>1. "failed" \in HandlerState
          BY DEF HandlerState
        <4>2. QED
          BY <2>15, <4>1, GotoType DEF BeginFails
      <3>4. QED
        BY <2>15, <3>2, <3>3 DEF BeginFails, BrokerTypeOK, clock, history
    <2>16. CASE Send(c)
      BY <2>16, EmptyTypes
      DEF Send, At, Goto, BrokerTypeOK, Handler, HandlerState, clock, history,
          Exclusive
    <2>17. CASE AnswerLost(c)
      BY <2>17, EmptyTypes
      DEF AnswerLost, At, Goto, OnlyHandler, BrokerTypeOK, Handler,
          HandlerState, clock, history
    <2>18. ASSUME NEW a \in Answer, Receives(c, a) PROVE BrokerTypeOK'
      <3>1. [conn[c].reply EXCEPT !.body = a] \in Reply
        BY <2>18 DEF Receives, Handler, Reply, BrokerTypeOK
      <3>2. [conn[c] EXCEPT !.pc = "usage", !.reply = [conn[c].reply EXCEPT !.body = a]] \in Handler
        BY <3>1 DEF Handler, HandlerState, BrokerTypeOK
      <3>3. conn' = [conn EXCEPT ![c] = [conn[c] EXCEPT !.pc = "usage",
                                     !.reply = [conn[c].reply EXCEPT !.body = a]]]
        BY <2>18 DEF Receives, Handler, BrokerTypeOK
      <3>4. conn' \in [Conn -> Handler]
        BY <3>2, <3>3 DEF BrokerTypeOK
      <3>5. QED
        BY <2>18, <3>4 DEF Receives, OnlyHandler, BrokerTypeOK, clock, history
    <2>19. CASE MarkUnknown(c)
      BY <2>19, EmptyTypes, TableTypes
      DEF MarkUnknown, At, Goto, BrokerTypeOK, Handler, HandlerState, clock,
          history, Exclusive
    <2>20. CASE MarkFails(c)
      <3>1. conn[c].req \in Req
        BY <2>20 DEF MarkFails, At, Exclusive
      <3>2. rows' \in [Req -> Row]
        BY <2>20, <3>1, TableTypes DEF MarkFails, BrokerTypeOK
      <3>3. conn' \in [Conn -> Handler]
        <4>1. "failed" \in HandlerState
          BY DEF HandlerState
        <4>2. QED
          BY <2>20, <4>1, GotoType DEF MarkFails
      <3>4. QED
        BY <2>20, <3>2, <3>3 DEF MarkFails, BrokerTypeOK, clock, history
    <2>21. CASE RaiseFlag(c)
      BY <2>21, EmptyTypes
      DEF RaiseFlag, At, Goto, BrokerTypeOK, Handler, HandlerState, clock,
          history
    <2>22. CASE Deliver(c)
      <3>1. [conn[c].reply EXCEPT !.body = envelope] \in Reply
        BY <2>22 DEF Deliver, Handler, Reply, BrokerTypeOK
      <3>2. [conn[c] EXCEPT !.pc = "usage", !.reply = [conn[c].reply EXCEPT !.body = envelope]] \in Handler
        BY <3>1 DEF Handler, HandlerState, BrokerTypeOK
      <3>3. conn' = [conn EXCEPT ![c] = [conn[c] EXCEPT !.pc = "usage",
                                     !.reply = [conn[c].reply EXCEPT !.body = envelope]]]
        BY <2>22 DEF Deliver, Handler, BrokerTypeOK
      <3>4. conn' \in [Conn -> Handler]
        BY <3>2, <3>3 DEF BrokerTypeOK
      <3>5. QED
        BY <2>22, <3>4 DEF Deliver, OnlyHandler, BrokerTypeOK, clock, history
    <2>23. CASE DeliverFails(c)
      BY <2>23, EmptyTypes
      DEF DeliverFails, At, Goto, OnlyHandler, BrokerTypeOK, Handler,
          HandlerState, clock, history
    <2>24. CASE ReadUsage(c)
      <3>1. [conn[c].reply EXCEPT !.used = Cardinality(Recorded)] \in Reply
        BY <2>24, UsageType DEF ReadUsage, Handler, Reply, BrokerTypeOK
      <3>2. [conn[c] EXCEPT !.pc = (IF conn[c].replay THEN "answered" ELSE "complete"), !.reply = [conn[c].reply EXCEPT !.used = Cardinality(Recorded)]] \in Handler
        BY <3>1 DEF Handler, HandlerState, BrokerTypeOK
      <3>3. conn' = [conn EXCEPT ![c] = [conn[c] EXCEPT !.pc = (IF conn[c].replay THEN "answered" ELSE "complete"),
                                     !.reply = [conn[c].reply EXCEPT !.used = Cardinality(Recorded)]]]
        BY <2>24 DEF ReadUsage, Handler, BrokerTypeOK
      <3>4. conn' \in [Conn -> Handler]
        BY <3>2, <3>3 DEF BrokerTypeOK
      <3>5. QED
        BY <2>24, <3>4 DEF ReadUsage, OnlyHandler, BrokerTypeOK, clock, history
    <2>25. CASE UsageFails(c)
      BY <2>25, EmptyTypes
      DEF UsageFails, At, Goto, OnlyHandler, BrokerTypeOK, Handler,
          HandlerState, clock, history
    <2>26. CASE Complete(c)
      <3>1. conn[c].req \in Req /\ conn[c].reply \in Reply /\ Redacted(c) \in Reply
        BY <2>26 DEF Complete, At, Exclusive, BrokerTypeOK, Handler, Redacted, Reply
      <3>2. rows' \in [Req -> Row]
        BY <2>26, <3>1, TableTypes DEF Complete
      <3>3. conn' \in [Conn -> Handler]
        <4>1. "answered" \in HandlerState
          BY DEF HandlerState
        <4>2. QED
          BY <2>26, <4>1, GotoType DEF Complete
      <3>4. QED
        BY <2>26, <3>2, <3>3 DEF Complete, BrokerTypeOK, clock, history
    <2>27. CASE CompleteFails(c)
      <3>1. conn[c].req \in Req /\ conn[c].reply \in Reply /\ Redacted(c) \in Reply
        BY <2>27 DEF CompleteFails, At, Exclusive, BrokerTypeOK, Handler, Redacted, Reply
      <3>2. rows' \in [Req -> Row]
        BY <2>27, <3>1, TableTypes DEF CompleteFails, BrokerTypeOK
      <3>3. conn' \in [Conn -> Handler]
        <4>1. "failed" \in HandlerState
          BY DEF HandlerState
        <4>2. QED
          BY <2>27, <4>1, GotoType DEF CompleteFails
      <3>4. QED
        BY <2>27, <3>2, <3>3 DEF CompleteFails, BrokerTypeOK, clock, history
    <2>28. QED
      BY <1>1, <2>1, <2>2, <2>3, <2>4, <2>5, <2>6, <2>7, <2>8, <2>9, <2>10,
         <2>11, <2>12, <2>13, <2>14, <2>15, <2>16, <2>17, <2>18, <2>19, <2>20,
         <2>21, <2>22, <2>23, <2>24, <2>25, <2>26, <2>27 DEF HandlerStep
  <1>2. CASE StopServing
    BY <1>2, EmptyTypes
    DEF StopServing, BrokerTypeOK, Handler, HandlerState, clock, history
  <1>3. CASE ServeFails
    BY <1>3, EmptyTypes
    DEF ServeFails, BrokerTypeOK, Handler, HandlerState, clock, history
  <1>4. CASE Crash
    BY <1>4, EmptyTypes
    DEF Crash, BrokerTypeOK, Handler, HandlerState, clock, history
  <1>5. CASE Bind
    BY <1>5, EmptyTypes
    DEF Bind, BrokerTypeOK, Handler, HandlerState, clock, history
  <1>6. CASE Expire
    BY <1>6, EmptyTypes
    DEF Expire, BrokerTypeOK, Handler, HandlerState, clock, history
  <1>7. ASSUME NEW s \in Secret \cup {None}, Rotate(s) PROVE BrokerTypeOK'
    BY <1>7, EmptyTypes
    DEF Rotate, BrokerTypeOK, Handler, HandlerState, clock, history
  <1>8. CASE UNCHANGED brokerVars
    BY <1>8, EmptyTypes
    DEF brokerVars, BrokerTypeOK, Handler, HandlerState, clock, history
  <1>9. QED
    BY <1>1, <1>2, <1>3, <1>4, <1>5, <1>6, <1>7, <1>8 DEF BrokerNext

-----------------------------------------------------------------------------
(* Request ids                                                             *)

(* A request id is held by one handler at a time: Receive takes only an id *)
(* that nobody holds, and every way out of dispatch gives it back.         *)
LEMMA ExclusiveStep ==
    ASSUME BrokerTypeOK, Exclusive, [BrokerNext]_brokerVars
    PROVE  Exclusive'
  <1>1. ASSUME NEW c \in Conn, Accept(c) \/ HandlerStep(c)
        PROVE  Exclusive'
    <2>1. CASE Accept(c)
      BY <2>1
      DEF Accept, At, Goto, OnlyHandler, Exclusive, Holding, Idle,
          BrokerTypeOK, Handler
    <2>2. CASE ReadFails(c)
      BY <2>2
      DEF ReadFails, At, Close, OnlyHandler, Exclusive, Holding, Idle,
          BrokerTypeOK, Handler
    <2>3. ASSUME NEW r \in Req, RefuseActive(c, r) PROVE Exclusive'
      BY <2>3
      DEF RefuseActive, At, Close, OnlyHandler, Exclusive, Holding, Idle,
          BrokerTypeOK, Handler
    <2>4. ASSUME NEW r \in Req, NEW b \in Content, Receive(c, r, b) PROVE Exclusive'
      BY <2>4
      DEF Receive, At, Exclusive, Holding, Idle, BrokerTypeOK, Handler
    <2>5. CASE Finish(c)
      BY <2>5
      DEF Finish, At, Goto, Exclusive, Holding, Idle, BrokerTypeOK, Handler
    <2>6. CASE FinishFailed(c)
      BY <2>6
      DEF FinishFailed, At, Close, Exclusive, Holding, Idle, BrokerTypeOK,
          Handler
    <2>7. CASE Respond(c)
      BY <2>7
      DEF Respond, At, Close, Exclusive, Holding, Idle, BrokerTypeOK, Handler
    <2>8. CASE Refuse(c)
      BY <2>8
      DEF Refuse, At, Goto, OnlyHandler, Exclusive, Holding, Idle,
          BrokerTypeOK, Handler
    <2>9. CASE BeginReused(c)
      BY <2>9
      DEF BeginReused, Admissible, At, Goto, OnlyHandler, Exclusive, Holding,
          Idle, BrokerTypeOK, Handler
    <2>10. CASE BeginReplay(c)
      BY <2>10
      DEF BeginReplay, Repeats, Admissible, At, OnlyHandler, Exclusive,
          Holding, Idle, BrokerTypeOK, Handler
    <2>11. CASE BeginInterrupted(c)
      BY <2>11
      DEF BeginInterrupted, Repeats, Admissible, At, Goto, Exclusive, Holding,
          Idle, BrokerTypeOK, Handler
    <2>12. CASE BeginUnknown(c)
      BY <2>12
      DEF BeginUnknown, Repeats, Admissible, At, Goto, OnlyHandler, Exclusive,
          Holding, Idle, BrokerTypeOK, Handler
    <2>13. CASE BeginOverBudget(c)
      BY <2>13
      DEF BeginOverBudget, Admissible, At, Goto, OnlyHandler, Exclusive,
          Holding, Idle, BrokerTypeOK, Handler
    <2>14. CASE BeginNew(c)
      BY <2>14
      DEF BeginNew, Admissible, At, Goto, Exclusive, Holding, Idle,
          BrokerTypeOK, Handler
    <2>15. CASE BeginFails(c)
      BY <2>15
      DEF BeginFails, Repeats, Admissible, At, Goto, Exclusive, Holding, Idle,
          BrokerTypeOK, Handler
    <2>16. CASE Send(c)
      BY <2>16
      DEF Send, At, Goto, Exclusive, Holding, Idle, BrokerTypeOK, Handler
    <2>17. CASE AnswerLost(c)
      BY <2>17
      DEF AnswerLost, At, Goto, OnlyHandler, Exclusive, Holding, Idle,
          BrokerTypeOK, Handler
    <2>18. ASSUME NEW a \in Answer, Receives(c, a) PROVE Exclusive'
      BY <2>18
      DEF Receives, At, OnlyHandler, Exclusive, Holding, Idle, BrokerTypeOK,
          Handler
    <2>19. CASE MarkUnknown(c)
      BY <2>19
      DEF MarkUnknown, At, Goto, Exclusive, Holding, Idle, BrokerTypeOK,
          Handler
    <2>20. CASE MarkFails(c)
      BY <2>20
      DEF MarkFails, At, Goto, Exclusive, Holding, Idle, BrokerTypeOK, Handler
    <2>21. CASE RaiseFlag(c)
      BY <2>21
      DEF RaiseFlag, At, Goto, Exclusive, Holding, Idle, BrokerTypeOK, Handler
    <2>22. CASE Deliver(c)
      BY <2>22
      DEF Deliver, At, OnlyHandler, Exclusive, Holding, Idle, BrokerTypeOK,
          Handler
    <2>23. CASE DeliverFails(c)
      BY <2>23
      DEF DeliverFails, At, Goto, OnlyHandler, Exclusive, Holding, Idle,
          BrokerTypeOK, Handler
    <2>24. CASE ReadUsage(c)
      BY <2>24
      DEF ReadUsage, At, OnlyHandler, Exclusive, Holding, Idle, BrokerTypeOK,
          Handler
    <2>25. CASE UsageFails(c)
      BY <2>25
      DEF UsageFails, At, Goto, OnlyHandler, Exclusive, Holding, Idle,
          BrokerTypeOK, Handler
    <2>26. CASE Complete(c)
      BY <2>26
      DEF Complete, At, Goto, Exclusive, Holding, Idle, BrokerTypeOK, Handler
    <2>27. CASE CompleteFails(c)
      BY <2>27
      DEF CompleteFails, At, Goto, Exclusive, Holding, Idle, BrokerTypeOK,
          Handler
    <2>28. QED
      BY <1>1, <2>1, <2>2, <2>3, <2>4, <2>5, <2>6, <2>7, <2>8, <2>9, <2>10,
         <2>11, <2>12, <2>13, <2>14, <2>15, <2>16, <2>17, <2>18, <2>19, <2>20,
         <2>21, <2>22, <2>23, <2>24, <2>25, <2>26, <2>27 DEF HandlerStep
  <1>2. CASE StopServing
    BY <1>2
    DEF StopServing, Exclusive, Holding, Idle, BrokerTypeOK, Handler
  <1>3. CASE ServeFails
    BY <1>3
    DEF ServeFails, Exclusive, Holding, Idle, BrokerTypeOK, Handler
  <1>4. CASE Crash
    BY <1>4
    DEF Crash, Exclusive, Holding, Idle, BrokerTypeOK, Handler
  <1>5. CASE Bind
    BY <1>5
    DEF Bind, Exclusive, Holding, Idle, BrokerTypeOK, Handler
  <1>6. CASE Expire
    BY <1>6
    DEF Expire, Exclusive, Holding, Idle, BrokerTypeOK, Handler
  <1>7. ASSUME NEW s \in Secret \cup {None}, Rotate(s) PROVE Exclusive'
    BY <1>7
    DEF Rotate, Exclusive, Holding, Idle, BrokerTypeOK, Handler
  <1>8. CASE UNCHANGED brokerVars
    BY <1>8
    DEF brokerVars, Exclusive, Holding, Idle, BrokerTypeOK, Handler
  <1>9. QED
    BY <1>1, <1>2, <1>3, <1>4, <1>5, <1>6, <1>7, <1>8 DEF BrokerNext

(* A handler changes the row of its own request only, and another handler  *)
(* works on another request.                                               *)
LEMMA OwnedRowStep ==
    ASSUME BrokerTypeOK, Exclusive, OwnedRow, [BrokerNext]_brokerVars
    PROVE  OwnedRow'
  <1>1. ASSUME NEW c \in Conn, Accept(c) \/ HandlerStep(c)
        PROVE  OwnedRow'
    <2>1. CASE Accept(c)
      BY <2>1
      DEF Accept, At, Goto, OnlyHandler, OwnedRow, Working, Exclusive,
          Holding, Idle, BrokerTypeOK, Handler, Row
    <2>2. CASE ReadFails(c)
      BY <2>2
      DEF ReadFails, At, Close, OnlyHandler, OwnedRow, Working, Exclusive,
          Holding, Idle, BrokerTypeOK, Handler, Row
    <2>3. ASSUME NEW r \in Req, RefuseActive(c, r) PROVE OwnedRow'
      BY <2>3
      DEF RefuseActive, At, Close, OnlyHandler, OwnedRow, Working, Exclusive,
          Holding, Idle, BrokerTypeOK, Handler, Row
    <2>4. ASSUME NEW r \in Req, NEW b \in Content, Receive(c, r, b) PROVE OwnedRow'
      BY <2>4
      DEF Receive, At, OwnedRow, Working, Exclusive, Holding, Idle,
          BrokerTypeOK, Handler, Row
    <2>5. CASE Finish(c)
      BY <2>5
      DEF Finish, At, Goto, OwnedRow, Working, Exclusive, Holding, Idle,
          BrokerTypeOK, Handler, Row
    <2>6. CASE FinishFailed(c)
      BY <2>6
      DEF FinishFailed, At, Close, OwnedRow, Working, Exclusive, Holding,
          Idle, BrokerTypeOK, Handler, Row
    <2>7. CASE Respond(c)
      BY <2>7
      DEF Respond, At, Close, OwnedRow, Working, Exclusive, Holding, Idle,
          BrokerTypeOK, Handler, Row
    <2>8. CASE Refuse(c)
      BY <2>8
      DEF Refuse, At, Goto, OnlyHandler, OwnedRow, Working, Exclusive,
          Holding, Idle, BrokerTypeOK, Handler, Row
    <2>9. CASE BeginReused(c)
      BY <2>9
      DEF BeginReused, Admissible, Existing, At, Goto, OnlyHandler, OwnedRow,
          Working, Exclusive, Holding, Idle, BrokerTypeOK, Handler, Row
    <2>10. CASE BeginReplay(c)
      BY <2>10
      DEF BeginReplay, Repeats, Admissible, Existing, At, OnlyHandler,
          OwnedRow, Working, Exclusive, Holding, Idle, BrokerTypeOK, Handler,
          Row
    <2>11. CASE BeginInterrupted(c)
      BY <2>11
      DEF BeginInterrupted, Repeats, Admissible, Existing, At, Goto,
          MarkedUnknown, OwnedRow, Working, Exclusive, Holding, Idle,
          BrokerTypeOK, Handler, Row
    <2>12. CASE BeginUnknown(c)
      BY <2>12
      DEF BeginUnknown, Repeats, Admissible, Existing, At, Goto, OnlyHandler,
          OwnedRow, Working, Exclusive, Holding, Idle, BrokerTypeOK, Handler,
          Row
    <2>13. CASE BeginOverBudget(c)
      BY <2>13
      DEF BeginOverBudget, Admissible, Existing, At, Goto, OnlyHandler,
          OwnedRow, Working, Exclusive, Holding, Idle, BrokerTypeOK, Handler,
          Row
    <2>14. CASE BeginNew(c)
      BY <2>14
      DEF BeginNew, Admissible, Existing, At, Goto, Admitted, OwnedRow,
          Working, Exclusive, Holding, Idle, BrokerTypeOK, Handler, Row
    <2>15. CASE BeginFails(c)
      BY <2>15
      DEF BeginFails, Repeats, Admissible, Existing, At, Goto, Admitted,
          MarkedUnknown, OwnedRow, Working, Exclusive, Holding, Idle,
          BrokerTypeOK, Handler, Row
    <2>16. CASE Send(c)
      BY <2>16
      DEF Send, At, Goto, OwnedRow, Working, Exclusive, Holding, Idle,
          BrokerTypeOK, Handler, Row
    <2>17. CASE AnswerLost(c)
      BY <2>17
      DEF AnswerLost, At, Goto, OnlyHandler, OwnedRow, Working, Exclusive,
          Holding, Idle, BrokerTypeOK, Handler, Row
    <2>18. ASSUME NEW a \in Answer, Receives(c, a) PROVE OwnedRow'
      BY <2>18
      DEF Receives, At, OnlyHandler, OwnedRow, Working, Exclusive, Holding,
          Idle, BrokerTypeOK, Handler, Row
    <2>19. CASE MarkUnknown(c)
      BY <2>19
      DEF MarkUnknown, At, Goto, MarkedUnknown, OwnedRow, Working, Exclusive,
          Holding, Idle, BrokerTypeOK, Handler, Row
    <2>20. CASE MarkFails(c)
      BY <2>20
      DEF MarkFails, At, Goto, MarkedUnknown, OwnedRow, Working, Exclusive,
          Holding, Idle, BrokerTypeOK, Handler, Row
    <2>21. CASE RaiseFlag(c)
      BY <2>21
      DEF RaiseFlag, At, Goto, OwnedRow, Working, Exclusive, Holding, Idle,
          BrokerTypeOK, Handler, Row
    <2>22. CASE Deliver(c)
      BY <2>22
      DEF Deliver, At, OnlyHandler, OwnedRow, Working, Exclusive, Holding,
          Idle, BrokerTypeOK, Handler, Row
    <2>23. CASE DeliverFails(c)
      BY <2>23
      DEF DeliverFails, At, Goto, OnlyHandler, OwnedRow, Working, Exclusive,
          Holding, Idle, BrokerTypeOK, Handler, Row
    <2>24. CASE ReadUsage(c)
      BY <2>24
      DEF ReadUsage, At, OnlyHandler, OwnedRow, Working, Exclusive, Holding,
          Idle, BrokerTypeOK, Handler, Row
    <2>25. CASE UsageFails(c)
      BY <2>25
      DEF UsageFails, At, Goto, OnlyHandler, OwnedRow, Working, Exclusive,
          Holding, Idle, BrokerTypeOK, Handler, Row
    <2>26. CASE Complete(c)
      BY <2>26
      DEF Complete, At, Existing, Goto, Completed, OwnedRow, Working,
          Exclusive, Holding, Idle, BrokerTypeOK, Handler, Row
    <2>27. CASE CompleteFails(c)
      BY <2>27
      DEF CompleteFails, At, Existing, Goto, Completed, OwnedRow, Working,
          Exclusive, Holding, Idle, BrokerTypeOK, Handler, Row
    <2>28. QED
      BY <1>1, <2>1, <2>2, <2>3, <2>4, <2>5, <2>6, <2>7, <2>8, <2>9, <2>10,
         <2>11, <2>12, <2>13, <2>14, <2>15, <2>16, <2>17, <2>18, <2>19, <2>20,
         <2>21, <2>22, <2>23, <2>24, <2>25, <2>26, <2>27 DEF HandlerStep
  <1>2. CASE StopServing
    BY <1>2
    DEF StopServing, OwnedRow, Working, Exclusive, Holding, Idle,
        BrokerTypeOK, Handler, Row
  <1>3. CASE ServeFails
    BY <1>3
    DEF ServeFails, OwnedRow, Working, Exclusive, Holding, Idle, BrokerTypeOK,
        Handler, Row
  <1>4. CASE Crash
    BY <1>4
    DEF Crash, OwnedRow, Working, Exclusive, Holding, Idle, BrokerTypeOK,
        Handler, Row
  <1>5. CASE Bind
    BY <1>5
    DEF Bind, OwnedRow, Working, Exclusive, Holding, Idle, BrokerTypeOK,
        Handler, Row
  <1>6. CASE Expire
    BY <1>6
    DEF Expire, OwnedRow, Working, Exclusive, Holding, Idle, BrokerTypeOK,
        Handler, Row
  <1>7. ASSUME NEW s \in Secret \cup {None}, Rotate(s) PROVE OwnedRow'
    BY <1>7
    DEF Rotate, OwnedRow, Working, Exclusive, Holding, Idle, BrokerTypeOK,
        Handler, Row
  <1>8. CASE UNCHANGED brokerVars
    BY <1>8
    DEF brokerVars, OwnedRow, Working, Exclusive, Holding, Idle, BrokerTypeOK,
        Handler, Row
  <1>9. QED
    BY <1>1, <1>2, <1>3, <1>4, <1>5, <1>6, <1>7, <1>8 DEF BrokerNext

(* A content is written with the row and never removed.                    *)
LEMMA RowsFilledStep ==
    ASSUME BrokerTypeOK, Exclusive, RowsFilled, [BrokerNext]_brokerVars
    PROVE  RowsFilled'
  <1>1. ASSUME NEW c \in Conn, Accept(c) \/ HandlerStep(c)
        PROVE  RowsFilled'
    <2>1. CASE Accept(c)
      BY <2>1, NoneAssumption
      DEF Accept, At, Goto, OnlyHandler, RowsFilled, Exclusive, BrokerTypeOK,
          Handler, Row
    <2>2. CASE ReadFails(c)
      BY <2>2, NoneAssumption
      DEF ReadFails, At, Close, OnlyHandler, RowsFilled, Exclusive,
          BrokerTypeOK, Handler, Row
    <2>3. ASSUME NEW r \in Req, RefuseActive(c, r) PROVE RowsFilled'
      BY <2>3, NoneAssumption
      DEF RefuseActive, At, Close, OnlyHandler, RowsFilled, Exclusive,
          BrokerTypeOK, Handler, Row
    <2>4. ASSUME NEW r \in Req, NEW b \in Content, Receive(c, r, b) PROVE RowsFilled'
      BY <2>4, NoneAssumption
      DEF Receive, At, RowsFilled, Exclusive, BrokerTypeOK, Handler, Row
    <2>5. CASE Finish(c)
      BY <2>5, NoneAssumption
      DEF Finish, At, Goto, RowsFilled, Exclusive, BrokerTypeOK, Handler, Row
    <2>6. CASE FinishFailed(c)
      BY <2>6, NoneAssumption
      DEF FinishFailed, At, Close, RowsFilled, Exclusive, BrokerTypeOK,
          Handler, Row
    <2>7. CASE Respond(c)
      BY <2>7, NoneAssumption
      DEF Respond, At, Close, RowsFilled, Exclusive, BrokerTypeOK, Handler,
          Row
    <2>8. CASE Refuse(c)
      BY <2>8, NoneAssumption
      DEF Refuse, At, Goto, OnlyHandler, RowsFilled, Exclusive, BrokerTypeOK,
          Handler, Row
    <2>9. CASE BeginReused(c)
      BY <2>9, NoneAssumption
      DEF BeginReused, Admissible, Existing, At, Goto, OnlyHandler,
          RowsFilled, Exclusive, BrokerTypeOK, Handler, Row
    <2>10. CASE BeginReplay(c)
      BY <2>10, NoneAssumption
      DEF BeginReplay, Repeats, Admissible, Existing, At, OnlyHandler,
          RowsFilled, Exclusive, BrokerTypeOK, Handler, Row
    <2>11. CASE BeginInterrupted(c)
      BY <2>11, NoneAssumption
      DEF BeginInterrupted, Repeats, Admissible, Existing, At, Goto,
          MarkedUnknown, RowsFilled, Exclusive, BrokerTypeOK, Handler, Row
    <2>12. CASE BeginUnknown(c)
      BY <2>12, NoneAssumption
      DEF BeginUnknown, Repeats, Admissible, Existing, At, Goto, OnlyHandler,
          RowsFilled, Exclusive, BrokerTypeOK, Handler, Row
    <2>13. CASE BeginOverBudget(c)
      BY <2>13, NoneAssumption
      DEF BeginOverBudget, Admissible, Existing, At, Goto, OnlyHandler,
          RowsFilled, Exclusive, BrokerTypeOK, Handler, Row
    <2>14. CASE BeginNew(c)
      BY <2>14, NoneAssumption
      DEF BeginNew, Admissible, Existing, At, Goto, Admitted, RowsFilled,
          Exclusive, BrokerTypeOK, Handler, Row
    <2>15. CASE BeginFails(c)
      BY <2>15, NoneAssumption
      DEF BeginFails, Repeats, Admissible, Existing, At, Goto, Admitted,
          MarkedUnknown, RowsFilled, Exclusive, BrokerTypeOK, Handler, Row
    <2>16. CASE Send(c)
      BY <2>16, NoneAssumption
      DEF Send, At, Goto, RowsFilled, Exclusive, BrokerTypeOK, Handler, Row
    <2>17. CASE AnswerLost(c)
      BY <2>17, NoneAssumption
      DEF AnswerLost, At, Goto, OnlyHandler, RowsFilled, Exclusive,
          BrokerTypeOK, Handler, Row
    <2>18. ASSUME NEW a \in Answer, Receives(c, a) PROVE RowsFilled'
      BY <2>18, NoneAssumption
      DEF Receives, At, OnlyHandler, RowsFilled, Exclusive, BrokerTypeOK,
          Handler, Row
    <2>19. CASE MarkUnknown(c)
      BY <2>19, NoneAssumption
      DEF MarkUnknown, At, Goto, MarkedUnknown, RowsFilled, Exclusive,
          BrokerTypeOK, Handler, Row
    <2>20. CASE MarkFails(c)
      BY <2>20, NoneAssumption
      DEF MarkFails, At, Goto, MarkedUnknown, RowsFilled, Exclusive,
          BrokerTypeOK, Handler, Row
    <2>21. CASE RaiseFlag(c)
      BY <2>21, NoneAssumption
      DEF RaiseFlag, At, Goto, RowsFilled, Exclusive, BrokerTypeOK, Handler,
          Row
    <2>22. CASE Deliver(c)
      BY <2>22, NoneAssumption
      DEF Deliver, At, OnlyHandler, RowsFilled, Exclusive, BrokerTypeOK,
          Handler, Row
    <2>23. CASE DeliverFails(c)
      BY <2>23, NoneAssumption
      DEF DeliverFails, At, Goto, OnlyHandler, RowsFilled, Exclusive,
          BrokerTypeOK, Handler, Row
    <2>24. CASE ReadUsage(c)
      BY <2>24, NoneAssumption
      DEF ReadUsage, At, OnlyHandler, RowsFilled, Exclusive, BrokerTypeOK,
          Handler, Row
    <2>25. CASE UsageFails(c)
      BY <2>25, NoneAssumption
      DEF UsageFails, At, Goto, OnlyHandler, RowsFilled, Exclusive,
          BrokerTypeOK, Handler, Row
    <2>26. CASE Complete(c)
      BY <2>26, NoneAssumption
      DEF Complete, At, Existing, Goto, Completed, RowsFilled, Exclusive,
          BrokerTypeOK, Handler, Row
    <2>27. CASE CompleteFails(c)
      <3>1. CASE UNCHANGED rows
        BY <2>27, <3>1, NoneAssumption
        DEF CompleteFails, At, Goto, RowsFilled, Exclusive, BrokerTypeOK, Handler, Row
      <3>2. CASE /\ Existing(c).state = "IN_FLIGHT"
                 /\ rows' = Completed(conn[c].req, Redacted(c))
        <4>1. At(c, "complete") /\ Goto(c, "failed") /\ UNCHANGED <<clock, history>>
          BY <2>27 DEF CompleteFails
        <4>2. QED
          BY <3>2, <4>1, NoneAssumption
          DEF At, Goto, Existing, Completed, Redacted, RowsFilled, Exclusive, BrokerTypeOK, Handler, Row
      <3>3. QED
        BY <2>27, <3>1, <3>2 DEF CompleteFails
    <2>28. QED
      BY <1>1, <2>1, <2>2, <2>3, <2>4, <2>5, <2>6, <2>7, <2>8, <2>9, <2>10,
         <2>11, <2>12, <2>13, <2>14, <2>15, <2>16, <2>17, <2>18, <2>19, <2>20,
         <2>21, <2>22, <2>23, <2>24, <2>25, <2>26, <2>27 DEF HandlerStep
  <1>2. CASE StopServing
    BY <1>2, NoneAssumption
    DEF StopServing, RowsFilled, Exclusive, BrokerTypeOK, Handler, Row
  <1>3. CASE ServeFails
    BY <1>3, NoneAssumption
    DEF ServeFails, RowsFilled, Exclusive, BrokerTypeOK, Handler, Row
  <1>4. CASE Crash
    BY <1>4, NoneAssumption
    DEF Crash, RowsFilled, Exclusive, BrokerTypeOK, Handler, Row
  <1>5. CASE Bind
    BY <1>5, NoneAssumption
    DEF Bind, RowsFilled, Exclusive, BrokerTypeOK, Handler, Row
  <1>6. CASE Expire
    BY <1>6, NoneAssumption
    DEF Expire, RowsFilled, Exclusive, BrokerTypeOK, Handler, Row
  <1>7. ASSUME NEW s \in Secret \cup {None}, Rotate(s) PROVE RowsFilled'
    BY <1>7, NoneAssumption
    DEF Rotate, RowsFilled, Exclusive, BrokerTypeOK, Handler, Row
  <1>8. CASE UNCHANGED brokerVars
    BY <1>8, NoneAssumption
    DEF brokerVars, RowsFilled, Exclusive, BrokerTypeOK, Handler, Row
  <1>9. QED
    BY <1>1, <1>2, <1>3, <1>4, <1>5, <1>6, <1>7, <1>8 DEF BrokerNext

-----------------------------------------------------------------------------
(* Effects                                                                 *)

(* A request is sent by the handler that recorded it, at once.             *)
LEMMA SendStep ==
    ASSUME BrokerTypeOK, Exclusive, OwnedRow, Unsent, AtMostOneSend, [BrokerNext]_brokerVars
    PROVE  (Unsent /\ AtMostOneSend)'
  <1>1. ASSUME NEW c \in Conn, Accept(c) \/ HandlerStep(c)
        PROVE  (Unsent /\ AtMostOneSend)'
    <2>1. CASE Accept(c)
      BY <2>1
      DEF Accept, At, Goto, OnlyHandler, Unsent, AtMostOneSend, OwnedRow,
          Working, Exclusive, Holding, Idle, BrokerTypeOK, Handler, Row,
          history
    <2>2. CASE ReadFails(c)
      BY <2>2
      DEF ReadFails, At, Close, OnlyHandler, Unsent, AtMostOneSend, OwnedRow,
          Working, Exclusive, Holding, Idle, BrokerTypeOK, Handler, Row,
          history
    <2>3. ASSUME NEW r \in Req, RefuseActive(c, r) PROVE (Unsent /\ AtMostOneSend)'
      BY <2>3
      DEF RefuseActive, At, Close, OnlyHandler, Unsent, AtMostOneSend,
          OwnedRow, Working, Exclusive, Holding, Idle, BrokerTypeOK, Handler,
          Row, history
    <2>4. ASSUME NEW r \in Req, NEW b \in Content, Receive(c, r, b) PROVE (Unsent /\ AtMostOneSend)'
      BY <2>4
      DEF Receive, At, Unsent, AtMostOneSend, OwnedRow, Working, Exclusive,
          Holding, Idle, BrokerTypeOK, Handler, Row, history
    <2>5. CASE Finish(c)
      BY <2>5
      DEF Finish, At, Goto, Unsent, AtMostOneSend, OwnedRow, Working,
          Exclusive, Holding, Idle, BrokerTypeOK, Handler, Row, history
    <2>6. CASE FinishFailed(c)
      BY <2>6
      DEF FinishFailed, At, Close, Unsent, AtMostOneSend, OwnedRow, Working,
          Exclusive, Holding, Idle, BrokerTypeOK, Handler, Row, history
    <2>7. CASE Respond(c)
      BY <2>7
      DEF Respond, At, Close, Unsent, AtMostOneSend, OwnedRow, Working,
          Exclusive, Holding, Idle, BrokerTypeOK, Handler, Row, history
    <2>8. CASE Refuse(c)
      BY <2>8
      DEF Refuse, At, Goto, OnlyHandler, Unsent, AtMostOneSend, OwnedRow,
          Working, Exclusive, Holding, Idle, BrokerTypeOK, Handler, Row,
          history
    <2>9. CASE BeginReused(c)
      BY <2>9
      DEF BeginReused, Admissible, Existing, At, Goto, OnlyHandler, Unsent,
          AtMostOneSend, OwnedRow, Working, Exclusive, Holding, Idle,
          BrokerTypeOK, Handler, Row, history
    <2>10. CASE BeginReplay(c)
      BY <2>10
      DEF BeginReplay, Repeats, Admissible, Existing, At, OnlyHandler, Unsent,
          AtMostOneSend, OwnedRow, Working, Exclusive, Holding, Idle,
          BrokerTypeOK, Handler, Row, history
    <2>11. CASE BeginInterrupted(c)
      BY <2>11
      DEF BeginInterrupted, Repeats, Admissible, Existing, At, Goto,
          MarkedUnknown, Unsent, AtMostOneSend, OwnedRow, Working, Exclusive,
          Holding, Idle, BrokerTypeOK, Handler, Row, history
    <2>12. CASE BeginUnknown(c)
      BY <2>12
      DEF BeginUnknown, Repeats, Admissible, Existing, At, Goto, OnlyHandler,
          Unsent, AtMostOneSend, OwnedRow, Working, Exclusive, Holding, Idle,
          BrokerTypeOK, Handler, Row, history
    <2>13. CASE BeginOverBudget(c)
      BY <2>13
      DEF BeginOverBudget, Admissible, Existing, At, Goto, OnlyHandler,
          Unsent, AtMostOneSend, OwnedRow, Working, Exclusive, Holding, Idle,
          BrokerTypeOK, Handler, Row, history
    <2>14. CASE BeginNew(c)
      BY <2>14
      DEF BeginNew, Admissible, Existing, At, Goto, Admitted, Unsent,
          AtMostOneSend, OwnedRow, Working, Exclusive, Holding, Idle,
          BrokerTypeOK, Handler, Row, history
    <2>15. CASE BeginFails(c)
      <3>1. At(c, "dispatch") /\ Goto(c, "failed") /\ UNCHANGED <<clock, history>>
        BY <2>15 DEF BeginFails, Admissible
      <3>2. CASE UNCHANGED rows
        BY <3>1, <3>2 DEF At, Goto, Unsent, AtMostOneSend, OwnedRow, Working, Exclusive, Holding, BrokerTypeOK, Handler, Row, history
      <3>3. CASE Existing(c).state = "ABSENT" /\ rows' = Admitted(conn[c].req, conn[c].content)
        BY <3>1, <3>3
        DEF At, Goto, Existing, Admitted, Unsent, AtMostOneSend, OwnedRow, Working, Exclusive, Holding, BrokerTypeOK, Handler, Row, history
      <3>4. CASE rows' = MarkedUnknown(conn[c].req)
        BY <3>1, <3>4
        DEF At, Goto, MarkedUnknown, Unsent, AtMostOneSend, OwnedRow, Working, Exclusive, Holding, BrokerTypeOK, Handler, Row, history
      <3>5. QED
        BY <2>15, <3>2, <3>3, <3>4 DEF BeginFails
    <2>16. CASE Send(c)
      BY <2>16
      DEF Send, At, Goto, Unsent, AtMostOneSend, OwnedRow, Working, Exclusive,
          Holding, Idle, BrokerTypeOK, Handler, Row, history
    <2>17. CASE AnswerLost(c)
      BY <2>17
      DEF AnswerLost, At, Goto, OnlyHandler, Unsent, AtMostOneSend, OwnedRow,
          Working, Exclusive, Holding, Idle, BrokerTypeOK, Handler, Row,
          history
    <2>18. ASSUME NEW a \in Answer, Receives(c, a) PROVE (Unsent /\ AtMostOneSend)'
      BY <2>18
      DEF Receives, At, OnlyHandler, Unsent, AtMostOneSend, OwnedRow, Working,
          Exclusive, Holding, Idle, BrokerTypeOK, Handler, Row, history
    <2>19. CASE MarkUnknown(c)
      BY <2>19
      DEF MarkUnknown, At, Goto, MarkedUnknown, Unsent, AtMostOneSend,
          OwnedRow, Working, Exclusive, Holding, Idle, BrokerTypeOK, Handler,
          Row, history
    <2>20. CASE MarkFails(c)
      BY <2>20
      DEF MarkFails, At, Goto, MarkedUnknown, Unsent, AtMostOneSend, OwnedRow,
          Working, Exclusive, Holding, Idle, BrokerTypeOK, Handler, Row,
          history
    <2>21. CASE RaiseFlag(c)
      BY <2>21
      DEF RaiseFlag, At, Goto, Unsent, AtMostOneSend, OwnedRow, Working,
          Exclusive, Holding, Idle, BrokerTypeOK, Handler, Row, history
    <2>22. CASE Deliver(c)
      BY <2>22
      DEF Deliver, At, OnlyHandler, Unsent, AtMostOneSend, OwnedRow, Working,
          Exclusive, Holding, Idle, BrokerTypeOK, Handler, Row, history
    <2>23. CASE DeliverFails(c)
      BY <2>23
      DEF DeliverFails, At, Goto, OnlyHandler, Unsent, AtMostOneSend,
          OwnedRow, Working, Exclusive, Holding, Idle, BrokerTypeOK, Handler,
          Row, history
    <2>24. CASE ReadUsage(c)
      BY <2>24
      DEF ReadUsage, At, OnlyHandler, Unsent, AtMostOneSend, OwnedRow,
          Working, Exclusive, Holding, Idle, BrokerTypeOK, Handler, Row,
          history
    <2>25. CASE UsageFails(c)
      BY <2>25
      DEF UsageFails, At, Goto, OnlyHandler, Unsent, AtMostOneSend, OwnedRow,
          Working, Exclusive, Holding, Idle, BrokerTypeOK, Handler, Row,
          history
    <2>26. CASE Complete(c)
      BY <2>26
      DEF Complete, At, Existing, Goto, Completed, Unsent, AtMostOneSend,
          OwnedRow, Working, Exclusive, Holding, Idle, BrokerTypeOK, Handler,
          Row, history
    <2>27. CASE CompleteFails(c)
      <3>1. CASE UNCHANGED rows
        BY <2>27, <3>1
        DEF CompleteFails, At, Goto, Unsent, AtMostOneSend, OwnedRow, Working, Exclusive, Holding, BrokerTypeOK, Handler, Row, history
      <3>2. CASE /\ Existing(c).state = "IN_FLIGHT"
                 /\ rows' = Completed(conn[c].req, Redacted(c))
        <4>1. At(c, "complete") /\ Goto(c, "failed") /\ UNCHANGED <<clock, history>>
          BY <2>27 DEF CompleteFails
        <4>2. QED
          BY <3>2, <4>1
          DEF At, Goto, Existing, Completed, Redacted, Unsent, AtMostOneSend, OwnedRow, Working, Exclusive, Holding, BrokerTypeOK, Handler, Row, history
      <3>3. QED
        BY <2>27, <3>1, <3>2 DEF CompleteFails
    <2>28. QED
      BY <1>1, <2>1, <2>2, <2>3, <2>4, <2>5, <2>6, <2>7, <2>8, <2>9, <2>10,
         <2>11, <2>12, <2>13, <2>14, <2>15, <2>16, <2>17, <2>18, <2>19, <2>20,
         <2>21, <2>22, <2>23, <2>24, <2>25, <2>26, <2>27 DEF HandlerStep
  <1>2. CASE StopServing
    BY <1>2
    DEF StopServing, Unsent, AtMostOneSend, OwnedRow, Working, Exclusive,
        Holding, Idle, BrokerTypeOK, Handler, Row, history
  <1>3. CASE ServeFails
    BY <1>3
    DEF ServeFails, Unsent, AtMostOneSend, OwnedRow, Working, Exclusive,
        Holding, Idle, BrokerTypeOK, Handler, Row, history
  <1>4. CASE Crash
    BY <1>4
    DEF Crash, Unsent, AtMostOneSend, OwnedRow, Working, Exclusive, Holding,
        Idle, BrokerTypeOK, Handler, Row, history
  <1>5. CASE Bind
    BY <1>5
    DEF Bind, Unsent, AtMostOneSend, OwnedRow, Working, Exclusive, Holding,
        Idle, BrokerTypeOK, Handler, Row, history
  <1>6. CASE Expire
    BY <1>6
    DEF Expire, Unsent, AtMostOneSend, OwnedRow, Working, Exclusive, Holding,
        Idle, BrokerTypeOK, Handler, Row, history
  <1>7. ASSUME NEW s \in Secret \cup {None}, Rotate(s) PROVE (Unsent /\ AtMostOneSend)'
    BY <1>7
    DEF Rotate, Unsent, AtMostOneSend, OwnedRow, Working, Exclusive, Holding,
        Idle, BrokerTypeOK, Handler, Row, history
  <1>8. CASE UNCHANGED brokerVars
    BY <1>8
    DEF brokerVars, Unsent, AtMostOneSend, OwnedRow, Working, Exclusive,
        Holding, Idle, BrokerTypeOK, Handler, Row, history
  <1>9. QED
    BY <1>1, <1>2, <1>3, <1>4, <1>5, <1>6, <1>7, <1>8 DEF BrokerNext

-----------------------------------------------------------------------------
(* Answers                                                                 *)

(* A handler that records a request is not replaying it.                   *)
LEMMA ReplayStep ==
    ASSUME BrokerTypeOK, ReplayKnown, [BrokerNext]_brokerVars
    PROVE  ReplayKnown'
  <1>1. ASSUME NEW c \in Conn, Accept(c) \/ HandlerStep(c)
        PROVE  ReplayKnown'
    <2>1. CASE Accept(c)
      BY <2>1
      DEF Accept, At, Goto, OnlyHandler, ReplayKnown, Idle, BrokerTypeOK,
          Handler
    <2>2. CASE ReadFails(c)
      BY <2>2
      DEF ReadFails, At, Close, OnlyHandler, ReplayKnown, Idle, BrokerTypeOK,
          Handler
    <2>3. ASSUME NEW r \in Req, RefuseActive(c, r) PROVE ReplayKnown'
      BY <2>3
      DEF RefuseActive, At, Close, OnlyHandler, ReplayKnown, Idle,
          BrokerTypeOK, Handler
    <2>4. ASSUME NEW r \in Req, NEW b \in Content, Receive(c, r, b) PROVE ReplayKnown'
      BY <2>4
      DEF Receive, At, ReplayKnown, Idle, BrokerTypeOK, Handler
    <2>5. CASE Finish(c)
      BY <2>5
      DEF Finish, At, Goto, ReplayKnown, Idle, BrokerTypeOK, Handler
    <2>6. CASE FinishFailed(c)
      BY <2>6
      DEF FinishFailed, At, Close, ReplayKnown, Idle, BrokerTypeOK, Handler
    <2>7. CASE Respond(c)
      BY <2>7
      DEF Respond, At, Close, ReplayKnown, Idle, BrokerTypeOK, Handler
    <2>8. CASE Refuse(c)
      BY <2>8
      DEF Refuse, At, Goto, OnlyHandler, ReplayKnown, Idle, BrokerTypeOK,
          Handler
    <2>9. CASE BeginReused(c)
      BY <2>9
      DEF BeginReused, Admissible, At, Goto, OnlyHandler, ReplayKnown, Idle,
          BrokerTypeOK, Handler
    <2>10. CASE BeginReplay(c)
      BY <2>10
      DEF BeginReplay, Repeats, Admissible, At, OnlyHandler, ReplayKnown,
          Idle, BrokerTypeOK, Handler
    <2>11. CASE BeginInterrupted(c)
      BY <2>11
      DEF BeginInterrupted, Repeats, Admissible, At, Goto, ReplayKnown, Idle,
          BrokerTypeOK, Handler
    <2>12. CASE BeginUnknown(c)
      BY <2>12
      DEF BeginUnknown, Repeats, Admissible, At, Goto, OnlyHandler,
          ReplayKnown, Idle, BrokerTypeOK, Handler
    <2>13. CASE BeginOverBudget(c)
      BY <2>13
      DEF BeginOverBudget, Admissible, At, Goto, OnlyHandler, ReplayKnown,
          Idle, BrokerTypeOK, Handler
    <2>14. CASE BeginNew(c)
      BY <2>14
      DEF BeginNew, Admissible, At, Goto, ReplayKnown, Idle, BrokerTypeOK,
          Handler
    <2>15. CASE BeginFails(c)
      BY <2>15
      DEF BeginFails, Repeats, Admissible, At, Goto, ReplayKnown, Idle,
          BrokerTypeOK, Handler
    <2>16. CASE Send(c)
      BY <2>16
      DEF Send, At, Goto, ReplayKnown, Idle, BrokerTypeOK, Handler
    <2>17. CASE AnswerLost(c)
      BY <2>17
      DEF AnswerLost, At, Goto, OnlyHandler, ReplayKnown, Idle, BrokerTypeOK,
          Handler
    <2>18. ASSUME NEW a \in Answer, Receives(c, a) PROVE ReplayKnown'
      BY <2>18
      DEF Receives, At, OnlyHandler, ReplayKnown, Idle, BrokerTypeOK, Handler
    <2>19. CASE MarkUnknown(c)
      BY <2>19
      DEF MarkUnknown, At, Goto, ReplayKnown, Idle, BrokerTypeOK, Handler
    <2>20. CASE MarkFails(c)
      BY <2>20
      DEF MarkFails, At, Goto, ReplayKnown, Idle, BrokerTypeOK, Handler
    <2>21. CASE RaiseFlag(c)
      BY <2>21
      DEF RaiseFlag, At, Goto, ReplayKnown, Idle, BrokerTypeOK, Handler
    <2>22. CASE Deliver(c)
      BY <2>22
      DEF Deliver, At, OnlyHandler, ReplayKnown, Idle, BrokerTypeOK, Handler
    <2>23. CASE DeliverFails(c)
      BY <2>23
      DEF DeliverFails, At, Goto, OnlyHandler, ReplayKnown, Idle,
          BrokerTypeOK, Handler
    <2>24. CASE ReadUsage(c)
      BY <2>24
      DEF ReadUsage, At, OnlyHandler, ReplayKnown, Idle, BrokerTypeOK, Handler
    <2>25. CASE UsageFails(c)
      BY <2>25
      DEF UsageFails, At, Goto, OnlyHandler, ReplayKnown, Idle, BrokerTypeOK,
          Handler
    <2>26. CASE Complete(c)
      BY <2>26
      DEF Complete, At, Goto, ReplayKnown, Idle, BrokerTypeOK, Handler
    <2>27. CASE CompleteFails(c)
      BY <2>27
      DEF CompleteFails, At, Goto, ReplayKnown, Idle, BrokerTypeOK, Handler
    <2>28. QED
      BY <1>1, <2>1, <2>2, <2>3, <2>4, <2>5, <2>6, <2>7, <2>8, <2>9, <2>10,
         <2>11, <2>12, <2>13, <2>14, <2>15, <2>16, <2>17, <2>18, <2>19, <2>20,
         <2>21, <2>22, <2>23, <2>24, <2>25, <2>26, <2>27 DEF HandlerStep
  <1>2. CASE StopServing
    BY <1>2
    DEF StopServing, ReplayKnown, Idle, BrokerTypeOK, Handler
  <1>3. CASE ServeFails
    BY <1>3
    DEF ServeFails, ReplayKnown, Idle, BrokerTypeOK, Handler
  <1>4. CASE Crash
    BY <1>4
    DEF Crash, ReplayKnown, Idle, BrokerTypeOK, Handler
  <1>5. CASE Bind
    BY <1>5
    DEF Bind, ReplayKnown, Idle, BrokerTypeOK, Handler
  <1>6. CASE Expire
    BY <1>6
    DEF Expire, ReplayKnown, Idle, BrokerTypeOK, Handler
  <1>7. ASSUME NEW s \in Secret \cup {None}, Rotate(s) PROVE ReplayKnown'
    BY <1>7
    DEF Rotate, ReplayKnown, Idle, BrokerTypeOK, Handler
  <1>8. CASE UNCHANGED brokerVars
    BY <1>8
    DEF brokerVars, ReplayKnown, Idle, BrokerTypeOK, Handler
  <1>9. QED
    BY <1>1, <1>2, <1>3, <1>4, <1>5, <1>6, <1>7, <1>8 DEF BrokerNext

(* An answer is recorded before it is given, and a COMPLETED row stays.    *)
LEMMA AnswerStep ==
    ASSUME BrokerTypeOK, Exclusive, OwnedRow, ReplayKnown, AnswerRecorded, SecretsOnRoute, [BrokerNext]_brokerVars
    PROVE  AnswerRecorded'
  <1>1. ASSUME NEW c \in Conn, Accept(c) \/ HandlerStep(c)
        PROVE  AnswerRecorded'
    <2>1. CASE Accept(c)
      BY <2>1
      DEF Accept, At, Goto, OnlyHandler, ReplayKnown, SecretsOnRoute,
          AnswerRecorded, Answering, OwnedRow, Working, Exclusive, Holding,
          Idle, BrokerTypeOK, Handler, Row
    <2>2. CASE ReadFails(c)
      BY <2>2
      DEF ReadFails, At, Close, OnlyHandler, ReplayKnown, SecretsOnRoute,
          AnswerRecorded, Answering, OwnedRow, Working, Exclusive, Holding,
          Idle, BrokerTypeOK, Handler, Row
    <2>3. ASSUME NEW r \in Req, RefuseActive(c, r) PROVE AnswerRecorded'
      BY <2>3
      DEF RefuseActive, At, Close, OnlyHandler, ReplayKnown, SecretsOnRoute,
          AnswerRecorded, Answering, OwnedRow, Working, Exclusive, Holding,
          Idle, BrokerTypeOK, Handler, Row
    <2>4. ASSUME NEW r \in Req, NEW b \in Content, Receive(c, r, b) PROVE AnswerRecorded'
      BY <2>4
      DEF Receive, At, ReplayKnown, SecretsOnRoute, AnswerRecorded, Answering,
          OwnedRow, Working, Exclusive, Holding, Idle, BrokerTypeOK, Handler,
          Row
    <2>5. CASE Finish(c)
      BY <2>5
      DEF Finish, At, Goto, ReplayKnown, SecretsOnRoute, AnswerRecorded,
          Answering, OwnedRow, Working, Exclusive, Holding, Idle,
          BrokerTypeOK, Handler, Row
    <2>6. CASE FinishFailed(c)
      BY <2>6
      DEF FinishFailed, At, Close, ReplayKnown, SecretsOnRoute,
          AnswerRecorded, Answering, OwnedRow, Working, Exclusive, Holding,
          Idle, BrokerTypeOK, Handler, Row
    <2>7. CASE Respond(c)
      BY <2>7
      DEF Respond, At, Close, ReplayKnown, SecretsOnRoute, AnswerRecorded,
          Answering, OwnedRow, Working, Exclusive, Holding, Idle,
          BrokerTypeOK, Handler, Row
    <2>8. CASE Refuse(c)
      BY <2>8
      DEF Refuse, At, Goto, OnlyHandler, ReplayKnown, SecretsOnRoute,
          AnswerRecorded, Answering, OwnedRow, Working, Exclusive, Holding,
          Idle, BrokerTypeOK, Handler, Row
    <2>9. CASE BeginReused(c)
      BY <2>9
      DEF BeginReused, Admissible, Existing, At, Goto, OnlyHandler,
          ReplayKnown, SecretsOnRoute, AnswerRecorded, Answering, OwnedRow,
          Working, Exclusive, Holding, Idle, BrokerTypeOK, Handler, Row
    <2>10. CASE BeginReplay(c)
      BY <2>10
      DEF BeginReplay, Repeats, Admissible, Existing, At, OnlyHandler,
          ReplayKnown, SecretsOnRoute, AnswerRecorded, Answering, OwnedRow,
          Working, Exclusive, Holding, Idle, BrokerTypeOK, Handler, Row
    <2>11. CASE BeginInterrupted(c)
      BY <2>11
      DEF BeginInterrupted, Repeats, Admissible, Existing, At, Goto,
          MarkedUnknown, ReplayKnown, SecretsOnRoute, AnswerRecorded,
          Answering, OwnedRow, Working, Exclusive, Holding, Idle,
          BrokerTypeOK, Handler, Row
    <2>12. CASE BeginUnknown(c)
      BY <2>12
      DEF BeginUnknown, Repeats, Admissible, Existing, At, Goto, OnlyHandler,
          ReplayKnown, SecretsOnRoute, AnswerRecorded, Answering, OwnedRow,
          Working, Exclusive, Holding, Idle, BrokerTypeOK, Handler, Row
    <2>13. CASE BeginOverBudget(c)
      BY <2>13
      DEF BeginOverBudget, Admissible, Existing, At, Goto, OnlyHandler,
          ReplayKnown, SecretsOnRoute, AnswerRecorded, Answering, OwnedRow,
          Working, Exclusive, Holding, Idle, BrokerTypeOK, Handler, Row
    <2>14. CASE BeginNew(c)
      BY <2>14
      DEF BeginNew, Admissible, Existing, At, Goto, Admitted, ReplayKnown,
          SecretsOnRoute, AnswerRecorded, Answering, OwnedRow, Working,
          Exclusive, Holding, Idle, BrokerTypeOK, Handler, Row
    <2>15. CASE BeginFails(c)
      BY <2>15, SMTT(40)
      DEF BeginFails, Repeats, Admissible, Existing, At, Goto, Admitted,
          MarkedUnknown, ReplayKnown, SecretsOnRoute, AnswerRecorded,
          Answering, OwnedRow, Working, Exclusive, Holding, Idle,
          BrokerTypeOK, Handler, Row
    <2>16. CASE Send(c)
      BY <2>16
      DEF Send, At, Goto, ReplayKnown, SecretsOnRoute, AnswerRecorded,
          Answering, OwnedRow, Working, Exclusive, Holding, Idle,
          BrokerTypeOK, Handler, Row
    <2>17. CASE AnswerLost(c)
      BY <2>17
      DEF AnswerLost, At, Goto, OnlyHandler, ReplayKnown, SecretsOnRoute,
          AnswerRecorded, Answering, OwnedRow, Working, Exclusive, Holding,
          Idle, BrokerTypeOK, Handler, Row
    <2>18. ASSUME NEW a \in Answer, Receives(c, a) PROVE AnswerRecorded'
      BY <2>18
      DEF Receives, At, OnlyHandler, ReplayKnown, SecretsOnRoute,
          AnswerRecorded, Answering, OwnedRow, Working, Exclusive, Holding,
          Idle, BrokerTypeOK, Handler, Row
    <2>19. CASE MarkUnknown(c)
      BY <2>19
      DEF MarkUnknown, At, Goto, MarkedUnknown, ReplayKnown, SecretsOnRoute,
          AnswerRecorded, Answering, OwnedRow, Working, Exclusive, Holding,
          Idle, BrokerTypeOK, Handler, Row
    <2>20. CASE MarkFails(c)
      BY <2>20, SMTT(40)
      DEF MarkFails, At, Goto, MarkedUnknown, ReplayKnown, SecretsOnRoute,
          AnswerRecorded, Answering, OwnedRow, Working, Exclusive, Holding,
          Idle, BrokerTypeOK, Handler, Row
    <2>21. CASE RaiseFlag(c)
      BY <2>21
      DEF RaiseFlag, At, Goto, ReplayKnown, SecretsOnRoute, AnswerRecorded,
          Answering, OwnedRow, Working, Exclusive, Holding, Idle,
          BrokerTypeOK, Handler, Row
    <2>22. CASE Deliver(c)
      BY <2>22
      DEF Deliver, At, OnlyHandler, ReplayKnown, SecretsOnRoute,
          AnswerRecorded, Answering, OwnedRow, Working, Exclusive, Holding,
          Idle, BrokerTypeOK, Handler, Row
    <2>23. CASE DeliverFails(c)
      BY <2>23
      DEF DeliverFails, At, Goto, OnlyHandler, ReplayKnown, SecretsOnRoute,
          AnswerRecorded, Answering, OwnedRow, Working, Exclusive, Holding,
          Idle, BrokerTypeOK, Handler, Row
    <2>24. CASE ReadUsage(c)
      BY <2>24
      DEF ReadUsage, At, OnlyHandler, ReplayKnown, SecretsOnRoute,
          AnswerRecorded, Answering, OwnedRow, Working, Exclusive, Holding,
          Idle, BrokerTypeOK, Handler, Row
    <2>25. CASE UsageFails(c)
      BY <2>25
      DEF UsageFails, At, Goto, OnlyHandler, ReplayKnown, SecretsOnRoute,
          AnswerRecorded, Answering, OwnedRow, Working, Exclusive, Holding,
          Idle, BrokerTypeOK, Handler, Row
    <2>26. CASE Complete(c)
      BY <2>26
      DEF Complete, At, Existing, Goto, Completed, Redacted, ReplayKnown,
          SecretsOnRoute, AnswerRecorded, Answering, OwnedRow, Working,
          Exclusive, Holding, Idle, BrokerTypeOK, Handler, Row
    <2>27. CASE CompleteFails(c)
      BY <2>27
      DEF CompleteFails, At, Existing, Goto, Completed, Redacted, ReplayKnown,
          SecretsOnRoute, AnswerRecorded, Answering, OwnedRow, Working,
          Exclusive, Holding, Idle, BrokerTypeOK, Handler, Row
    <2>28. QED
      BY <1>1, <2>1, <2>2, <2>3, <2>4, <2>5, <2>6, <2>7, <2>8, <2>9, <2>10,
         <2>11, <2>12, <2>13, <2>14, <2>15, <2>16, <2>17, <2>18, <2>19, <2>20,
         <2>21, <2>22, <2>23, <2>24, <2>25, <2>26, <2>27 DEF HandlerStep
  <1>2. CASE StopServing
    BY <1>2
    DEF StopServing, ReplayKnown, SecretsOnRoute, AnswerRecorded, Answering,
        OwnedRow, Working, Exclusive, Holding, Idle, BrokerTypeOK, Handler,
        Row
  <1>3. CASE ServeFails
    BY <1>3
    DEF ServeFails, ReplayKnown, SecretsOnRoute, AnswerRecorded, Answering,
        OwnedRow, Working, Exclusive, Holding, Idle, BrokerTypeOK, Handler,
        Row
  <1>4. CASE Crash
    BY <1>4
    DEF Crash, ReplayKnown, SecretsOnRoute, AnswerRecorded, Answering,
        OwnedRow, Working, Exclusive, Holding, Idle, BrokerTypeOK, Handler,
        Row
  <1>5. CASE Bind
    BY <1>5
    DEF Bind, ReplayKnown, SecretsOnRoute, AnswerRecorded, Answering,
        OwnedRow, Working, Exclusive, Holding, Idle, BrokerTypeOK, Handler,
        Row
  <1>6. CASE Expire
    BY <1>6
    DEF Expire, ReplayKnown, SecretsOnRoute, AnswerRecorded, Answering,
        OwnedRow, Working, Exclusive, Holding, Idle, BrokerTypeOK, Handler,
        Row
  <1>7. ASSUME NEW s \in Secret \cup {None}, Rotate(s) PROVE AnswerRecorded'
    BY <1>7
    DEF Rotate, ReplayKnown, SecretsOnRoute, AnswerRecorded, Answering,
        OwnedRow, Working, Exclusive, Holding, Idle, BrokerTypeOK, Handler,
        Row
  <1>8. CASE UNCHANGED brokerVars
    BY <1>8
    DEF brokerVars, ReplayKnown, SecretsOnRoute, AnswerRecorded, Answering,
        OwnedRow, Working, Exclusive, Holding, Idle, BrokerTypeOK, Handler,
        Row
  <1>9. QED
    BY <1>1, <1>2, <1>3, <1>4, <1>5, <1>6, <1>7, <1>8 DEF BrokerNext

(* What was given stays recorded.                                          *)
LEMMA ReplyStep ==
    ASSUME BrokerTypeOK, Exclusive, OwnedRow, AnswerRecorded, ReplyRecorded, [BrokerNext]_brokerVars
    PROVE  ReplyRecorded'
  <1>1. ASSUME NEW c \in Conn, Accept(c) \/ HandlerStep(c)
        PROVE  ReplyRecorded'
    <2>1. CASE Accept(c)
      BY <2>1
      DEF Accept, At, Goto, OnlyHandler, ReplyRecorded, AnswerRecorded,
          Answering, OwnedRow, Working, Exclusive, BrokerTypeOK, Handler, Row,
          history
    <2>2. CASE ReadFails(c)
      BY <2>2
      DEF ReadFails, At, Close, OnlyHandler, ReplyRecorded, AnswerRecorded,
          Answering, OwnedRow, Working, Exclusive, BrokerTypeOK, Handler, Row,
          history
    <2>3. ASSUME NEW r \in Req, RefuseActive(c, r) PROVE ReplyRecorded'
      BY <2>3
      DEF RefuseActive, At, Close, OnlyHandler, ReplyRecorded, AnswerRecorded,
          Answering, OwnedRow, Working, Exclusive, BrokerTypeOK, Handler, Row,
          history
    <2>4. ASSUME NEW r \in Req, NEW b \in Content, Receive(c, r, b) PROVE ReplyRecorded'
      BY <2>4
      DEF Receive, At, ReplyRecorded, AnswerRecorded, Answering, OwnedRow,
          Working, Exclusive, BrokerTypeOK, Handler, Row, history
    <2>5. CASE Finish(c)
      BY <2>5
      DEF Finish, At, Goto, ReplyRecorded, AnswerRecorded, Answering,
          OwnedRow, Working, Exclusive, BrokerTypeOK, Handler, Row, history
    <2>6. CASE FinishFailed(c)
      BY <2>6
      DEF FinishFailed, At, Close, ReplyRecorded, AnswerRecorded, Answering,
          OwnedRow, Working, Exclusive, BrokerTypeOK, Handler, Row, history
    <2>7. CASE Respond(c)
      BY <2>7
      DEF Respond, At, Close, ReplyRecorded, AnswerRecorded, Answering,
          OwnedRow, Working, Exclusive, BrokerTypeOK, Handler, Row, history
    <2>8. CASE Refuse(c)
      BY <2>8
      DEF Refuse, At, Goto, OnlyHandler, ReplyRecorded, AnswerRecorded,
          Answering, OwnedRow, Working, Exclusive, BrokerTypeOK, Handler, Row,
          history
    <2>9. CASE BeginReused(c)
      BY <2>9
      DEF BeginReused, Admissible, Existing, At, Goto, OnlyHandler,
          ReplyRecorded, AnswerRecorded, Answering, OwnedRow, Working,
          Exclusive, BrokerTypeOK, Handler, Row, history
    <2>10. CASE BeginReplay(c)
      BY <2>10
      DEF BeginReplay, Repeats, Admissible, Existing, At, OnlyHandler,
          ReplyRecorded, AnswerRecorded, Answering, OwnedRow, Working,
          Exclusive, BrokerTypeOK, Handler, Row, history
    <2>11. CASE BeginInterrupted(c)
      BY <2>11
      DEF BeginInterrupted, Repeats, Admissible, Existing, At, Goto,
          MarkedUnknown, ReplyRecorded, AnswerRecorded, Answering, OwnedRow,
          Working, Exclusive, BrokerTypeOK, Handler, Row, history
    <2>12. CASE BeginUnknown(c)
      BY <2>12
      DEF BeginUnknown, Repeats, Admissible, Existing, At, Goto, OnlyHandler,
          ReplyRecorded, AnswerRecorded, Answering, OwnedRow, Working,
          Exclusive, BrokerTypeOK, Handler, Row, history
    <2>13. CASE BeginOverBudget(c)
      BY <2>13
      DEF BeginOverBudget, Admissible, Existing, At, Goto, OnlyHandler,
          ReplyRecorded, AnswerRecorded, Answering, OwnedRow, Working,
          Exclusive, BrokerTypeOK, Handler, Row, history
    <2>14. CASE BeginNew(c)
      BY <2>14
      DEF BeginNew, Admissible, Existing, At, Goto, Admitted, ReplyRecorded,
          AnswerRecorded, Answering, OwnedRow, Working, Exclusive,
          BrokerTypeOK, Handler, Row, history
    <2>15. CASE BeginFails(c)
      BY <2>15
      DEF BeginFails, Repeats, Admissible, Existing, At, Goto, Admitted,
          MarkedUnknown, ReplyRecorded, AnswerRecorded, Answering, OwnedRow,
          Working, Exclusive, BrokerTypeOK, Handler, Row, history
    <2>16. CASE Send(c)
      BY <2>16
      DEF Send, At, Goto, ReplyRecorded, AnswerRecorded, Answering, OwnedRow,
          Working, Exclusive, BrokerTypeOK, Handler, Row, history
    <2>17. CASE AnswerLost(c)
      BY <2>17
      DEF AnswerLost, At, Goto, OnlyHandler, ReplyRecorded, AnswerRecorded,
          Answering, OwnedRow, Working, Exclusive, BrokerTypeOK, Handler, Row,
          history
    <2>18. ASSUME NEW a \in Answer, Receives(c, a) PROVE ReplyRecorded'
      BY <2>18
      DEF Receives, At, OnlyHandler, ReplyRecorded, AnswerRecorded, Answering,
          OwnedRow, Working, Exclusive, BrokerTypeOK, Handler, Row, history
    <2>19. CASE MarkUnknown(c)
      BY <2>19
      DEF MarkUnknown, At, Goto, MarkedUnknown, ReplyRecorded, AnswerRecorded,
          Answering, OwnedRow, Working, Exclusive, BrokerTypeOK, Handler, Row,
          history
    <2>20. CASE MarkFails(c)
      BY <2>20
      DEF MarkFails, At, Goto, MarkedUnknown, ReplyRecorded, AnswerRecorded,
          Answering, OwnedRow, Working, Exclusive, BrokerTypeOK, Handler, Row,
          history
    <2>21. CASE RaiseFlag(c)
      BY <2>21
      DEF RaiseFlag, At, Goto, ReplyRecorded, AnswerRecorded, Answering,
          OwnedRow, Working, Exclusive, BrokerTypeOK, Handler, Row, history
    <2>22. CASE Deliver(c)
      BY <2>22
      DEF Deliver, At, OnlyHandler, ReplyRecorded, AnswerRecorded, Answering,
          OwnedRow, Working, Exclusive, BrokerTypeOK, Handler, Row, history
    <2>23. CASE DeliverFails(c)
      BY <2>23
      DEF DeliverFails, At, Goto, OnlyHandler, ReplyRecorded, AnswerRecorded,
          Answering, OwnedRow, Working, Exclusive, BrokerTypeOK, Handler, Row,
          history
    <2>24. CASE ReadUsage(c)
      BY <2>24
      DEF ReadUsage, At, OnlyHandler, ReplyRecorded, AnswerRecorded,
          Answering, OwnedRow, Working, Exclusive, BrokerTypeOK, Handler, Row,
          history
    <2>25. CASE UsageFails(c)
      BY <2>25
      DEF UsageFails, At, Goto, OnlyHandler, ReplyRecorded, AnswerRecorded,
          Answering, OwnedRow, Working, Exclusive, BrokerTypeOK, Handler, Row,
          history
    <2>26. CASE Complete(c)
      BY <2>26
      DEF Complete, At, Existing, Goto, Completed, ReplyRecorded,
          AnswerRecorded, Answering, OwnedRow, Working, Exclusive,
          BrokerTypeOK, Handler, Row, history
    <2>27. CASE CompleteFails(c)
      BY <2>27
      DEF CompleteFails, At, Existing, Goto, Completed, ReplyRecorded,
          AnswerRecorded, Answering, OwnedRow, Working, Exclusive,
          BrokerTypeOK, Handler, Row, history
    <2>28. QED
      BY <1>1, <2>1, <2>2, <2>3, <2>4, <2>5, <2>6, <2>7, <2>8, <2>9, <2>10,
         <2>11, <2>12, <2>13, <2>14, <2>15, <2>16, <2>17, <2>18, <2>19, <2>20,
         <2>21, <2>22, <2>23, <2>24, <2>25, <2>26, <2>27 DEF HandlerStep
  <1>2. CASE StopServing
    BY <1>2
    DEF StopServing, ReplyRecorded, AnswerRecorded, Answering, OwnedRow,
        Working, Exclusive, BrokerTypeOK, Handler, Row, history
  <1>3. CASE ServeFails
    BY <1>3
    DEF ServeFails, ReplyRecorded, AnswerRecorded, Answering, OwnedRow,
        Working, Exclusive, BrokerTypeOK, Handler, Row, history
  <1>4. CASE Crash
    BY <1>4
    DEF Crash, ReplyRecorded, AnswerRecorded, Answering, OwnedRow, Working,
        Exclusive, BrokerTypeOK, Handler, Row, history
  <1>5. CASE Bind
    BY <1>5
    DEF Bind, ReplyRecorded, AnswerRecorded, Answering, OwnedRow, Working,
        Exclusive, BrokerTypeOK, Handler, Row, history
  <1>6. CASE Expire
    BY <1>6
    DEF Expire, ReplyRecorded, AnswerRecorded, Answering, OwnedRow, Working,
        Exclusive, BrokerTypeOK, Handler, Row, history
  <1>7. ASSUME NEW s \in Secret \cup {None}, Rotate(s) PROVE ReplyRecorded'
    BY <1>7
    DEF Rotate, ReplyRecorded, AnswerRecorded, Answering, OwnedRow, Working,
        Exclusive, BrokerTypeOK, Handler, Row, history
  <1>8. CASE UNCHANGED brokerVars
    BY <1>8
    DEF brokerVars, ReplyRecorded, AnswerRecorded, Answering, OwnedRow,
        Working, Exclusive, BrokerTypeOK, Handler, Row, history
  <1>9. QED
    BY <1>1, <1>2, <1>3, <1>4, <1>5, <1>6, <1>7, <1>8 DEF BrokerNext

-----------------------------------------------------------------------------
(* Credentials                                                             *)

(* Only the credential route reads the envelope.                           *)
LEMMA RouteStep ==
    ASSUME BrokerTypeOK, Exclusive, SecretsOnRoute, SecretsNotStored, [BrokerNext]_brokerVars
    PROVE  SecretsOnRoute'
  <1>1. ASSUME NEW c \in Conn, Accept(c) \/ HandlerStep(c)
        PROVE  SecretsOnRoute'
    <2>1. CASE Accept(c)
      BY <2>1, NoneAssumption, SecretAssumption
      DEF Accept, At, Goto, OnlyHandler, SecretsOnRoute, SecretsNotStored,
          Exclusive, Idle, NoReply, BrokerTypeOK, Handler, Row, Reply
    <2>2. CASE ReadFails(c)
      BY <2>2, NoneAssumption, SecretAssumption
      DEF ReadFails, At, Close, OnlyHandler, SecretsOnRoute, SecretsNotStored,
          Exclusive, Idle, NoReply, BrokerTypeOK, Handler, Row, Reply
    <2>3. ASSUME NEW r \in Req, RefuseActive(c, r) PROVE SecretsOnRoute'
      BY <2>3, NoneAssumption, SecretAssumption
      DEF RefuseActive, At, Close, OnlyHandler, SecretsOnRoute,
          SecretsNotStored, Exclusive, Idle, NoReply, BrokerTypeOK, Handler,
          Row, Reply
    <2>4. ASSUME NEW r \in Req, NEW b \in Content, Receive(c, r, b) PROVE SecretsOnRoute'
      BY <2>4, NoneAssumption, SecretAssumption
      DEF Receive, At, SecretsOnRoute, SecretsNotStored, Exclusive, Idle,
          NoReply, BrokerTypeOK, Handler, Row, Reply
    <2>5. CASE Finish(c)
      BY <2>5, NoneAssumption, SecretAssumption
      DEF Finish, At, Goto, SecretsOnRoute, SecretsNotStored, Exclusive, Idle,
          NoReply, BrokerTypeOK, Handler, Row, Reply
    <2>6. CASE FinishFailed(c)
      BY <2>6, NoneAssumption, SecretAssumption
      DEF FinishFailed, At, Close, SecretsOnRoute, SecretsNotStored,
          Exclusive, Idle, NoReply, BrokerTypeOK, Handler, Row, Reply
    <2>7. CASE Respond(c)
      BY <2>7, NoneAssumption, SecretAssumption
      DEF Respond, At, Close, SecretsOnRoute, SecretsNotStored, Exclusive,
          Idle, NoReply, BrokerTypeOK, Handler, Row, Reply
    <2>8. CASE Refuse(c)
      BY <2>8, NoneAssumption, SecretAssumption
      DEF Refuse, At, Goto, OnlyHandler, SecretsOnRoute, SecretsNotStored,
          Exclusive, Idle, NoReply, BrokerTypeOK, Handler, Row, Reply
    <2>9. CASE BeginReused(c)
      BY <2>9, NoneAssumption, SecretAssumption
      DEF BeginReused, Admissible, Existing, At, Goto, OnlyHandler,
          SecretsOnRoute, SecretsNotStored, Exclusive, Idle, NoReply,
          BrokerTypeOK, Handler, Row, Reply
    <2>10. CASE BeginReplay(c)
      BY <2>10, NoneAssumption, SecretAssumption
      DEF BeginReplay, Repeats, Admissible, Existing, At, OnlyHandler,
          SecretsOnRoute, SecretsNotStored, Exclusive, Idle, NoReply,
          BrokerTypeOK, Handler, Row, Reply
    <2>11. CASE BeginInterrupted(c)
      BY <2>11, NoneAssumption, SecretAssumption
      DEF BeginInterrupted, Repeats, Admissible, Existing, At, Goto,
          MarkedUnknown, SecretsOnRoute, SecretsNotStored, Exclusive, Idle,
          NoReply, BrokerTypeOK, Handler, Row, Reply
    <2>12. CASE BeginUnknown(c)
      BY <2>12, NoneAssumption, SecretAssumption
      DEF BeginUnknown, Repeats, Admissible, Existing, At, Goto, OnlyHandler,
          SecretsOnRoute, SecretsNotStored, Exclusive, Idle, NoReply,
          BrokerTypeOK, Handler, Row, Reply
    <2>13. CASE BeginOverBudget(c)
      BY <2>13, NoneAssumption, SecretAssumption
      DEF BeginOverBudget, Admissible, Existing, At, Goto, OnlyHandler,
          SecretsOnRoute, SecretsNotStored, Exclusive, Idle, NoReply,
          BrokerTypeOK, Handler, Row, Reply
    <2>14. CASE BeginNew(c)
      BY <2>14, NoneAssumption, SecretAssumption
      DEF BeginNew, Admissible, Existing, At, Goto, Admitted, SecretsOnRoute,
          SecretsNotStored, Exclusive, Idle, NoReply, BrokerTypeOK, Handler,
          Row, Reply
    <2>15. CASE BeginFails(c)
      BY <2>15, NoneAssumption, SecretAssumption
      DEF BeginFails, Repeats, Admissible, Existing, At, Goto, Admitted,
          MarkedUnknown, SecretsOnRoute, SecretsNotStored, Exclusive, Idle,
          NoReply, BrokerTypeOK, Handler, Row, Reply
    <2>16. CASE Send(c)
      BY <2>16, NoneAssumption, SecretAssumption
      DEF Send, At, Goto, SecretsOnRoute, SecretsNotStored, Exclusive, Idle,
          NoReply, BrokerTypeOK, Handler, Row, Reply
    <2>17. CASE AnswerLost(c)
      BY <2>17, NoneAssumption, SecretAssumption
      DEF AnswerLost, At, Goto, OnlyHandler, SecretsOnRoute, SecretsNotStored,
          Exclusive, Idle, NoReply, BrokerTypeOK, Handler, Row, Reply
    <2>18. ASSUME NEW a \in Answer, Receives(c, a) PROVE SecretsOnRoute'
      BY <2>18, NoneAssumption, SecretAssumption
      DEF Receives, At, OnlyHandler, SecretsOnRoute, SecretsNotStored,
          Exclusive, Idle, NoReply, BrokerTypeOK, Handler, Row, Reply
    <2>19. CASE MarkUnknown(c)
      BY <2>19, NoneAssumption, SecretAssumption
      DEF MarkUnknown, At, Goto, MarkedUnknown, SecretsOnRoute,
          SecretsNotStored, Exclusive, Idle, NoReply, BrokerTypeOK, Handler,
          Row, Reply
    <2>20. CASE MarkFails(c)
      BY <2>20, NoneAssumption, SecretAssumption
      DEF MarkFails, At, Goto, MarkedUnknown, SecretsOnRoute,
          SecretsNotStored, Exclusive, Idle, NoReply, BrokerTypeOK, Handler,
          Row, Reply
    <2>21. CASE RaiseFlag(c)
      BY <2>21, NoneAssumption, SecretAssumption
      DEF RaiseFlag, At, Goto, SecretsOnRoute, SecretsNotStored, Exclusive,
          Idle, NoReply, BrokerTypeOK, Handler, Row, Reply
    <2>22. CASE Deliver(c)
      BY <2>22, NoneAssumption, SecretAssumption
      DEF Deliver, At, OnlyHandler, SecretsOnRoute, SecretsNotStored,
          Exclusive, Idle, NoReply, BrokerTypeOK, Handler, Row, Reply
    <2>23. CASE DeliverFails(c)
      BY <2>23, NoneAssumption, SecretAssumption
      DEF DeliverFails, At, Goto, OnlyHandler, SecretsOnRoute,
          SecretsNotStored, Exclusive, Idle, NoReply, BrokerTypeOK, Handler,
          Row, Reply
    <2>24. CASE ReadUsage(c)
      BY <2>24, NoneAssumption, SecretAssumption
      DEF ReadUsage, At, OnlyHandler, SecretsOnRoute, SecretsNotStored,
          Exclusive, Idle, NoReply, BrokerTypeOK, Handler, Row, Reply
    <2>25. CASE UsageFails(c)
      BY <2>25, NoneAssumption, SecretAssumption
      DEF UsageFails, At, Goto, OnlyHandler, SecretsOnRoute, SecretsNotStored,
          Exclusive, Idle, NoReply, BrokerTypeOK, Handler, Row, Reply
    <2>26. CASE Complete(c)
      BY <2>26, NoneAssumption, SecretAssumption
      DEF Complete, At, Existing, Goto, Completed, SecretsOnRoute,
          SecretsNotStored, Exclusive, Idle, NoReply, BrokerTypeOK, Handler,
          Row, Reply
    <2>27. CASE CompleteFails(c)
      BY <2>27, NoneAssumption, SecretAssumption
      DEF CompleteFails, At, Existing, Goto, Completed, SecretsOnRoute,
          SecretsNotStored, Exclusive, Idle, NoReply, BrokerTypeOK, Handler,
          Row, Reply
    <2>28. QED
      BY <1>1, <2>1, <2>2, <2>3, <2>4, <2>5, <2>6, <2>7, <2>8, <2>9, <2>10,
         <2>11, <2>12, <2>13, <2>14, <2>15, <2>16, <2>17, <2>18, <2>19, <2>20,
         <2>21, <2>22, <2>23, <2>24, <2>25, <2>26, <2>27 DEF HandlerStep
  <1>2. CASE StopServing
    BY <1>2, NoneAssumption, SecretAssumption
    DEF StopServing, SecretsOnRoute, SecretsNotStored, Exclusive, Idle,
        NoReply, BrokerTypeOK, Handler, Row, Reply
  <1>3. CASE ServeFails
    BY <1>3, NoneAssumption, SecretAssumption
    DEF ServeFails, SecretsOnRoute, SecretsNotStored, Exclusive, Idle,
        NoReply, BrokerTypeOK, Handler, Row, Reply
  <1>4. CASE Crash
    BY <1>4, NoneAssumption, SecretAssumption
    DEF Crash, SecretsOnRoute, SecretsNotStored, Exclusive, Idle, NoReply,
        BrokerTypeOK, Handler, Row, Reply
  <1>5. CASE Bind
    BY <1>5, NoneAssumption, SecretAssumption
    DEF Bind, SecretsOnRoute, SecretsNotStored, Exclusive, Idle, NoReply,
        BrokerTypeOK, Handler, Row, Reply
  <1>6. CASE Expire
    BY <1>6, NoneAssumption, SecretAssumption
    DEF Expire, SecretsOnRoute, SecretsNotStored, Exclusive, Idle, NoReply,
        BrokerTypeOK, Handler, Row, Reply
  <1>7. ASSUME NEW s \in Secret \cup {None}, Rotate(s) PROVE SecretsOnRoute'
    BY <1>7, NoneAssumption, SecretAssumption
    DEF Rotate, SecretsOnRoute, SecretsNotStored, Exclusive, Idle, NoReply,
        BrokerTypeOK, Handler, Row, Reply
  <1>8. CASE UNCHANGED brokerVars
    BY <1>8, NoneAssumption, SecretAssumption
    DEF brokerVars, SecretsOnRoute, SecretsNotStored, Exclusive, Idle,
        NoReply, BrokerTypeOK, Handler, Row, Reply
  <1>9. QED
    BY <1>1, <1>2, <1>3, <1>4, <1>5, <1>6, <1>7, <1>8 DEF BrokerNext

(* The reply of the credential route is redacted before it is recorded.    *)
LEMMA StoredStep ==
    ASSUME BrokerTypeOK, Exclusive, SecretsOnRoute, SecretsNotStored, [BrokerNext]_brokerVars
    PROVE  SecretsNotStored'
  <1>1. ASSUME NEW c \in Conn, Accept(c) \/ HandlerStep(c)
        PROVE  SecretsNotStored'
    <2>1. CASE Accept(c)
      BY <2>1, NoneAssumption
      DEF Accept, At, Goto, OnlyHandler, SecretsOnRoute, SecretsNotStored,
          Exclusive, NoReply, BrokerTypeOK, Handler, Row, Reply
    <2>2. CASE ReadFails(c)
      BY <2>2, NoneAssumption
      DEF ReadFails, At, Close, OnlyHandler, SecretsOnRoute, SecretsNotStored,
          Exclusive, NoReply, BrokerTypeOK, Handler, Row, Reply
    <2>3. ASSUME NEW r \in Req, RefuseActive(c, r) PROVE SecretsNotStored'
      BY <2>3, NoneAssumption
      DEF RefuseActive, At, Close, OnlyHandler, SecretsOnRoute,
          SecretsNotStored, Exclusive, NoReply, BrokerTypeOK, Handler, Row,
          Reply
    <2>4. ASSUME NEW r \in Req, NEW b \in Content, Receive(c, r, b) PROVE SecretsNotStored'
      BY <2>4, NoneAssumption
      DEF Receive, At, SecretsOnRoute, SecretsNotStored, Exclusive, NoReply,
          BrokerTypeOK, Handler, Row, Reply
    <2>5. CASE Finish(c)
      BY <2>5, NoneAssumption
      DEF Finish, At, Goto, SecretsOnRoute, SecretsNotStored, Exclusive,
          NoReply, BrokerTypeOK, Handler, Row, Reply
    <2>6. CASE FinishFailed(c)
      BY <2>6, NoneAssumption
      DEF FinishFailed, At, Close, SecretsOnRoute, SecretsNotStored,
          Exclusive, NoReply, BrokerTypeOK, Handler, Row, Reply
    <2>7. CASE Respond(c)
      BY <2>7, NoneAssumption
      DEF Respond, At, Close, SecretsOnRoute, SecretsNotStored, Exclusive,
          NoReply, BrokerTypeOK, Handler, Row, Reply
    <2>8. CASE Refuse(c)
      BY <2>8, NoneAssumption
      DEF Refuse, At, Goto, OnlyHandler, SecretsOnRoute, SecretsNotStored,
          Exclusive, NoReply, BrokerTypeOK, Handler, Row, Reply
    <2>9. CASE BeginReused(c)
      BY <2>9, NoneAssumption
      DEF BeginReused, Admissible, Existing, At, Goto, OnlyHandler,
          SecretsOnRoute, SecretsNotStored, Exclusive, NoReply, BrokerTypeOK,
          Handler, Row, Reply
    <2>10. CASE BeginReplay(c)
      BY <2>10, NoneAssumption
      DEF BeginReplay, Repeats, Admissible, Existing, At, OnlyHandler,
          SecretsOnRoute, SecretsNotStored, Exclusive, NoReply, BrokerTypeOK,
          Handler, Row, Reply
    <2>11. CASE BeginInterrupted(c)
      BY <2>11, NoneAssumption
      DEF BeginInterrupted, Repeats, Admissible, Existing, At, Goto,
          MarkedUnknown, SecretsOnRoute, SecretsNotStored, Exclusive, NoReply,
          BrokerTypeOK, Handler, Row, Reply
    <2>12. CASE BeginUnknown(c)
      BY <2>12, NoneAssumption
      DEF BeginUnknown, Repeats, Admissible, Existing, At, Goto, OnlyHandler,
          SecretsOnRoute, SecretsNotStored, Exclusive, NoReply, BrokerTypeOK,
          Handler, Row, Reply
    <2>13. CASE BeginOverBudget(c)
      BY <2>13, NoneAssumption
      DEF BeginOverBudget, Admissible, Existing, At, Goto, OnlyHandler,
          SecretsOnRoute, SecretsNotStored, Exclusive, NoReply, BrokerTypeOK,
          Handler, Row, Reply
    <2>14. CASE BeginNew(c)
      BY <2>14, NoneAssumption
      DEF BeginNew, Admissible, Existing, At, Goto, Admitted, SecretsOnRoute,
          SecretsNotStored, Exclusive, NoReply, BrokerTypeOK, Handler, Row,
          Reply
    <2>15. CASE BeginFails(c)
      BY <2>15, NoneAssumption
      DEF BeginFails, Repeats, Admissible, Existing, At, Goto, Admitted,
          MarkedUnknown, SecretsOnRoute, SecretsNotStored, Exclusive, NoReply,
          BrokerTypeOK, Handler, Row, Reply
    <2>16. CASE Send(c)
      BY <2>16, NoneAssumption
      DEF Send, At, Goto, SecretsOnRoute, SecretsNotStored, Exclusive,
          NoReply, BrokerTypeOK, Handler, Row, Reply
    <2>17. CASE AnswerLost(c)
      BY <2>17, NoneAssumption
      DEF AnswerLost, At, Goto, OnlyHandler, SecretsOnRoute, SecretsNotStored,
          Exclusive, NoReply, BrokerTypeOK, Handler, Row, Reply
    <2>18. ASSUME NEW a \in Answer, Receives(c, a) PROVE SecretsNotStored'
      BY <2>18, NoneAssumption
      DEF Receives, At, OnlyHandler, SecretsOnRoute, SecretsNotStored,
          Exclusive, NoReply, BrokerTypeOK, Handler, Row, Reply
    <2>19. CASE MarkUnknown(c)
      BY <2>19, NoneAssumption
      DEF MarkUnknown, At, Goto, MarkedUnknown, SecretsOnRoute,
          SecretsNotStored, Exclusive, NoReply, BrokerTypeOK, Handler, Row,
          Reply
    <2>20. CASE MarkFails(c)
      BY <2>20, NoneAssumption
      DEF MarkFails, At, Goto, MarkedUnknown, SecretsOnRoute,
          SecretsNotStored, Exclusive, NoReply, BrokerTypeOK, Handler, Row,
          Reply
    <2>21. CASE RaiseFlag(c)
      BY <2>21, NoneAssumption
      DEF RaiseFlag, At, Goto, SecretsOnRoute, SecretsNotStored, Exclusive,
          NoReply, BrokerTypeOK, Handler, Row, Reply
    <2>22. CASE Deliver(c)
      BY <2>22, NoneAssumption
      DEF Deliver, At, OnlyHandler, SecretsOnRoute, SecretsNotStored,
          Exclusive, NoReply, BrokerTypeOK, Handler, Row, Reply
    <2>23. CASE DeliverFails(c)
      BY <2>23, NoneAssumption
      DEF DeliverFails, At, Goto, OnlyHandler, SecretsOnRoute,
          SecretsNotStored, Exclusive, NoReply, BrokerTypeOK, Handler, Row,
          Reply
    <2>24. CASE ReadUsage(c)
      BY <2>24, NoneAssumption
      DEF ReadUsage, At, OnlyHandler, SecretsOnRoute, SecretsNotStored,
          Exclusive, NoReply, BrokerTypeOK, Handler, Row, Reply
    <2>25. CASE UsageFails(c)
      BY <2>25, NoneAssumption
      DEF UsageFails, At, Goto, OnlyHandler, SecretsOnRoute, SecretsNotStored,
          Exclusive, NoReply, BrokerTypeOK, Handler, Row, Reply
    <2>26. CASE Complete(c)
      BY <2>26, NoneAssumption
      DEF Complete, At, Existing, Goto, Completed, Redacted, SecretsOnRoute,
          SecretsNotStored, Exclusive, NoReply, BrokerTypeOK, Handler, Row,
          Reply
    <2>27. CASE CompleteFails(c)
      <3>1. CASE UNCHANGED rows
        BY <2>27, <3>1, NoneAssumption
        DEF CompleteFails, At, Goto, SecretsOnRoute, SecretsNotStored, Exclusive, BrokerTypeOK, Handler, Row, Reply
      <3>2. CASE /\ Existing(c).state = "IN_FLIGHT"
                 /\ rows' = Completed(conn[c].req, Redacted(c))
        <4>1. At(c, "complete") /\ Goto(c, "failed") /\ UNCHANGED <<clock, history>>
          BY <2>27 DEF CompleteFails
        <4>2. QED
          BY <3>2, <4>1, NoneAssumption
          DEF At, Goto, Existing, Completed, Redacted, SecretsOnRoute, SecretsNotStored, Exclusive, BrokerTypeOK, Handler, Row, Reply
      <3>3. QED
        BY <2>27, <3>1, <3>2 DEF CompleteFails
    <2>28. QED
      BY <1>1, <2>1, <2>2, <2>3, <2>4, <2>5, <2>6, <2>7, <2>8, <2>9, <2>10,
         <2>11, <2>12, <2>13, <2>14, <2>15, <2>16, <2>17, <2>18, <2>19, <2>20,
         <2>21, <2>22, <2>23, <2>24, <2>25, <2>26, <2>27 DEF HandlerStep
  <1>2. CASE StopServing
    BY <1>2, NoneAssumption
    DEF StopServing, SecretsOnRoute, SecretsNotStored, Exclusive, NoReply,
        BrokerTypeOK, Handler, Row, Reply
  <1>3. CASE ServeFails
    BY <1>3, NoneAssumption
    DEF ServeFails, SecretsOnRoute, SecretsNotStored, Exclusive, NoReply,
        BrokerTypeOK, Handler, Row, Reply
  <1>4. CASE Crash
    BY <1>4, NoneAssumption
    DEF Crash, SecretsOnRoute, SecretsNotStored, Exclusive, NoReply,
        BrokerTypeOK, Handler, Row, Reply
  <1>5. CASE Bind
    BY <1>5, NoneAssumption
    DEF Bind, SecretsOnRoute, SecretsNotStored, Exclusive, NoReply,
        BrokerTypeOK, Handler, Row, Reply
  <1>6. CASE Expire
    BY <1>6, NoneAssumption
    DEF Expire, SecretsOnRoute, SecretsNotStored, Exclusive, NoReply,
        BrokerTypeOK, Handler, Row, Reply
  <1>7. ASSUME NEW s \in Secret \cup {None}, Rotate(s) PROVE SecretsNotStored'
    BY <1>7, NoneAssumption
    DEF Rotate, SecretsOnRoute, SecretsNotStored, Exclusive, NoReply,
        BrokerTypeOK, Handler, Row, Reply
  <1>8. CASE UNCHANGED brokerVars
    BY <1>8, NoneAssumption
    DEF brokerVars, SecretsOnRoute, SecretsNotStored, Exclusive, NoReply,
        BrokerTypeOK, Handler, Row, Reply
  <1>9. QED
    BY <1>1, <1>2, <1>3, <1>4, <1>5, <1>6, <1>7, <1>8 DEF BrokerNext

-----------------------------------------------------------------------------
(* The invariant and the properties.                                       *)

(* A row that is COMPLETED or UNKNOWN is not changed: recording needs an   *)
(* absent row, marking and completing one in flight.                       *)
LEMMA SettledRowsStep ==
    ASSUME BrokerTypeOK, Exclusive, [BrokerNext]_brokerVars,
           NEW q \in Req, rows[q].state \in {"COMPLETED", "UNKNOWN"}
    PROVE  rows'[q] = rows[q]
  <1>1. ASSUME NEW c \in Conn, Accept(c) \/ HandlerStep(c)
        PROVE  rows'[q] = rows[q]
    <2>1. CASE \/ BeginInterrupted(c) \/ BeginNew(c) \/ BeginFails(c)
               \/ MarkUnknown(c) \/ MarkFails(c)
      BY <2>1
      DEF BeginInterrupted, BeginNew, BeginFails, MarkUnknown, MarkFails, Repeats,
          Admissible, At, Existing, Admitted, MarkedUnknown, Exclusive, BrokerTypeOK
    <2>2. CASE Complete(c) \/ CompleteFails(c)
      BY <2>2
      DEF Complete, CompleteFails, At, Existing, Completed, Exclusive, BrokerTypeOK
    <2>3. CASE UNCHANGED rows
      BY <2>3
    <2>4. QED
      BY <1>1, <2>1, <2>2, <2>3
      DEF HandlerStep, Accept, ReadFails, RefuseActive, Receive, Finish, FinishFailed,
          Respond, Refuse, BeginReused, BeginReplay, BeginUnknown, BeginOverBudget,
          Send, AnswerLost, Receives, RaiseFlag, Deliver, DeliverFails, ReadUsage,
          UsageFails, OnlyHandler
  <1>2. CASE StopServing \/ ServeFails \/ Crash \/ Bind \/ Expire
    BY <1>2 DEF StopServing, ServeFails, Crash, Bind, Expire
  <1>3. ASSUME NEW s \in Secret \cup {None}, Rotate(s) PROVE rows'[q] = rows[q]
    BY <1>3 DEF Rotate
  <1>4. CASE UNCHANGED brokerVars
    BY <1>4 DEF brokerVars
  <1>5. QED
    BY <1>1, <1>2, <1>3, <1>4 DEF BrokerNext

(* The initial state satisfies the invariant.                              *)
LEMMA InvariantInit == BrokerInit => BrokerInvariant
  <1> SUFFICES ASSUME BrokerInit PROVE BrokerInvariant
    OBVIOUS
  <1>1. BrokerTypeOK
    BY EmptyTypes DEF BrokerInit, BrokerTypeOK
  <1>2. Exclusive /\ OwnedRow /\ ReplayKnown /\ AnswerRecorded
    BY DEF BrokerInit, Exclusive, Holding, OwnedRow, Working, ReplayKnown,
           AnswerRecorded, Answering, Idle
  <1>3. RowsFilled /\ Unsent /\ AtMostOneSend /\ ReplyRecorded
    BY NoneAssumption
    DEF BrokerInit, RowsFilled, Unsent, AtMostOneSend, ReplyRecorded, NoRow, Idle
  <1>4. SecretsOnRoute /\ SecretsNotStored
    BY NoneAssumption
    DEF BrokerInit, SecretsOnRoute, SecretsNotStored, Idle, NoRow, NoReply
  <1>5. QED
    BY <1>1, <1>2, <1>3, <1>4 DEF BrokerInvariant

(* BrokerInvariant holds in every reachable state of the broker: the       *)
(* conjuncts hold each other up, none is inductive alone.                  *)
THEOREM BrokerInvariantHolds == BrokerSpec => []BrokerInvariant
  <1>1. BrokerInit => BrokerInvariant
    BY InvariantInit
  <1>2. BrokerInvariant /\ [BrokerNext]_brokerVars => BrokerInvariant'
    <2> SUFFICES ASSUME BrokerInvariant, [BrokerNext]_brokerVars PROVE BrokerInvariant'
      OBVIOUS
    <2>1. BrokerTypeOK' /\ Exclusive'
      BY TypeStep, ExclusiveStep DEF BrokerInvariant
    <2>2. OwnedRow' /\ RowsFilled'
      BY OwnedRowStep, RowsFilledStep DEF BrokerInvariant
    <2>3. Unsent' /\ AtMostOneSend'
      BY SendStep DEF BrokerInvariant
    <2>4. ReplayKnown' /\ AnswerRecorded' /\ ReplyRecorded'
      BY ReplayStep, AnswerStep, ReplyStep DEF BrokerInvariant
    <2>5. SecretsOnRoute' /\ SecretsNotStored'
      BY RouteStep, StoredStep DEF BrokerInvariant
    <2>6. QED
      BY <2>1, <2>2, <2>3, <2>4, <2>5 DEF BrokerInvariant
  <1>3. QED
    BY <1>1, <1>2, PTL DEF BrokerSpec

(* No provider is called twice for a request id, across connections,       *)
(* repetitions, journal faults and deaths of the runner.                   *)
THEOREM SendsAtMostOnce == BrokerSpec => []AtMostOneSend
  <1>1. BrokerInvariant => AtMostOneSend
    BY DEF BrokerInvariant
  <1>2. QED
    BY <1>1, BrokerInvariantHolds, PTL

(* Whatever the worker was answered is in the journal, with the reply a    *)
(* repetition would get.                                                   *)
THEOREM RepliesAreRecorded == BrokerSpec => []ReplyRecorded
  <1>1. BrokerInvariant => ReplyRecorded
    BY DEF BrokerInvariant
  <1>2. QED
    BY <1>1, BrokerInvariantHolds, PTL

(* A request that a handler admitted is settled by that handler only.      *)
THEOREM RowsAreOwned == BrokerSpec => []OwnedRow
  <1>1. BrokerInvariant => OwnedRow
    BY DEF BrokerInvariant
  <1>2. QED
    BY <1>1, BrokerInvariantHolds, PTL

(* The journal never holds the attempt's credential.                       *)
THEOREM SecretsStayOut == BrokerSpec => []SecretsNotStored
  <1>1. BrokerInvariant => SecretsNotStored
    BY DEF BrokerInvariant
  <1>2. QED
    BY <1>1, BrokerInvariantHolds, PTL

(* COMPLETED and UNKNOWN are final.                                        *)
THEOREM SettledRowsAreFinal == BrokerSpec => SettledRowsStay
  <1>1. BrokerInvariant /\ [BrokerNext]_brokerVars =>
            [\A r \in Req : rows[r].state \in {"COMPLETED", "UNKNOWN"} => rows'[r] = rows[r]]_brokerVars
    BY SettledRowsStep DEF BrokerInvariant
  <1>2. QED
    BY <1>1, BrokerInvariantHolds, PTL DEF BrokerSpec, SettledRowsStay
-----------------------------------------------------------------------------
(* The budget                                                              *)

(* A step that leaves every row where it counts as it did.                 *)
SameCharges ==
    \A r \in Req : /\ rows'[r].content = rows[r].content
                   /\ rows'[r].state = "ABSENT" <=> rows[r].state = "ABSENT"

(* A step in which a handler admits its request within the grant.          *)
Admits(c) ==
    /\ conn[c].req \in Req
    /\ conn[c].content \in Content
    /\ rows[conn[c].req].state = "ABSENT"
    /\ WithinGrant(conn[c].content)
    /\ rows' = Admitted(conn[c].req, conn[c].content)

(* Marking and completing a recorded request charge nothing.               *)
LEMMA SettlingIsFree ==
    ASSUME BrokerTypeOK, NEW r \in Req
    PROVE  /\ rows' = MarkedUnknown(r) => SameCharges
           /\ \A p \in Reply : rows[r].state = "IN_FLIGHT" /\ rows' = Completed(r, p) => SameCharges
           /\ rows' = rows => SameCharges
  <1>1. rows \in [Req -> Row]
    BY DEF BrokerTypeOK
  <1>2. rows' = rows => SameCharges
    BY DEF SameCharges
  <1>3. rows' = MarkedUnknown(r) => SameCharges
    BY <1>1 DEF MarkedUnknown, SameCharges, Row
  <1>4. ASSUME NEW p \in Reply, rows[r].state = "IN_FLIGHT", rows' = Completed(r, p)
        PROVE  SameCharges
    BY <1>1, <1>4 DEF Completed, SameCharges, Row
  <1>. QED
    BY <1>2, <1>3, <1>4

(* The table only grows by an admission within the grant.                  *)
LEMMA TableStep ==
    ASSUME BrokerTypeOK, Exclusive, [BrokerNext]_brokerVars
    PROVE  SameCharges \/ \E c \in Conn : Admits(c)
  <1>1. CASE UNCHANGED rows
    BY <1>1 DEF SameCharges
  <1>2. ASSUME NEW c \in Conn, HandlerStep(c), rows' # rows
        PROVE  SameCharges \/ Admits(c)
    <2>1. /\ At(c, "dispatch") \/ At(c, "mark") \/ At(c, "complete")
             => conn[c].req \in Req /\ conn[c].content \in Content
          /\ At(c, "complete") => Redacted(c) \in Reply
      BY DEF At, Exclusive, BrokerTypeOK, Handler, Redacted, Reply
    <2>2. CASE BeginInterrupted(c)
      BY <2>1, <2>2, SettlingIsFree DEF BeginInterrupted, Repeats, Admissible
    <2>3. CASE BeginNew(c)
      BY <2>1, <2>3 DEF BeginNew, Admissible, Existing, Admits
    <2>4. CASE BeginFails(c)
      BY <1>2, <2>1, <2>4, SettlingIsFree DEF BeginFails, Repeats, Admissible, Existing, Admits
    <2>5. CASE MarkUnknown(c) \/ MarkFails(c)
      BY <1>2, <2>1, <2>5, SettlingIsFree DEF MarkUnknown, MarkFails
    <2>6. CASE Complete(c) \/ CompleteFails(c)
      BY <1>2, <2>1, <2>6, SettlingIsFree DEF Complete, CompleteFails, Existing
    <2>7. BeginInterrupted(c) \/ BeginNew(c) \/ BeginFails(c) \/ MarkUnknown(c)
          \/ MarkFails(c) \/ Complete(c) \/ CompleteFails(c)
      BY <1>2
      DEF HandlerStep, ReadFails, RefuseActive, Receive, Finish, FinishFailed, Respond, Refuse,
          BeginReused, BeginReplay, BeginUnknown, BeginOverBudget, Send, AnswerLost, Receives,
          RaiseFlag, Deliver, DeliverFails, ReadUsage, UsageFails, OnlyHandler
    <2>. QED
      BY <2>2, <2>3, <2>4, <2>5, <2>6, <2>7
  <1>3. CASE rows' # rows
    <2>1. PICK c \in Conn : HandlerStep(c)
      BY <1>3 DEF BrokerNext, Accept, OnlyHandler, StopServing, ServeFails, Crash, Bind, Expire,
                  Rotate, brokerVars
    <2>. QED
      BY <1>2, <1>3, <2>1
  <1>. QED
    BY <1>1, <1>3

(* What a request is charged, as a set of units.                           *)
LEMMA UnitsOfRow ==
    ASSUME NEW r, NEW n \in Nat
    PROVE  IsFiniteSet({r} \X (1..n)) /\ Cardinality({r} \X (1..n)) = n
  <1>1. IsFiniteSet(1..n) /\ Cardinality(1..n) = n
    BY FS_Interval
  <1>2. IsFiniteSet({r}) /\ Cardinality({r}) = 1
    BY FS_Singleton
  <1>. QED
    BY <1>1, <1>2, FS_Product

(* WithinBudget, with the fact that makes the charges numbers.             *)
BudgetInv == WithinBudget /\ \A m \in Resource : IsFiniteSet(Units(m))

(* An admission adds one request, and exactly the units of its content:    *)
(* its id has no others.                                                   *)
LEMMA AdmissionCharges ==
    ASSUME BrokerTypeOK, NEW c \in Conn, Admits(c), NEW m \in Resource, IsFiniteSet(Units(m))
    PROVE  /\ IsFiniteSet(Units(m)')
           /\ Charged(m)' = Charged(m) + Charge[conn[c].content][m]
  <1> DEFINE r   == conn[c].req
             b   == conn[c].content
             add == {r} \X (1..Charge[b][m])
  <1>1. Charge[b][m] \in Nat
    BY ChargeAssumption DEF Admits
  <1>2. rows'[r].state = "IN_FLIGHT" /\ rows'[r].content = b
        /\ \A q \in Req : q # r => rows'[q] = rows[q]
    BY DEF Admits, Admitted, BrokerTypeOK
  <1>3. Recorded' = Recorded \cup {r} /\ r \notin Recorded
    BY <1>2 DEF Recorded, Admits
  <1>4. Units(m)' = Units(m) \cup add
    <2>1. ASSUME NEW u \in Units(m)' PROVE u \in Units(m) \cup add
      <3>1. PICK q \in Recorded' : u \in {q} \X (1..Charge[rows'[q].content][m])
        BY <2>1 DEF Units
      <3>2. CASE q = r
        BY <1>2, <3>1, <3>2
      <3>3. CASE q # r
        BY <1>2, <1>3, <3>1, <3>3 DEF Units, Recorded
      <3>. QED
        BY <3>2, <3>3
    <2>2. ASSUME NEW u \in Units(m) PROVE u \in Units(m)'
      <3>1. PICK q \in Recorded : u \in {q} \X (1..Charge[rows[q].content][m])
        BY <2>2 DEF Units
      <3>2. q \in Recorded' /\ rows'[q] = rows[q]
        BY <1>2, <1>3 DEF Recorded
      <3>. QED
        BY <3>1, <3>2 DEF Units
    <2>3. add \subseteq Units(m)'
      BY <1>2, <1>3 DEF Units
    <2>. QED
      BY <2>1, <2>2, <2>3
  <1>5. Units(m) \cap add = {}
    <2> SUFFICES ASSUME NEW u \in Units(m), u \in add PROVE FALSE
      OBVIOUS
    <2>1. PICK q \in Recorded : u \in {q} \X (1..Charge[rows[q].content][m])
      BY DEF Units
    <2>2. u[1] = q /\ u[1] = r
      BY <2>1
    <2>. QED
      BY <1>3, <2>2
  <1>6. IsFiniteSet(add) /\ Cardinality(add) = Charge[b][m]
    BY <1>1, UnitsOfRow
  <1> HIDE DEF add, b
  <1>7. IsFiniteSet(Units(m) \cup add)
        /\ Cardinality(Units(m) \cup add) = Cardinality(Units(m)) + Cardinality(add) - Cardinality({})
    BY <1>5, <1>6, FS_Union
  <1>8. Cardinality(Units(m)) \in Nat
    BY FS_CardinalityType
  <1>. QED
    BY <1>1, <1>4, <1>6, <1>7, <1>8, FS_EmptySet DEF Charged, b

(* Every step keeps the budget.                                            *)
LEMMA BudgetStep ==
    ASSUME BrokerTypeOK, Exclusive, BudgetInv, [BrokerNext]_brokerVars
    PROVE  BudgetInv'
  <1>1. CASE SameCharges
    <2>1. Recorded' = Recorded
      BY <1>1 DEF SameCharges, Recorded
    <2>2. ASSUME NEW m \in Resource PROVE Units(m)' = Units(m)
      BY <1>1, <2>1 DEF Units, SameCharges, Recorded
    <2>. QED
      BY <2>1, <2>2 DEF BudgetInv, WithinBudget, Charged
  <1>2. ASSUME NEW c \in Conn, Admits(c) PROVE BudgetInv'
    <2>1. Recorded' = Recorded \cup {conn[c].req}
      BY <1>2 DEF Recorded, Admits, Admitted, BrokerTypeOK
    <2>2. IsFiniteSet(Recorded) /\ Cardinality(Recorded) \in Nat
      BY RequestAssumption, FS_Subset, FS_CardinalityType DEF Recorded
    <2>3. conn[c].req \notin Recorded
      BY <1>2 DEF Recorded, Admits
    <2>4. Cardinality(Recorded \cup {conn[c].req}) = Cardinality(Recorded) + 1
      BY <2>2, <2>3, FS_AddElement
    <2>5. Cardinality(Recorded)' <= MaxRequests
      BY <1>2, <2>1, <2>2, <2>4, ChargeAssumption DEF Admits, WithinGrant
    <2>6. ASSUME NEW m \in Resource
          PROVE  IsFiniteSet(Units(m)') /\ Charged(m)' <= Maximum[m]
      BY <1>2, AdmissionCharges DEF BudgetInv, Admits, WithinGrant
    <2>. QED
      BY <2>5, <2>6 DEF BudgetInv, WithinBudget
  <1>. QED
    BY <1>1, <1>2, TableStep

(* The grant is never exceeded, in requests or in any metered resource:    *)
(* begin_broker_request counts and inserts in one transaction, and what it *)
(* has counted is never taken back.                                        *)
THEOREM GrantIsKept == BrokerSpec => []WithinBudget
  <1>1. BrokerInit => BudgetInv
    <2> SUFFICES ASSUME BrokerInit PROVE BudgetInv
      OBVIOUS
    <2>1. Recorded = {}
      BY DEF BrokerInit, Recorded, NoRow
    <2>2. \A m \in Resource : Units(m) = {}
      BY <2>1 DEF Units
    <2>3. IsFiniteSet({}) /\ Cardinality({}) = 0
      BY FS_EmptySet
    <2>4. 0 <= MaxRequests /\ \A m \in Resource : 0 <= Maximum[m]
      BY ChargeAssumption
    <2>5. \A m \in Resource : Charged(m) = 0
      BY <2>2, <2>3 DEF Charged
    <2>. QED
      BY <2>1, <2>2, <2>3, <2>4, <2>5 DEF BudgetInv, WithinBudget
  <1>2. BrokerInvariant /\ BudgetInv /\ [BrokerNext]_brokerVars => BudgetInv'
    BY BudgetStep DEF BrokerInvariant
  <1>3. BudgetInv => WithinBudget
    BY DEF BudgetInv
  <1>. QED
    BY <1>1, <1>2, <1>3, BrokerInvariantHolds, PTL DEF BrokerSpec
=============================================================================
