----------------------------- MODULE RiskEngine -----------------------------
(***************************************************************************)
(* The numeric rules of RiskEngine::evaluate (src/execution/src/risk.cpp)  *)
(* for one instrument, on the snapshot the session captures of the paper   *)
(* broker's orders and position (execution_session.cpp), with what moves   *)
(* them: preparation, submission, fills, observations, restarts.           *)
(*                                                                         *)
(* The rules that do not count (identity, routing, freshness, Greeks, P&L) *)
(* hold; lot and tick are 1.  MaxInt and MaxUint stand for INT64_MAX and   *)
(* UINT64_MAX.  The submission stage holds one prepared intent at a time   *)
(* (ExecutorServer!StagesHoldOneItem).                                     *)
(***************************************************************************)
EXTENDS Integers, Sequences, FiniteSets

CONSTANTS
    NumOrders,         \* bound: orders the strategy may place
    Quantities,        \* quantities an intent may ask for
    Prices,            \* limit prices and marks
    MaxInt, MaxUint,   \* the largest signed and unsigned machine integers
    MaxOrderQuantity,  \* maximum_order_quantity
    MaxPosition,       \* maximum_absolute_instrument_position
    MaxGross,          \* maximum_gross_premium_paise
    MaxOutstanding,    \* maximum_outstanding_orders
    MaxPerWindow,      \* maximum_orders_per_window
    Window,            \* order_rate_window_ns
    LastTime           \* bound: ticks of the clock

ASSUME LimitsAssumption ==
    /\ {MaxInt, MaxUint, MaxOrderQuantity, MaxPosition, MaxGross, MaxOutstanding,
        MaxPerWindow, Window} \subseteq Nat \ {0}
    /\ MaxUint = 2 * MaxInt + 1 /\ MaxPosition <= MaxInt
    /\ Quantities \cup Prices \subseteq Nat \ {0}
    /\ NumOrders \in Nat /\ LastTime \in Nat

Orders == 1..NumOrders
Sides == {"buy", "sell"}

VARIABLES
    fillModel,  \* d51_proxy_v1 or scripted_v1
    health,     \* the broker's session health
    order,      \* the broker's orders
    position,   \* the broker's position
    tracked,    \* positions_ has an entry for the instrument
    mark,       \* the highest quote of the last observation; 0 for none
    now,
    recent,     \* the attempts whose times accepted_order_times_ns_ has
    attempts,   \* the attempt times of the ledger
    prepared    \* the intent in the submission stage, or NoIntent

vars == <<fillModel, health, order, position, tracked, mark, now, recent, attempts, prepared>>

NoOrder == [state |-> "none", side |-> "buy", quantity |-> 0, price |-> 0, filled |-> 0]

Init ==
    /\ fillModel \in {"d51", "scripted"}
    /\ health = "ready"
    /\ order = [o \in Orders |-> NoOrder]
    /\ position = 0 /\ tracked = FALSE
    /\ mark = 0 /\ now = 0
    /\ recent = {} /\ attempts = << >>
    /\ prepared = {}

-----------------------------------------------------------------------------
(* Machine integers and the snapshot.                                      *)

\* Variant: a sum that overflows goes unnoticed.
NeverOverflows(n) == TRUE

InInt(n) == n \in (-MaxInt - 1)..MaxInt
InUint(n) == n <= MaxUint

Abs(n) == IF n < 0 THEN -n ELSE n
Saturated(n) == IF Abs(n) > MaxInt THEN MaxInt ELSE Abs(n)

\* The value of a signed sum in MaxInt's width.
Wrapped(n) == ((n + MaxInt + 1) % (2 * (MaxInt + 1))) - (MaxInt + 1)

Working == {o \in Orders : order[o].state = "working"}
Remaining(o) == order[o].quantity - order[o].filled
Signed(side, n) == IF side = "buy" THEN n ELSE -n

\* What the orders contribute to a sum, added up in the order of the ids.
Total(f) ==
    LET upto[k \in 0..NumOrders] == IF k = 0 THEN 0 ELSE upto[k - 1] + f[k]
    IN upto[NumOrders]

Net(S) ==
    Total([o \in Orders |-> IF o \in S THEN Signed(order[o].side, Remaining(o)) ELSE 0])
Premium(S) ==
    Total([o \in Orders |-> IF o \in S THEN Remaining(o) * order[o].price ELSE 0])
WorkingSells(S) ==
    Total([o \in Orders |-> IF o \in S /\ order[o].side = "sell" THEN Remaining(o) ELSE 0])

\* capture_risk_snapshot: a lost session or a position of zero is a debt.
ReconciliationRequired == health = "lost" \/ (tracked /\ position = 0)

-----------------------------------------------------------------------------
(* The rules.  An intent has an action, an order, a side, a quantity and a *)
(* price; the target of a modify does not count among the working orders.  *)

Others(i) == Working \ {i.order}

Projected(i) ==
    IF i.action = "modify" /\ i.quantity > order[i.order].filled
    THEN i.quantity - order[i.order].filled ELSE i.quantity

TargetFits(i) ==
    IF i.action = "modify"
    THEN /\ i.order \in Working
         /\ i.side = order[i.order].side
         /\ i.quantity > order[i.order].filled
    ELSE order[i.order].state = "none"

SizeFits(i) == i.quantity <= MaxInt /\ i.quantity <= MaxOrderQuantity

OutstandingFits(i) == Cardinality(Others(i)) < MaxOutstanding

RateFits ==
    Cardinality({k \in recent : attempts[k] > now - Window /\ attempts[k] <= now})
        < MaxPerWindow

\* The position the working orders and the new one lead to.
PositionFits(i) ==
    LET final == position + Net(Others(i)) + Signed(i.side, Projected(i))
    IN /\ \A k \in Orders : InInt(position + Net(Others(i) \cap 1..k))
       /\ InInt(final)
       /\ Saturated(Wrapped(final)) <= MaxPosition

\* Variant: what the other working orders sell is not reserved.
SellsAnything(i) == i.side = "sell" => position >= Projected(i)

\* sell_availability: a requirement that overflows is taken for MaxInt.
SellFits(i) ==
    i.side = "sell" =>
        LET others == WorkingSells(Working)
            own == Remaining(i.order)
            reserved == IF /\ i.action = "modify" /\ order[i.order].side = "sell"
                           /\ others >= own
                        THEN others - own ELSE others
            required == IF reserved + Projected(i) <= MaxInt
                        THEN reserved + Projected(i) ELSE MaxInt
        IN reserved <= MaxInt /\ position >= required

\* Variant: only the new order's own premium is bounded.
OwnPremiumFits(i) == Projected(i) * i.price <= MaxGross

\* gross_premium: the position at its mark, the working orders, the new one.
GrossFits(i) ==
    LET held == Abs(position) * mark
        gross == (IF InUint(held) THEN held ELSE MaxUint) + Premium(Others(i))
    IN /\ InUint(gross) /\ InUint(Projected(i) * i.price)
       /\ InUint(gross + Projected(i) * i.price)
       /\ gross + Projected(i) * i.price <= MaxGross

\* evaluate() approves a place or a modify.
Approves(i) ==
    /\ ~ReconciliationRequired
    /\ mark > 0
    /\ TargetFits(i) /\ SizeFits(i)
    /\ OutstandingFits(i) /\ RateFits
    /\ PositionFits(i) /\ SellFits(i) /\ GrossFits(i)

\* ... and a cancel.
ApprovesCancel(o) == health # "lost" /\ o \in Working

Intents ==
    [action : {"place", "modify"}, order : Orders, side : Sides,
     quantity : Quantities, price : Prices]

CancelOf(o) == [action |-> "cancel", order |-> o, side |-> order[o].side,
                quantity |-> order[o].quantity, price |-> order[o].price]

-----------------------------------------------------------------------------
(* The session and the broker.                                             *)

\* prepare_intent: the durable attempt enters the rate window, at a time the
\* clock has reached since the snapshot.
Prepare(i) ==
    /\ prepared = {}
    /\ Approves(i)
    /\ prepared' = {i}
    /\ \E t \in {now, now + 1} :
        /\ t <= LastTime
        /\ now' = t
        /\ attempts' = Append(attempts, t)
        /\ recent' = {k \in recent \cup {Len(attempts')} : attempts'[k] > t - Window}
    /\ UNCHANGED <<fillModel, health, order, position, tracked, mark>>

PrepareCancel(o) ==
    /\ prepared = {}
    /\ ApprovesCancel(o)
    /\ prepared' = {CancelOf(o)}
    /\ UNCHANGED <<fillModel, health, order, position, tracked, mark, now, recent, attempts>>

\* PaperBroker::modify: what is already filled cannot be taken back.
Modifiable(i) == i.order \in Working /\ i.quantity >= order[i.order].filled

\* The orders once the broker has placed, modified or cancelled as i asks.
Submitted(i) ==
    CASE i.action = "place" ->
            [order EXCEPT ![i.order] =
                [state |-> "working", side |-> i.side, quantity |-> i.quantity,
                 price |-> i.price, filled |-> 0]]
      [] i.action = "modify" /\ Modifiable(i) ->
            [order EXCEPT ![i.order].quantity = i.quantity, ![i.order].price = i.price]
      [] i.action = "cancel" /\ i.order \in Working ->
            [order EXCEPT ![i.order].state = "cancelled"]
      [] OTHER -> order

\* submit_prepared, on a session that is not lost.
Submit ==
    \E i \in prepared :
        /\ prepared' = {}
        /\ order' = IF health = "lost" THEN order ELSE Submitted(i)
        /\ UNCHANGED <<fillModel, health, position, tracked, mark, now, recent, attempts>>

\* What PaperBroker::fill books for each order of S up to c[o], in the order of
\* the ids: a position that does not fit stays as it was.
Booked(S, c) ==
    LET after[k \in 0..NumOrders] ==
            IF k = 0 THEN [position |-> position, fits |-> TRUE]
            ELSE IF k \notin S THEN after[k - 1]
            ELSE LET p == after[k - 1].position + Signed(order[k].side, c[k] - order[k].filled)
                 IN IF InInt(p) THEN [after[k - 1] EXCEPT !.position = p]
                    ELSE [after[k - 1] EXCEPT !.fits = FALSE]
    IN after[NumOrders]

Fill(S, c) ==
    LET result == Booked(S, c)
    IN /\ position' = result.position
       /\ health' = IF result.fits THEN health ELSE "lost"
       /\ tracked' = (tracked \/ S # {})
       /\ order' = [o \in Orders |->
            IF o \notin S THEN order[o]
            ELSE [order[o] EXCEPT !.filled = c[o],
                                  !.state = IF c[o] = order[o].quantity THEN "filled" ELSE "working"]]

\* accept_observation: under the d51 model every order that the price m
\* crosses with new volume is filled.
Crosses(o, m) == IF order[o].side = "buy" THEN m <= order[o].price ELSE m >= order[o].price

Observe(m) ==
    /\ health = "ready"
    /\ mark' = m
    /\ \E S \in SUBSET {o \in Working : Crosses(o, m) /\ Remaining(o) > 0} :
        /\ fillModel = "scripted" => S = {}
        /\ Fill(S, [o \in S |-> order[o].quantity])
    /\ UNCHANGED <<fillModel, now, recent, attempts, prepared>>

\* apply_scripted: a fixture fills part of an order, or all of it.
ScriptedFill(o) ==
    /\ fillModel = "scripted" /\ o \in Working
    /\ \E c \in (order[o].filled + 1)..order[o].quantity : Fill({o}, [k \in {o} |-> c])
    /\ UNCHANGED <<fillModel, mark, now, recent, attempts, prepared>>

\* Variant: the new process starts with an empty rate window.
RestartForgets ==
    /\ prepared = {} /\ health = "ready"
    /\ mark' = 0
    /\ recent' = {}
    /\ UNCHANGED <<fillModel, health, order, position, tracked, now, attempts, prepared>>

\* A new process: broker and rate window are rebuilt from the ledger, marks
\* come with the next observation.  A position that overflowed is not replayed;
\* a process that dies inside a submission is ExecutionSession's business.
Restart ==
    /\ prepared = {} /\ health = "ready"
    /\ mark' = 0
    /\ recent' = {k \in DOMAIN attempts : attempts[k] > now - Window}
    /\ UNCHANGED <<fillModel, health, order, position, tracked, now, attempts, prepared>>

Tick ==
    /\ now < LastTime
    /\ now' = now + 1
    /\ UNCHANGED <<fillModel, health, order, position, tracked, mark, recent, attempts, prepared>>

Next ==
    \/ \E i \in Intents : Prepare(i)
    \/ \E o \in Orders : PrepareCancel(o) \/ ScriptedFill(o)
    \/ \E m \in Prices : Observe(m)
    \/ Submit \/ Restart \/ Tick

Spec == Init /\ [][Next]_vars

-----------------------------------------------------------------------------
(* Properties.                                                             *)

\* Types of the broker's, the account's and the session's variables; no order
\* has more fills than its quantity, through every modify.
TypeOK ==
    /\ fillModel \in {"d51", "scripted"} /\ health \in {"ready", "lost"}
    /\ \A o \in Orders :
        /\ order[o].state \in {"none", "working", "filled", "cancelled"}
        /\ order[o].side \in Sides
        /\ order[o].filled \in 0..order[o].quantity
    /\ InInt(position) /\ tracked \in BOOLEAN /\ mark \in Prices \cup {0}
    /\ now \in 0..LastTime
    /\ attempts \in Seq(0..now) /\ recent \subseteq DOMAIN attempts
    /\ Cardinality(prepared) <= 1

\* What the saturation of required_sell may let through: nothing, unless the
\* premium limit is as large as the machine's integers.
SaturationSlack == IF MaxGross < MaxUint THEN 0 ELSE 1

\* Whatever is filled, cancelled, modified or restarted in between, the account
\* holds everything its working orders may still sell; where sell_availability
\* saturates and the premium limit is UINT64_MAX, all but one unit of it.
NeverShort == WorkingSells(Working) <= position + SaturationSlack

\* RISK_RULES.md, rule 8: a sell has available inventory after the working sells.
SellsAreHeld == WorkingSells(Working) <= position

\* The working orders never ask for more premium than the limit, though each
\* was approved at another time, mark and position.
GrossStaysBounded == Premium(Working) <= MaxGross

\* Never more working orders than the limit, with a modify counted once.
OutstandingStaysBounded == Cardinality(Working) <= MaxOutstanding

\* The limits that RiskEngine::evaluate compares with a projection hold for the
\* account itself at every later moment.
LimitsHold == TypeOK /\ GrossStaysBounded /\ OutstandingStaysBounded

\* No window of time sees more attempts than the limit, across restarts.
RateIsBounded ==
    \A t \in 0..now :
        Cardinality({k \in DOMAIN attempts : attempts[k] > t - Window /\ attempts[k] <= t})
            <= MaxPerWindow

\* The premium that the intent leads to.
ExactGross(i) == Abs(position) * mark + Premium(Others(i)) + Projected(i) * i.price

\* The one sell approved without its inventory: a requirement of one unit more
\* than INT64_MAX, saturated, at a position of INT64_MAX and a premium of
\* UINT64_MAX to the unit.
SaturatedSell(i) ==
    /\ position = MaxInt /\ ExactGross(i) = MaxUint
    /\ WorkingSells(Others(i)) + Projected(i) = MaxInt + 1

\* What the machine's arithmetic approves is within the limits in exact
\* arithmetic: no overflow of the position or of the premium turns into an
\* approval, and the saturation of the sell requirement in a single case.
ApprovedIsExact ==
    \A i \in Intents : Approves(i) =>
        /\ Abs(position + Net(Others(i)) + Signed(i.side, Projected(i))) <= MaxPosition
        /\ ExactGross(i) <= MaxGross
        /\ i.side = "sell" =>
               \/ WorkingSells(Others(i)) + Projected(i) <= position
               \/ SaturatedSell(i)

\* An account that is flat, with nothing working and room in the rate window,
\* on a session without debt, can place an order.
FlatAccountTrades ==
    /\ health = "ready" /\ prepared = {} /\ mark > 0
    /\ Working = {} /\ position = 0 /\ RateFits
    /\ \E o \in Orders : order[o].state = "none"
    => \E i \in Intents : Approves(i)
=============================================================================
