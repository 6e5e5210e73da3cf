----------------------------- MODULE AcpCheckout -----------------------------
(***************************************************************************)
(* Agentic checkout (acp/router.py, acp/payment.py) over the commercial    *)
(* store (api/store.py): sessions, the idempotency keys of POST requests,  *)
(* the fulfilment row that carries the credit, and the order receipt.      *)
(*                                                                         *)
(* Servers are processes.  A handler never awaits once it runs, so one     *)
(* process serves its requests one after the other; every store call is a  *)
(* transaction of its own, and a handler may die or raise between any two  *)
(* of them.  Stripe is external: it captures a session's money once, and   *)
(* its answer may be lost.                                                 *)
(***************************************************************************)
EXTENDS Naturals, FiniteSets, FiniteSetsExt

CONSTANTS
    Servers,    \* API processes; the deployment runs one
    Sessions,   \* checkout session ids
    Carts,      \* item lists an agent asks for
    Payable,    \* the carts in which every item names a credit pack
    Runs,       \* the run credits of a cart
    Keys,       \* Idempotency-Key headers
    Calls,      \* POST requests agents make
    MaxFaults,  \* bound: how often a handler dies or raises
    NoCall, NoCart, NoAnswer

Ops == {"create", "update", "complete", "cancel"}

\* body: the items of a create or update, NoCart where the body has none;
\* its hash tells two payloads apart.
ASSUME CheckoutAssumption ==
    /\ Payable \subseteq Carts
    /\ Runs \in [Carts -> Nat]
    /\ Calls \subseteq [op : Ops, session : Sessions, key : Keys,
                        body : Carts \cup {NoCart}]
    /\ \A c \in Calls : c.op = "create" => c.body # NoCart
    /\ MaxFaults \in Nat
    /\ NoCart \notin Carts
    /\ NoCall \notin Calls

VARIABLES
    row,        \* acp_sessions
    idem,       \* idempotency_keys
    fulfilled,  \* acp_fulfillments: the cart credited for a session
    balance,    \* accounts.run_credits
    receipt,    \* the order receipt of a session: the cart it attests
    captured,   \* Stripe: the cart whose amount was captured
    misled,     \* history: a captured charge was reported as failed
    faults,     \* handlers that died so far
    pc, job     \* where each server is, and its local variables

money == <<fulfilled, balance, receipt>>
stripe == <<captured, misled>>
vars == <<row, idem, fulfilled, balance, receipt, captured, misled, faults,
          pc, job>>
-----------------------------------------------------------------------------
Statuses == {"none", "not_ready", "ready", "completed", "canceled"}
NoRow == [status |-> "none", cart |-> NoCart, frozen |-> FALSE]
SessionRows == {NoRow} \cup
    [status : Statuses \ {"none"}, cart : Carts, frozen : BOOLEAN]

\* A create has one key space, every other operation one per session.
Scopes  == {<<"create">>} \cup {<<op, s>> : op \in Ops \ {"create"},
                                            s \in Sessions}
Scope(c) == IF c.op = "create" THEN <<"create">> ELSE <<c.op, c.session>>
Answers == [status : Statuses, declined : BOOLEAN, session : Sessions]
Claims  == [state : {"none", "processing", "stale", "done"},
            body : Carts \cup {NoCart}, answer : Answers \cup {NoAnswer}]
NoClaim == [state |-> "none", body |-> NoCart, answer |-> NoAnswer]

Steps == {"idle", "load", "unpaid", "freeze", "charge", "clear", "fulfill",
          "recover", "mint", "mark", "save", "answer"}
Jobs  == [call : Calls \cup {NoCall}, seen : SessionRows, new : SessionRows,
          declined : BOOLEAN]
NoJob == [call |-> NoCall, seen |-> NoRow, new |-> NoRow, declined |-> FALSE]

TypeOK ==
    /\ row \in [Sessions -> SessionRows]
    /\ idem \in [Scopes \X Keys -> Claims]
    /\ fulfilled \in [Sessions -> Carts \cup {NoCart}]
    /\ balance \in Nat
    /\ receipt \in [Sessions -> Carts \cup {NoCart}]
    /\ captured \in [Sessions -> Carts \cup {NoCart}]
    /\ misled \in [Sessions -> BOOLEAN]
    /\ faults \in 0..MaxFaults
    /\ pc \in [Servers -> Steps]
    /\ job \in [Servers -> Jobs]

Init ==
    /\ row = [s \in Sessions |-> NoRow]
    /\ idem = [k \in Scopes \X Keys |-> NoClaim]
    /\ fulfilled = [s \in Sessions |-> NoCart]
    /\ balance = 0
    /\ receipt = [s \in Sessions |-> NoCart]
    /\ captured = [s \in Sessions |-> NoCart]
    /\ misled = [s \in Sessions |-> FALSE]
    /\ faults = 0
    /\ pc = [w \in Servers |-> "idle"]
    /\ job = [w \in Servers |-> NoJob]

Call(w) == job[w].call
Sess(w) == Call(w).session
At(w, step) == pc[w] = step
Goto(w, step) == pc' = [pc EXCEPT ![w] = step]
Keep(w, j) == job' = [job EXCEPT ![w] = j]
\* The handler ends; an error answer leaves its claim in "processing".
End(w) == Goto(w, "idle") /\ Keep(w, NoJob)
\* _persist with the default charge_attempted re-reads the marker first.
PersistKeeping(w, new) == Goto(w, "mark") /\ Keep(w, [job[w] EXCEPT !.new = new])
-----------------------------------------------------------------------------
(* Idempotency keys.                                                       *)

\* What a create saves.
Fresh(c) == [status |-> IF c.body \in Payable THEN "ready" ELSE "not_ready",
             cart |-> c.body, frozen |-> FALSE]

\* Slip: a claim is never taken over.
ClaimOnce(w, c) ==
    LET k == <<Scope(c), c.key>>
    IN  /\ At(w, "idle")
        /\ idem[k].state = "none"
        /\ c.op = "create" => row[c.session] = NoRow
        /\ idem' = [idem EXCEPT ![k] =
               [NoClaim EXCEPT !.state = "processing", !.body = c.body]]
        /\ Goto(w, IF c.op = "create" THEN "mark" ELSE "load")
        /\ Keep(w, [NoJob EXCEPT !.call = c,
                       !.new = IF c.op = "create" THEN Fresh(c) ELSE NoRow])
        /\ UNCHANGED <<row, money, stripe, faults>>

\* idempotency_begin: the key is new, or its claim is older than 60 seconds.
\* A request that gets 409 or 422 changes nothing and is not a step.
Claim(w, c) ==
    LET k == <<Scope(c), c.key>>
    IN  /\ At(w, "idle")
        /\ idem[k].state \in {"none", "stale"}
        /\ c.op = "create" => row[c.session] = NoRow
        /\ idem' = [idem EXCEPT ![k] =
               [NoClaim EXCEPT !.state = "processing", !.body = c.body]]
        /\ Goto(w, IF c.op = "create" THEN "mark" ELSE "load")
        /\ Keep(w, [NoJob EXCEPT !.call = c,
                       !.new = IF c.op = "create" THEN Fresh(c) ELSE NoRow])
        /\ UNCHANGED <<row, money, stripe, faults>>

\* IDEMPOTENCY_PROCESSING_TIMEOUT passes over a claim.
Lapse(k) ==
    /\ idem[k].state = "processing"
    /\ idem' = [idem EXCEPT ![k].state = "stale"]
    /\ UNCHANGED <<row, money, stripe, faults, pc, job>>

\* idempotency_complete, and the response.
Answer(w) ==
    LET k == <<Scope(Call(w)), Call(w).key>>
    IN  /\ At(w, "answer")
        /\ idem' = [idem EXCEPT ![k].state = "done", ![k].answer =
               [status |-> job[w].new.status, declined |-> job[w].declined,
                session |-> Sess(w)]]
        /\ End(w)
        /\ UNCHANGED <<row, money, stripe, faults>>
-----------------------------------------------------------------------------
(* Session rows.                                                           *)

\* What update and cancel refuse: by status, or because a charge may exist.
Refused(c, r) == \/ r.status \in {"none", "completed"}
                 \/ c.op = "update" /\ r.status = "canceled"
                 \/ r.frozen

\* Slip: a completed session is charged again, Stripe answers as before.
LoadRecharges(w) ==
    /\ At(w, "load")
    /\ LET c == Call(w)
           r == row[c.session]
           j == [job[w] EXCEPT !.seen = r, !.new = r]
       IN  IF c.op = "complete"
           THEN \/ r.status \in {"completed", "ready"}
                   /\ Goto(w, "freeze") /\ Keep(w, j)
                \/ r.status \notin {"completed", "ready"} /\ End(w)
           ELSE IF Refused(c, r)
                THEN End(w) ELSE Goto(w, "unpaid") /\ Keep(w, j)
    /\ UNCHANGED <<row, idem, money, stripe, faults>>

\* _load and the checks on what was read.
Load(w) ==
    /\ At(w, "load")
    /\ LET c == Call(w)
           r == row[c.session]
           j == [job[w] EXCEPT !.seen = r, !.new = r]
       IN  IF c.op = "complete"
           THEN \/ r.status = "completed" /\ Goto(w, "answer") /\ Keep(w, j)
                \/ r.status = "ready" /\ Goto(w, "freeze") /\ Keep(w, j)
                \/ r.status \notin {"completed", "ready"} /\ End(w)
           ELSE IF Refused(c, r)
                THEN End(w) ELSE Goto(w, "unpaid") /\ Keep(w, j)
    /\ UNCHANGED <<row, idem, money, stripe, faults>>

\* Slip: an update without items stores what it was sent.
UnpaidItemless(w) ==
    /\ At(w, "unpaid")
    /\ LET c == Call(w)
           old == job[w].seen
       IN  IF fulfilled[c.session] # NoCart THEN End(w)
           ELSE PersistKeeping(w, IF c.op = "update" THEN Fresh(c)
                                  ELSE [old EXCEPT !.status = "canceled"])
    /\ UNCHANGED <<row, idem, money, stripe, faults>>

\* _require_not_charged's second signal, then the change itself.
Unpaid(w) ==
    /\ At(w, "unpaid")
    /\ LET c == Call(w)
           old == job[w].seen
       IN  IF fulfilled[c.session] # NoCart THEN End(w)
           ELSE PersistKeeping(w,
               CASE c.op = "cancel" -> [old EXCEPT !.status = "canceled"]
                 [] c.op = "update" /\ c.body = NoCart -> old
                 [] c.op = "update" /\ c.body # NoCart -> Fresh(c))
    /\ UNCHANGED <<row, idem, money, stripe, faults>>

\* _persist, first transaction: the marker that is kept.
Mark(w) ==
    /\ At(w, "mark")
    /\ Goto(w, "save")
    /\ Keep(w, [job[w] EXCEPT !.new.frozen = row[Sess(w)].frozen])
    /\ UNCHANGED <<row, idem, money, stripe, faults>>

\* _persist, second transaction.
Save(w) ==
    /\ At(w, "save")
    /\ row' = [row EXCEPT ![Sess(w)] = job[w].new]
    /\ Goto(w, "answer")
    /\ UNCHANGED <<idem, money, stripe, faults, job>>
-----------------------------------------------------------------------------
(* complete.                                                               *)

\* Slip: the marker is set when the charge has gone through.
FreezeLate(w) ==
    /\ At(w, "freeze")
    /\ Goto(w, "charge")
    /\ UNCHANGED <<row, idem, money, stripe, faults, job>>

\* The marker, with the contents that were read.
Freeze(w) ==
    /\ At(w, "freeze")
    /\ row' = [row EXCEPT ![Sess(w)] = [job[w].seen EXCEPT !.frozen = TRUE]]
    /\ Goto(w, "charge")
    /\ UNCHANGED <<idem, money, stripe, faults, job>>

\* Stripe, under the session's own charge key: the money moves at most once.
Charge(w) ==
    /\ At(w, "charge")
    /\ LET s == Sess(w)
           paid == captured[s] # NoCart
       IN  \/ /\ captured' = [captured EXCEPT ![s] =
                                  IF paid THEN @ ELSE job[w].seen.cart]
              /\ \/ Goto(w, "fulfill") /\ UNCHANGED misled
                 \/ Goto(w, "clear") /\ misled' = [misled EXCEPT ![s] = TRUE]
           \/ /\ ~paid
              /\ Goto(w, "clear")
              /\ UNCHANGED stripe
    /\ UNCHANGED <<row, idem, money, faults, job>>

\* The 402 branch: the marker is cleared.
Clear(w) ==
    /\ At(w, "clear")
    /\ LET new == [job[w].seen EXCEPT !.status = "ready", !.frozen = FALSE]
       IN  /\ row' = [row EXCEPT ![Sess(w)] = new]
           /\ Keep(w, [job[w] EXCEPT !.new = new, !.declined = TRUE])
    /\ Goto(w, "answer")
    /\ UNCHANGED <<idem, money, stripe, faults>>

\* Slip: the order receipt, not the fulfilment row, tells that the credit
\* was applied.
FulfillByReceipt(w) ==
    /\ At(w, "fulfill")
    /\ LET s == Sess(w)
           cart == job[w].seen.cart
       IN  IF receipt[s] = NoCart
           THEN /\ fulfilled' = [fulfilled EXCEPT ![s] = cart]
                /\ balance' = balance + Runs[cart]
                /\ Goto(w, "mint")
           ELSE Goto(w, "recover") /\ UNCHANGED <<fulfilled, balance>>
    /\ UNCHANGED <<row, idem, receipt, stripe, faults, job>>

\* fulfill_once: the row and the credit in one transaction.
Fulfill(w) ==
    /\ At(w, "fulfill")
    /\ LET s == Sess(w)
           cart == job[w].seen.cart
       IN  IF fulfilled[s] = NoCart
           THEN /\ fulfilled' = [fulfilled EXCEPT ![s] = cart]
                /\ balance' = balance + Runs[cart]
                /\ Goto(w, "mint")
           ELSE Goto(w, "recover") /\ UNCHANGED <<fulfilled, balance>>
    /\ UNCHANGED <<row, idem, receipt, stripe, faults, job>>

Completed(w) == [job[w].seen EXCEPT !.status = "completed"]

\* An earlier attempt credited: reattach its receipt or mint it now.
Recover(w) ==
    /\ At(w, "recover")
    /\ IF receipt[Sess(w)] # NoCart
       THEN PersistKeeping(w, Completed(w))
       ELSE Goto(w, "mint") /\ UNCHANGED job
    /\ UNCHANGED <<row, idem, money, stripe, faults>>

\* _mint_order: INSERT OR REPLACE under the session's own order id.
Mint(w) ==
    /\ At(w, "mint")
    /\ receipt' = [receipt EXCEPT ![Sess(w)] = job[w].seen.cart]
    /\ PersistKeeping(w, Completed(w))
    /\ UNCHANGED <<row, idem, fulfilled, balance, stripe, faults>>
-----------------------------------------------------------------------------
\* A store call raises, or the process dies: the claim stays.
Fail(w) ==
    /\ ~At(w, "idle")
    /\ faults < MaxFaults
    /\ faults' = faults + 1
    /\ End(w)
    /\ UNCHANGED <<row, idem, money, stripe>>

Step(w) ==
    \/ Load(w) \/ Unpaid(w) \/ Mark(w) \/ Save(w) \/ Freeze(w) \/ Charge(w)
    \/ Clear(w) \/ Fulfill(w) \/ Recover(w) \/ Mint(w) \/ Answer(w)

Next ==
    \/ \E w \in Servers : Step(w) \/ Fail(w)
    \/ \E w \in Servers, c \in Calls : Claim(w, c)
    \/ \E k \in Scopes \X Keys : Lapse(k)

\* Handlers run on, an agent repeats the completion of a session it has
\* paid for, and a minute passes.
Fairness ==
    /\ \A w \in Servers : WF_vars(Step(w))
    /\ \A c \in {x \in Calls : x.op = "complete"} :
           SF_vars(\E w \in Servers : Claim(w, c))
    /\ \A k \in Scopes \X Keys : WF_vars(Lapse(k))

Spec == Init /\ [][Next]_vars
FairSpec == Spec /\ Fairness
-----------------------------------------------------------------------------
(* Properties.                                                             *)

Paid(s) == captured[s] # NoCart
Credited == {s \in Sessions : fulfilled[s] # NoCart}

\* However often a completion crashes and is repeated, every session adds its
\* runs to the balance once, and only when its money was captured.
CreditedOnce ==
    /\ balance = MapThenSumSet(LAMBDA s : Runs[fulfilled[s]], Credited)
    /\ \A s \in Credited : Paid(s)

\* A session that anybody was told, or could read, to be completed has its
\* money, its credit and its receipt.
CompletedIsWhole ==
    \A s \in Sessions :
        \/ row[s].status = "completed"
        \/ \E k \in Scopes \X Keys :
               /\ idem[k].state = "done"
               /\ idem[k].answer.status = "completed"
               /\ idem[k].answer.session = s
        => Paid(s) /\ s \in Credited /\ receipt[s] # NoCart

\* The receipt attests the cart whose runs were credited; and that is the cart
\* whose amount was captured, unless the payment client reported a captured
\* charge as failed.
ReceiptAttests ==
    \A s \in Sessions :
        /\ receipt[s] # NoCart => receipt[s] = fulfilled[s]
        /\ s \in Credited /\ ~misled[s] => fulfilled[s] = captured[s]

\* A session whose money was captured is completed or frozen with the cart
\* that was paid, under the same exception.
PaidStaysPayable ==
    \A s \in Sessions : Paid(s) /\ ~misled[s] =>
        /\ row[s].cart = captured[s]
        /\ \/ row[s].status = "completed"
           \/ row[s].status = "ready" /\ row[s].frozen

\* Session, payment, credit and receipt agree, wherever a completion died and
\* whatever was asked for in between (complete_session, _require_not_charged).
OrderTruth == CompletedIsWhole /\ ReceiptAttests /\ PaidStaysPayable

\* An order that was written down stands: the receipt stays as it was minted,
\* and a completed session is never opened again, whatever later completions,
\* updates, cancellations and misreported charges do.
KeepsOrders ==
    \A s \in Sessions :
        /\ receipt[s] # NoCart => receipt'[s] = receipt[s]
        /\ row[s].status = "completed" =>
               row'[s].status = "completed" /\ row'[s].cart = row[s].cart
OrdersStand == [][KeepsOrders]_vars

\* Captured money ends in a completed session, unless it is reported failed.
PaidGetsCompleted ==
    \A s \in Sessions :
        Paid(s) ~> row[s].status = "completed" \/ misled[s]
=============================================================================
