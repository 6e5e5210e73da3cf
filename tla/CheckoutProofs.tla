--------------------------- MODULE CheckoutProofs ---------------------------
(***************************************************************************)
(* Proofs about AcpCheckout.                                               *)
(*                                                                         *)
(* What holds whatever the number of API processes: the types, that a      *)
(* session is credited once and only when it was paid, and that a session  *)
(* anybody saw completed has its money, its credit and its receipt.  What  *)
(* needs the deployment's single process: the receipt attests what was     *)
(* paid and credited, a paid session stays payable, an order stands.       *)
(*                                                                         *)
(* The balance is a sum over the credited sessions, a fold that counts     *)
(* them in an order nobody fixed; the first part shows that the order does *)
(* not matter, so that a credit adds its runs and nothing else.            *)
(***************************************************************************)
EXTENDS AcpCheckout, FiniteSetTheorems, WellFoundedInduction, TLAPS

(***************************************************************************)
(* Sums of runs.                                                           *)
(***************************************************************************)
\* The runs of the sessions S, f giving the cart of each.
Total(f, S) == MapThenSumSet(LAMBDA s : Runs[f[s]], S)

\* The element a fold takes out of a set first.
First(T) == CHOOSE x \in T : TRUE

\* h gives the sum of every subset of S.
Sums(f, S, h) ==
    h = [T \in SUBSET S |->
            IF T = {} THEN 0 ELSE Runs[f[First(T)]] + h[T \ {First(T)}]]

\* A family of subsets of a finite set has a member with no smaller one in
\* the family: the induction that all the sums below use.
LEMMA Smallest ==
    ASSUME NEW S, IsFiniteSet(S), NEW bad \in SUBSET SUBSET S, bad # {}
    PROVE  \E T \in bad : IsFiniteSet(T) /\ \A X \in SUBSET T : X # T => X \notin bad
  <1>1. IsWellFoundedOn(StrictSubsetOrdering(S), FiniteSubsetsOf(S))
    BY FS_StrictSubsetOrderingWellFounded
  <1>2. \A T \in SUBSET S : IsFiniteSet(T)
    BY FS_Subset
  <1>3. bad \subseteq FiniteSubsetsOf(S)
    BY <1>2 DEF FiniteSubsetsOf
  <1>4. \E T \in bad : \A y \in bad : ~(<<y, T>> \in StrictSubsetOrdering(S))
    BY <1>1, <1>3, WFMin
  <1>5. PICK T \in bad : \A y \in bad : ~(<<y, T>> \in StrictSubsetOrdering(S))
    BY <1>4
  <1>6. ASSUME NEW X \in SUBSET T, X # T, X \in bad PROVE FALSE
    <2>1. <<X, T>> \in StrictSubsetOrdering(S)
      BY <1>6, <1>5 DEF StrictSubsetOrdering
    <2> QED
      BY <2>1, <1>5, <1>6
  <1> QED
    BY <1>2, <1>5, <1>6

\* A fold is the value of some function of sums.
LEMMA TotalIs ==
    ASSUME NEW f, NEW S
    PROVE  Total(f, S) = (CHOOSE h : Sums(f, S, h))[S]
  BY DEF Total, MapThenSumSet, MapThenFoldSet, Sums, First

\* A set gives one of its elements.
LEMMA FirstIn ==
    ASSUME NEW T, T # {}
    PROVE  First(T) \in T
  BY DEF First

\* Two functions of sums agree wherever both are defined.
LEMMA SumsAgree ==
    ASSUME NEW f, NEW S, IsFiniteSet(S), NEW h, NEW k, NEW R,
           Sums(f, S, h), Sums(f, R, k), NEW T \in SUBSET S, T \subseteq R
    PROVE  h[T] = k[T]
  <1> DEFINE bad == {X \in SUBSET S : X \subseteq R /\ h[X] # k[X]}
  <1>1. SUFFICES ASSUME bad # {} PROVE FALSE
    OBVIOUS
  <1>2. PICK X \in bad : \A Y \in SUBSET X : Y # X => Y \notin bad
    BY <1>1, Smallest
  <1>3. /\ h[X] = IF X = {} THEN 0 ELSE Runs[f[First(X)]] + h[X \ {First(X)}]
        /\ k[X] = IF X = {} THEN 0 ELSE Runs[f[First(X)]] + k[X \ {First(X)}]
    BY DEF Sums
  <1>4. CASE X = {}
    BY <1>3, <1>4
  <1>5. CASE X # {}
    <2>1. First(X) \in X
      BY <1>5, FirstIn
    <2>2. X \ {First(X)} \notin bad
      BY <1>2, <2>1
    <2>3. h[X \ {First(X)}] = k[X \ {First(X)}]
      BY <2>2
    <2> QED
      BY <1>3, <1>5, <2>3
  <1> QED
    BY <1>4, <1>5

\* The sums of a set include those of its subsets.
LEMMA SumsRestrict ==
    ASSUME NEW f, NEW S, NEW h, Sums(f, S, h), NEW R \in SUBSET S
    PROVE  Sums(f, R, [T \in SUBSET R |-> h[T]])
  <1> DEFINE k == [T \in SUBSET R |-> h[T]]
  <1>1. ASSUME NEW T \in SUBSET R
        PROVE  k[T] = IF T = {} THEN 0
                      ELSE Runs[f[First(T)]] + k[T \ {First(T)}]
    <2>1. T \in SUBSET S
      OBVIOUS
    <2>2. h[T] = IF T = {} THEN 0 ELSE Runs[f[First(T)]] + h[T \ {First(T)}]
      BY <2>1 DEF Sums
    <2> QED
      BY <2>2
  <1> QED
    BY <1>1 DEF Sums

\* Where sums exist, the fold is one of them.
LEMMA TotalBySums ==
    ASSUME NEW f, NEW S, IsFiniteSet(S), NEW h, Sums(f, S, h), NEW T \in SUBSET S
    PROVE  Total(f, T) = h[T]
  <1> DEFINE k == CHOOSE g : Sums(f, T, g)
  <1>1. Sums(f, T, [X \in SUBSET T |-> h[X]])
    BY SumsRestrict
  <1>2. Sums(f, T, k)
    BY <1>1
  <1>3. Total(f, T) = k[T]
    BY TotalIs
  <1> HIDE DEF k
  <1>4. h[T] = k[T]
    BY <1>2, SumsAgree
  <1> QED
    BY <1>3, <1>4

\* One step of the fold, where the sums of the smaller set are known.
LEMMA SumsGrow ==
    ASSUME NEW f, NEW S, IsFiniteSet(S),
           \A x \in S : \E h : Sums(f, S \ {x}, h)
    PROVE  \E h : Sums(f, S, h)
  <1> DEFINE V(T) == IF T = {} THEN 0
                     ELSE Runs[f[First(T)]] + Total(f, T \ {First(T)})
             k == [T \in SUBSET S |-> V(T)]
  <1>1. ASSUME NEW T \in SUBSET S, T # {}
        PROVE  k[T \ {First(T)}] = Total(f, T \ {First(T)})
    <2> DEFINE x == First(T)
               Y == T \ {x}
    <2>1. x \in T /\ x \in S
      BY <1>1, FirstIn
    <2>2. PICK h : Sums(f, S \ {x}, h)
      BY <2>1
    <2>3. IsFiniteSet(S \ {x}) /\ Y \in SUBSET (S \ {x})
      BY <2>1, FS_Subset
    <2>4. Total(f, Y) = h[Y]
      <3> HIDE DEF Y, x
      <3> QED
        BY <2>2, <2>3, TotalBySums
    <2>5. h[Y] = IF Y = {} THEN 0 ELSE Runs[f[First(Y)]] + h[Y \ {First(Y)}]
      <3> HIDE DEF Y, x
      <3> QED
        BY <2>2, <2>3 DEF Sums
    <2>6. CASE Y = {}
      BY <2>4, <2>5, <2>6, <2>3
    <2>7. CASE Y # {}
      <3>1. Y \ {First(Y)} \in SUBSET (S \ {x})
        BY <2>3
      <3>2. Total(f, Y \ {First(Y)}) = h[Y \ {First(Y)}]
        <4> HIDE DEF Y, x
        <4> QED
          BY <2>2, <2>3, <3>1, TotalBySums
      <3>3. k[Y] = Runs[f[First(Y)]] + Total(f, Y \ {First(Y)})
        <4>1. Y \in SUBSET S
          OBVIOUS
        <4> HIDE DEF Y, x
        <4> QED
          BY <4>1, <2>7
      <3> QED
        BY <3>2, <3>3, <2>4, <2>5, <2>7
    <2> QED
      BY <2>6, <2>7
  <1>2. ASSUME NEW T \in SUBSET S
        PROVE  k[T] = IF T = {} THEN 0
                      ELSE Runs[f[First(T)]] + k[T \ {First(T)}]
    BY <1>1
  <1>3. Sums(f, S, k)
    BY <1>2 DEF Sums
  <1> QED
    BY <1>3

\* Every finite set has its sums.
LEMMA SumsExist ==
    ASSUME NEW f, NEW S, IsFiniteSet(S)
    PROVE  \E h : Sums(f, S, h)
  <1> DEFINE bad == {T \in SUBSET S : ~\E h : Sums(f, T, h)}
  <1>1. SUFFICES ASSUME bad # {} PROVE FALSE
    OBVIOUS
  <1>2. PICK T \in bad : IsFiniteSet(T) /\ \A X \in SUBSET T : X # T => X \notin bad
    <2>1. bad \in SUBSET SUBSET S
      OBVIOUS
    <2> HIDE DEF bad
    <2> QED
      BY <1>1, <2>1, Smallest
  <1>3. \A x \in T : \E h : Sums(f, T \ {x}, h)
    BY <1>2
  <1>4. \E h : Sums(f, T, h)
    BY <1>2, <1>3, SumsGrow
  <1> QED
    BY <1>4

\* The fold takes the elements out one by one.
LEMMA TotalUnfolds ==
    ASSUME NEW f, NEW S, IsFiniteSet(S)
    PROVE  Total(f, S) = IF S = {} THEN 0
                         ELSE Runs[f[First(S)]] + Total(f, S \ {First(S)})
  <1>1. PICK h : Sums(f, S, h)
    BY SumsExist
  <1>2. h[S] = IF S = {} THEN 0 ELSE Runs[f[First(S)]] + h[S \ {First(S)}]
    BY <1>1 DEF Sums
  <1>3. Total(f, S) = h[S]
    BY <1>1, TotalBySums
  <1>4. Total(f, S \ {First(S)}) = h[S \ {First(S)}]
    BY <1>1, TotalBySums
  <1> QED
    BY <1>2, <1>3, <1>4

\* A sum of runs is a number, and any of its sessions may be counted last.
LEMMA TotalAny ==
    ASSUME NEW f, NEW S, IsFiniteSet(S), \A s \in S : f[s] \in Carts
    PROVE  /\ Total(f, S) \in Nat
           /\ \A s \in S : Total(f, S) = Runs[f[s]] + Total(f, S \ {s})
  <1> DEFINE Good(T) == /\ Total(f, T) \in Nat
                        /\ \A s \in T :
                               Total(f, T) = Runs[f[s]] + Total(f, T \ {s})
             bad == {T \in SUBSET S : ~Good(T)}
  <1>1. SUFFICES ASSUME bad # {} PROVE FALSE
    OBVIOUS
  <1>2. PICK T \in bad : IsFiniteSet(T) /\ \A X \in SUBSET T : X # T => X \notin bad
    <2>1. bad \in SUBSET SUBSET S
      OBVIOUS
    <2> HIDE DEF bad
    <2> QED
      BY <1>1, <2>1, Smallest
  <1>3. \A x \in T : Good(T \ {x})
    BY <1>2
  <1>4. \A x \in S : Runs[f[x]] \in Nat
    BY CheckoutAssumption
  <1>5. CASE T = {}
    <2>1. Total(f, T) = 0
      BY <1>2, <1>5, TotalUnfolds
    <2> QED
      BY <2>1, <1>2, <1>5
  <1>6. CASE T # {}
    <2>1. PICK x \in T : x = First(T)
      BY <1>6, FirstIn
    <2>2. Total(f, T) = Runs[f[x]] + Total(f, T \ {x})
      BY <1>2, <1>6, <2>1, TotalUnfolds
    <2>3. Total(f, T \ {x}) \in Nat
      BY <1>3
    <2>4. Total(f, T) \in Nat
      BY <2>2, <2>3, <1>4
    <2>5. ASSUME NEW s \in T, s # x
          PROVE  Total(f, T) = Runs[f[s]] + Total(f, T \ {s})
      <3>1. Total(f, T \ {x}) = Runs[f[s]] + Total(f, (T \ {x}) \ {s})
        BY <1>3, <2>5
      <3>2. Total(f, T \ {s}) = Runs[f[x]] + Total(f, (T \ {s}) \ {x})
        BY <1>3, <2>5
      <3>3. (T \ {x}) \ {s} = (T \ {s}) \ {x}
        OBVIOUS
      <3>4. Total(f, (T \ {s}) \ {x}) \in Nat
        <4>1. (T \ {s}) \ {x} \in SUBSET T /\ (T \ {s}) \ {x} # T
          OBVIOUS
        <4> HIDE DEF bad
        <4>2. (T \ {s}) \ {x} \notin bad
          BY <4>1, <1>2
        <4>3. (T \ {s}) \ {x} \in SUBSET S
          BY <1>2 DEF bad
        <4> QED
          BY <4>2, <4>3 DEF bad
      <3>5. Runs[f[s]] \in Nat /\ Runs[f[x]] \in Nat
        BY <1>4
      <3> QED
        BY <2>2, <3>1, <3>2, <3>3, <3>4, <3>5
    <2>6. Good(T)
      BY <2>2, <2>4, <2>5
    <2> QED
      BY <2>6
  <1> QED
    BY <1>5, <1>6

\* A sum depends on the carts of the sessions it counts only.
LEMMA TotalAgrees ==
    ASSUME NEW f, NEW g, NEW S, IsFiniteSet(S), \A s \in S : f[s] = g[s]
    PROVE  Total(f, S) = Total(g, S)
  <1> DEFINE bad == {T \in SUBSET S : Total(f, T) # Total(g, T)}
  <1>1. SUFFICES ASSUME bad # {} PROVE FALSE
    OBVIOUS
  <1>2. PICK T \in bad : IsFiniteSet(T) /\ \A X \in SUBSET T : X # T => X \notin bad
    <2>1. bad \in SUBSET SUBSET S
      OBVIOUS
    <2> HIDE DEF bad
    <2> QED
      BY <1>1, <2>1, Smallest
  <1>3. /\ Total(f, T) = IF T = {} THEN 0
                         ELSE Runs[f[First(T)]] + Total(f, T \ {First(T)})
        /\ Total(g, T) = IF T = {} THEN 0
                         ELSE Runs[g[First(T)]] + Total(g, T \ {First(T)})
    BY <1>2, TotalUnfolds
  <1>4. CASE T = {}
    BY <1>2, <1>3, <1>4
  <1>5. CASE T # {}
    <2>1. PICK x \in T : x = First(T)
      BY <1>5, FirstIn
    <2>2. T \ {x} \notin bad
      BY <1>2
    <2>3. Total(f, T \ {x}) = Total(g, T \ {x})
      BY <2>2
    <2>4. Total(f, T) = Total(g, T)
      BY <1>3, <1>5, <2>1, <2>3
    <2> QED
      BY <2>4
  <1> QED
    BY <1>4, <1>5

\* One more session adds its runs.
LEMMA TotalGrows ==
    ASSUME NEW f, NEW g, NEW S, IsFiniteSet(S), NEW s, s \notin S,
           \A x \in S : f[x] = g[x] /\ f[x] \in Carts, g[s] \in Carts
    PROVE  Total(g, S \cup {s}) = Total(f, S) + Runs[g[s]]
  <1>1. IsFiniteSet(S \cup {s}) /\ (S \cup {s}) \ {s} = S
    BY FS_AddElement
  <1>2. \A x \in S \cup {s} : g[x] \in Carts
    OBVIOUS
  <1>3. Total(g, S \cup {s}) = Runs[g[s]] + Total(g, (S \cup {s}) \ {s})
    BY <1>1, <1>2, TotalAny
  <1>4. Total(g, S) = Total(f, S)
    BY TotalAgrees
  <1>5. Total(f, S) \in Nat
    BY TotalAny
  <1>6. Runs[g[s]] \in Nat
    BY CheckoutAssumption
  <1>7. Total(g, (S \cup {s}) \ {s}) = Total(f, S)
    BY <1>1, <1>4
  <1> QED
    BY <1>3, <1>5, <1>6, <1>7
-----------------------------------------------------------------------------
(***************************************************************************)
(* Whatever the number of processes.                                       *)
(***************************************************************************)
\* Money, credit and receipt of s are there.
Whole(cap, ful, rec, s) == cap[s] # NoCart /\ ful[s] # NoCart /\ rec[s] # NoCart

\* What a server at step st with the local variables j has seen happen.
Working(st, j, cap, ful, rec) ==
    LET s == j.call.session
    IN  /\ st # "idle" => j.call \in Calls
        /\ st = "load" => j.call.op # "create"
        /\ st = "unpaid" => j.call.op \in {"update", "cancel"}
        /\ st \in {"unpaid", "freeze", "charge", "clear", "fulfill", "recover",
                   "mint"} => j.seen # NoRow /\ j.seen.status # "completed"
        /\ st \in {"mark", "save", "answer"} => j.new # NoRow
        /\ st \in {"fulfill", "recover", "mint"} => cap[s] # NoCart
        /\ st \in {"recover", "mint"} => ful[s] # NoCart
        /\ st \in {"mark", "save", "answer"} /\ j.new.status = "completed" =>
               Whole(cap, ful, rec, s)

\* Completed rows, and answers that say so, are whole.
Readable(r, cap, ful, rec) ==
    \A s \in Sessions : r[s].status = "completed" => Whole(cap, ful, rec, s)
Told(id, cap, ful, rec) ==
    \A k \in Scopes \X Keys :
        id[k].state = "done" =>
            /\ id[k].answer \in Answers
            /\ id[k].answer.status = "completed" =>
                   Whole(cap, ful, rec, id[k].answer.session)

\* The credit on the account.
CreditSound(cap, ful, bal) ==
    LET C == {s \in Sessions : ful[s] # NoCart}
    IN  /\ IsFiniteSet(C)
        /\ bal = Total(ful, C)
        /\ \A s \in C : cap[s] # NoCart

CheckoutInv ==
    /\ TypeOK
    /\ CreditSound(captured, fulfilled, balance)
    /\ \A w \in Servers : Working(pc[w], job[w], captured, fulfilled, receipt)
    /\ Readable(row, captured, fulfilled, receipt)
    /\ Told(idem, captured, fulfilled, receipt)

\* Money, credit and receipt never disappear.
Grown(cap, ful, rec, cap2, ful2, rec2) ==
    \A s \in Sessions : /\ cap[s] # NoCart => cap2[s] # NoCart
                        /\ ful[s] # NoCart => ful2[s] # NoCart
                        /\ rec[s] # NoCart => rec2[s] # NoCart

\* What was whole stays whole.
LEMMA WholeStays ==
    ASSUME NEW cap, NEW ful, NEW rec, NEW cap2, NEW ful2, NEW rec2,
           Grown(cap, ful, rec, cap2, ful2, rec2),
           NEW s \in Sessions, Whole(cap, ful, rec, s)
    PROVE  Whole(cap2, ful2, rec2, s)
  BY DEF Grown, Whole

\* A call names a session, and a create says what it is for.
LEMMA CallFields ==
    ASSUME NEW c \in Calls
    PROVE  /\ c.op \in Ops /\ c.session \in Sessions /\ c.key \in Keys
           /\ c.body \in Carts \cup {NoCart} /\ Scope(c) \in Scopes
           /\ <<Scope(c), c.key>> \in Scopes \X Keys
           /\ c.op = "create" => c.body \in Carts
  <1>1. /\ c.op \in Ops /\ c.session \in Sessions /\ c.key \in Keys
        /\ c.body \in Carts \cup {NoCart}
        /\ c.op = "create" => c.body # NoCart
    BY CheckoutAssumption
  <1>2. Scope(c) \in Scopes
    BY <1>1 DEF Scope, Scopes, Ops
  <1> QED
    BY <1>1, <1>2

\* What a server knows keeps being so while others go on.
LEMMA WorkingStays ==
    ASSUME NEW cap, NEW ful, NEW rec, NEW cap2, NEW ful2, NEW rec2,
           Grown(cap, ful, rec, cap2, ful2, rec2),
           NEW st, NEW j, Working(st, j, cap, ful, rec)
    PROVE  Working(st, j, cap2, ful2, rec2)
  <1> DEFINE s == j.call.session
  <1>1. CASE st = "idle"
    BY <1>1, Zenon DEF Working
  <1>2. CASE st # "idle"
    <2>1. s \in Sessions
      BY <1>2, CallFields DEF Working
    <2>2. /\ cap[s] # NoCart => cap2[s] # NoCart
          /\ ful[s] # NoCart => ful2[s] # NoCart
      <3> HIDE DEF s
      <3> QED
        BY <2>1 DEF Grown
    <2>3. Whole(cap, ful, rec, s) => Whole(cap2, ful2, rec2, s)
      <3> HIDE DEF s
      <3> QED
        BY <2>1, WholeStays
    <2> QED
      BY <2>2, <2>3 DEF Working
  <1> QED
    BY <1>1, <1>2

\* A session row that exists has a status, a cart and a marker.
LEMMA RowFields ==
    ASSUME NEW r \in SessionRows
    PROVE  /\ r.status \in Statuses /\ r.frozen \in BOOLEAN
           /\ r # NoRow => r.cart \in Carts /\ r.status # "none"
           /\ r.status # "none" => r # NoRow
  <1>1. NoRow.status = "none" /\ NoRow.frozen = FALSE
    BY DEF NoRow
  <1>2. CASE r = NoRow
    BY <1>1, <1>2 DEF Statuses
  <1>3. CASE r # NoRow
    <2>1. r \in [status : Statuses \ {"none"}, cart : Carts, frozen : BOOLEAN]
      BY <1>3 DEF SessionRows
    <2> QED
      BY <2>1, <1>3
  <1> QED
    BY <1>2, <1>3

\* A row stays a row when its status or its marker changes.
LEMMA RowChanges ==
    ASSUME NEW r \in SessionRows, r # NoRow, NEW st \in Statuses \ {"none"},
           NEW b \in BOOLEAN
    PROVE  /\ [r EXCEPT !.status = st] \in SessionRows \ {NoRow}
           /\ [r EXCEPT !.frozen = b] \in SessionRows \ {NoRow}
           /\ [r EXCEPT !.status = st, !.frozen = b] \in SessionRows \ {NoRow}
           /\ [r EXCEPT !.status = st].status = st
           /\ [r EXCEPT !.frozen = b].status = r.status
           /\ [r EXCEPT !.status = st, !.frozen = b].status = st
  <1> DEFINE Full == [status : Statuses \ {"none"}, cart : Carts, frozen : BOOLEAN]
  <1>1. r \in Full
    BY DEF SessionRows
  <1>2. Full \subseteq SessionRows \ {NoRow}
    BY DEF SessionRows, NoRow
  <1>3. /\ [r EXCEPT !.status = st] \in Full
        /\ [r EXCEPT !.frozen = b] \in Full
        /\ [r EXCEPT !.status = st, !.frozen = b] \in Full
    BY <1>1
  <1>4. /\ [r EXCEPT !.status = st].status = st
        /\ [r EXCEPT !.frozen = b].status = r.status
        /\ [r EXCEPT !.status = st, !.frozen = b].status = st
    BY <1>1
  <1> HIDE DEF Full
  <1> QED
    BY <1>2, <1>3, <1>4

\* What a create or an update saves is a row, and not a completed one.
LEMMA FreshRow ==
    ASSUME NEW c \in Calls, c.body # NoCart
    PROVE  /\ Fresh(c) \in SessionRows \ {NoRow}
           /\ Fresh(c).status \in {"ready", "not_ready"}
           /\ ~Fresh(c).frozen
  BY CallFields DEF Fresh, SessionRows, NoRow, Statuses

\* The local variables of a server.
LEMMA JobFields ==
    ASSUME NEW j \in Jobs, NEW n \in SessionRows
    PROVE  /\ j.call \in Calls \cup {NoCall} /\ j.seen \in SessionRows
           /\ j.new \in SessionRows /\ j.declined \in BOOLEAN
           /\ [j EXCEPT !.new = n] \in Jobs
           /\ [j EXCEPT !.new = n].call = j.call
           /\ [j EXCEPT !.new = n].seen = j.seen
           /\ [j EXCEPT !.new = n].new = n
           /\ [j EXCEPT !.seen = n, !.new = n] \in Jobs
           /\ [j EXCEPT !.seen = n, !.new = n].call = j.call
           /\ [j EXCEPT !.seen = n, !.new = n].seen = n
           /\ [j EXCEPT !.seen = n, !.new = n].new = n
           /\ [j EXCEPT !.new = n, !.declined = TRUE] \in Jobs
           /\ [j EXCEPT !.new = n, !.declined = TRUE].call = j.call
           /\ [j EXCEPT !.new = n, !.declined = TRUE].new = n
  BY DEF Jobs

\* A server with nothing to do.
LEMMA IdleJob ==
    ASSUME NEW cap, NEW ful, NEW rec
    PROVE  NoJob \in Jobs /\ Working("idle", NoJob, cap, ful, rec)
  BY DEF NoJob, Jobs, NoRow, SessionRows, Working

\* One server moves: the others know what they knew.
LEMMA ServerMoves ==
    ASSUME CheckoutInv, NEW w \in Servers, NEW st \in Steps, NEW j \in Jobs,
           Goto(w, st), Keep(w, j),
           Grown(captured, fulfilled, receipt, captured', fulfilled', receipt'),
           Working(st, j, captured', fulfilled', receipt')
    PROVE  /\ pc' \in [Servers -> Steps] /\ job' \in [Servers -> Jobs]
           /\ \A v \in Servers :
                  Working(pc'[v], job'[v], captured', fulfilled', receipt')
  <1>1. pc' = [pc EXCEPT ![w] = st] /\ job' = [job EXCEPT ![w] = j]
    BY DEF Goto, Keep
  <1>2. pc \in [Servers -> Steps] /\ job \in [Servers -> Jobs]
    BY DEF CheckoutInv, TypeOK
  <1>3. pc' \in [Servers -> Steps] /\ job' \in [Servers -> Jobs]
    BY <1>1, <1>2
  <1>4. ASSUME NEW v \in Servers
        PROVE  Working(pc'[v], job'[v], captured', fulfilled', receipt')
    <2>1. CASE v = w
      BY <1>1, <1>2, <2>1
    <2>2. CASE v # w
      <3>1. pc'[v] = pc[v] /\ job'[v] = job[v]
        BY <1>1, <1>2, <2>2
      <3>2. Working(pc[v], job[v], captured, fulfilled, receipt)
        BY DEF CheckoutInv
      <3>3. Working(pc[v], job[v], captured', fulfilled', receipt')
        BY <3>2, WorkingStays
      <3> QED
        BY <3>1, <3>3
    <2> QED
      BY <2>1, <2>2
  <1> QED
    BY <1>3, <1>4

\* A server that leaves its variables alone keeps them.
LEMMA KeepsOwn ==
    ASSUME job \in [Servers -> Jobs], NEW w \in Servers, UNCHANGED job
    PROVE  Keep(w, job[w])
  BY DEF Keep

\* Steps that touch nothing but the server's own variables.
LEMMA QuietMoves ==
    ASSUME CheckoutInv, NEW w \in Servers, NEW st \in Steps, NEW j \in Jobs,
           Goto(w, st), Keep(w, j),
           UNCHANGED <<row, idem, money, stripe, faults>>,
           Working(st, j, captured, fulfilled, receipt)
    PROVE  CheckoutInv'
  <1>1. UNCHANGED <<row, idem, fulfilled, balance, receipt, captured, misled,
                    faults>>
    BY DEF money, stripe
  <1>2. Grown(captured, fulfilled, receipt, captured', fulfilled', receipt')
    BY <1>1 DEF Grown
  <1>3. Working(st, j, captured', fulfilled', receipt')
    BY <1>1
  <1>4. /\ pc' \in [Servers -> Steps] /\ job' \in [Servers -> Jobs]
        /\ \A v \in Servers :
               Working(pc'[v], job'[v], captured', fulfilled', receipt')
    BY <1>2, <1>3, ServerMoves
  <1>5. TypeOK'
    BY <1>1, <1>4 DEF CheckoutInv, TypeOK
  <1>6. /\ CreditSound(captured', fulfilled', balance')
        /\ Readable(row', captured', fulfilled', receipt')
        /\ Told(idem', captured', fulfilled', receipt')
    BY <1>1 DEF CheckoutInv
  <1> QED
    BY <1>4, <1>5, <1>6 DEF CheckoutInv

\* A step that leaves the money alone and writes the row of s.
LEMMA RowMoves ==
    ASSUME CheckoutInv, NEW w \in Servers, NEW st \in Steps, NEW j \in Jobs,
           Goto(w, st), Keep(w, j), NEW s \in Sessions, NEW r \in SessionRows,
           row' = [row EXCEPT ![s] = r],
           UNCHANGED <<idem, money, stripe, faults>>,
           Working(st, j, captured, fulfilled, receipt),
           r.status = "completed" => Whole(captured, fulfilled, receipt, s)
    PROVE  CheckoutInv'
  <1>1. UNCHANGED <<idem, fulfilled, balance, receipt, captured, misled,
                    faults>>
    BY DEF money, stripe
  <1>2. Grown(captured, fulfilled, receipt, captured', fulfilled', receipt')
    BY <1>1 DEF Grown
  <1>3. Working(st, j, captured', fulfilled', receipt')
    BY <1>1
  <1>4. /\ pc' \in [Servers -> Steps] /\ job' \in [Servers -> Jobs]
        /\ \A v \in Servers :
               Working(pc'[v], job'[v], captured', fulfilled', receipt')
    BY <1>2, <1>3, ServerMoves
  <1>5. row \in [Sessions -> SessionRows]
    BY DEF CheckoutInv, TypeOK
  <1>6. TypeOK'
    BY <1>1, <1>4, <1>5 DEF CheckoutInv, TypeOK
  <1>7. Readable(row', captured, fulfilled, receipt)
    BY <1>5 DEF CheckoutInv, Readable
  <1>8. /\ CreditSound(captured', fulfilled', balance')
        /\ Readable(row', captured', fulfilled', receipt')
        /\ Told(idem', captured', fulfilled', receipt')
    BY <1>1, <1>7 DEF CheckoutInv
  <1> QED
    BY <1>4, <1>6, <1>8 DEF CheckoutInv

\* The server, its step and its variables are what they should be.
LEMMA ServerFacts ==
    ASSUME CheckoutInv, NEW w \in Servers
    PROVE  /\ pc[w] \in Steps /\ job[w] \in Jobs
           /\ job[w].seen \in SessionRows /\ job[w].new \in SessionRows
           /\ Working(pc[w], job[w], captured, fulfilled, receipt)
           /\ pc[w] # "idle" => Call(w) \in Calls /\ Sess(w) \in Sessions
           /\ \A s \in Sessions : row[s] \in SessionRows
  <1>1. pc[w] \in Steps /\ job[w] \in Jobs
    BY DEF CheckoutInv, TypeOK
  <1>2. job[w].seen \in SessionRows /\ job[w].new \in SessionRows
    BY <1>1 DEF Jobs
  <1>3. Working(pc[w], job[w], captured, fulfilled, receipt)
    BY DEF CheckoutInv
  <1>4. pc[w] # "idle" => Call(w) \in Calls
    BY <1>3 DEF Working, Call
  <1>5. pc[w] # "idle" => Sess(w) \in Sessions
    BY <1>4, CallFields DEF Sess
  <1>6. \A s \in Sessions : row[s] \in SessionRows
    BY DEF CheckoutInv, TypeOK
  <1> QED
    BY <1>1, <1>2, <1>3, <1>4, <1>5, <1>6

\* _load.
LEMMA LoadSound ==
    ASSUME CheckoutInv, NEW w \in Servers, Load(w)
    PROVE  CheckoutInv'
  <1> DEFINE c == Call(w)
             r == row[c.session]
             j == [job[w] EXCEPT !.seen = r, !.new = r]
  <1>1. At(w, "load") /\ UNCHANGED <<row, idem, money, stripe, faults>>
    BY DEF Load
  <1>2. /\ c \in Calls /\ c.session \in Sessions /\ r \in SessionRows
        /\ job[w] \in Jobs /\ job[w].call = c
        /\ c.op # "create"
    BY <1>1, ServerFacts DEF At, Call, Sess, Working
  <1>3. j \in Jobs /\ j.call = c /\ j.seen = r /\ j.new = r
    <2> HIDE DEF r
    <2> QED
      BY ZenonT(40), <1>2, JobFields
  <1>4. r.status = "completed" =>
            Whole(captured, fulfilled, receipt, c.session)
    BY <1>2 DEF CheckoutInv, Readable
  <1>5. /\ r \in SessionRows
        /\ r.status # "none" => r # NoRow
    BY <1>2, RowFields
  <1>6. c.op \in Ops
    BY <1>2, CallFields
  <1>7. \/ Goto(w, "answer") /\ Keep(w, j) /\ r.status = "completed"
        \/ Goto(w, "freeze") /\ Keep(w, j) /\ r.status = "ready"
        \/ End(w)
        \/ /\ Goto(w, "unpaid") /\ Keep(w, j)
           /\ c.op # "complete" /\ r.status \notin {"none", "completed"}
    BY DEF Load, Refused
  <1> HIDE DEF c, r, j
  <1>8. CASE Goto(w, "answer") /\ Keep(w, j) /\ r.status = "completed"
    <2>1. Working("answer", j, captured, fulfilled, receipt)
      BY <1>2, <1>3, <1>4, <1>5, <1>8 DEF Working
    <2> QED
      BY <2>1, <1>1, <1>3, <1>8, QuietMoves DEF Steps
  <1>9. CASE Goto(w, "freeze") /\ Keep(w, j) /\ r.status = "ready"
    <2>1. Working("freeze", j, captured, fulfilled, receipt)
      BY <1>2, <1>3, <1>5, <1>9 DEF Working
    <2> QED
      BY <2>1, <1>1, <1>3, <1>9, QuietMoves DEF Steps
  <1>10. CASE End(w)
    BY <1>1, <1>10, IdleJob, QuietMoves DEF End, Steps
  <1>11. CASE /\ Goto(w, "unpaid") /\ Keep(w, j)
              /\ c.op # "complete" /\ r.status \notin {"none", "completed"}
    <2>1. Working("unpaid", j, captured, fulfilled, receipt)
      BY <1>2, <1>3, <1>5, <1>6, <1>11 DEF Working, Ops
    <2> QED
      BY <2>1, <1>1, <1>3, <1>11, QuietMoves DEF Steps
  <1> QED
    BY <1>7, <1>8, <1>9, <1>10, <1>11

\* idempotency_begin.
LEMMA ClaimSound ==
    ASSUME CheckoutInv, NEW w \in Servers, NEW c \in Calls, Claim(w, c)
    PROVE  CheckoutInv'
  <1> DEFINE k == <<Scope(c), c.key>>
             n == IF c.op = "create" THEN Fresh(c) ELSE NoRow
             st == IF c.op = "create" THEN "mark" ELSE "load"
             j == [NoJob EXCEPT !.call = c, !.new = n]
             p == [NoClaim EXCEPT !.state = "processing", !.body = c.body]
  <1>1. /\ idem' = [idem EXCEPT ![k] = p]
        /\ Goto(w, st) /\ Keep(w, j)
        /\ UNCHANGED <<row, fulfilled, balance, receipt, captured, misled, faults>>
    BY DEF Claim, money, stripe
  <1>2. /\ k \in Scopes \X Keys /\ c.session \in Sessions
        /\ c.body \in Carts \cup {NoCart} /\ c.op \in Ops
    BY CallFields
  <1>3. p \in Claims /\ p.state = "processing"
    BY <1>2 DEF Claims, NoClaim
  <1>4. /\ n \in SessionRows /\ n.status # "completed"
        /\ c.op = "create" => n # NoRow
    <2>1. CASE c.op = "create"
      <3>1. c.body # NoCart
        BY <2>1, CheckoutAssumption
      <3> QED
        BY <2>1, <3>1, FreshRow
    <2>2. CASE c.op # "create"
      BY <2>2 DEF NoRow, SessionRows
    <2> QED
      BY <2>1, <2>2
  <1>5. j \in Jobs /\ j.call = c /\ j.new = n
    <2>1. NoJob \in Jobs
      BY IdleJob
    <2> HIDE DEF n
    <2> QED
      BY <2>1, <1>4 DEF Jobs
  <1>6. st \in Steps /\ (st = "mark" <=> c.op = "create") /\ st \in {"mark", "load"}
    BY DEF Steps
  <1> HIDE DEF k, p, n, st, j
  <1>7. Working(st, j, captured, fulfilled, receipt)
    BY <1>2, <1>4, <1>5, <1>6 DEF Working
  <1>8. Grown(captured, fulfilled, receipt, captured', fulfilled', receipt')
    BY <1>1 DEF Grown
  <1>9. Working(st, j, captured', fulfilled', receipt')
    BY <1>1, <1>7
  <1>10. /\ pc' \in [Servers -> Steps] /\ job' \in [Servers -> Jobs]
         /\ \A v \in Servers :
                Working(pc'[v], job'[v], captured', fulfilled', receipt')
    BY <1>1, <1>5, <1>6, <1>8, <1>9, ServerMoves
  <1>11. idem \in [Scopes \X Keys -> Claims]
    BY DEF CheckoutInv, TypeOK
  <1>12. idem' \in [Scopes \X Keys -> Claims]
    BY <1>1, <1>3, <1>11
  <1>13. TypeOK'
    BY <1>1, <1>10, <1>12 DEF CheckoutInv, TypeOK
  <1>14. Told(idem', captured, fulfilled, receipt)
    BY <1>1, <1>3, <1>11 DEF CheckoutInv, Told
  <1>15. /\ CreditSound(captured', fulfilled', balance')
         /\ Readable(row', captured', fulfilled', receipt')
         /\ Told(idem', captured', fulfilled', receipt')
    BY <1>1, <1>14 DEF CheckoutInv
  <1> QED
    BY <1>10, <1>13, <1>15 DEF CheckoutInv

\* A claim grows old.
LEMMA LapseSound ==
    ASSUME CheckoutInv, NEW k \in Scopes \X Keys, Lapse(k)
    PROVE  CheckoutInv'
  <1>1. /\ idem' = [idem EXCEPT ![k].state = "stale"]
        /\ UNCHANGED <<row, fulfilled, balance, receipt, captured, misled,
                       faults, pc, job>>
    BY DEF Lapse, money, stripe
  <1>2. idem \in [Scopes \X Keys -> Claims]
    BY DEF CheckoutInv, TypeOK
  <1>3. idem[k] \in Claims
    BY <1>2
  <1>4. /\ [idem[k] EXCEPT !.state = "stale"] \in Claims
        /\ [idem[k] EXCEPT !.state = "stale"].state = "stale"
    BY <1>3 DEF Claims
  <1>5. idem' = [idem EXCEPT ![k] = [idem[k] EXCEPT !.state = "stale"]]
    BY <1>1
  <1> DEFINE p == [idem[k] EXCEPT !.state = "stale"]
  <1>6. p \in Claims /\ p.state = "stale" /\ idem' = [idem EXCEPT ![k] = p]
    BY <1>4, <1>5
  <1> HIDE DEF p
  <1>7. idem' \in [Scopes \X Keys -> Claims]
    BY <1>2, <1>6
  <1>8. TypeOK'
    BY <1>1, <1>7 DEF CheckoutInv, TypeOK
  <1>9. Told(idem', captured, fulfilled, receipt)
    BY <1>2, <1>6 DEF CheckoutInv, Told
  <1>10. /\ CreditSound(captured', fulfilled', balance')
         /\ Readable(row', captured', fulfilled', receipt')
         /\ Told(idem', captured', fulfilled', receipt')
         /\ \A w \in Servers : Working(pc'[w], job'[w], captured', fulfilled', receipt')
    BY <1>1, <1>9 DEF CheckoutInv
  <1> QED
    BY <1>8, <1>10 DEF CheckoutInv

\* idempotency_complete.
LEMMA AnswerSound ==
    ASSUME CheckoutInv, NEW w \in Servers, Answer(w)
    PROVE  CheckoutInv'
  <1> DEFINE k == <<Scope(Call(w)), Call(w).key>>
             a == [status |-> job[w].new.status, declined |-> job[w].declined,
                   session |-> Sess(w)]
             p == [idem[k] EXCEPT !.state = "done", !.answer = a]
  <1>1. /\ idem' = [idem EXCEPT ![k].state = "done", ![k].answer = a]
        /\ At(w, "answer") /\ End(w)
        /\ UNCHANGED <<row, fulfilled, balance, receipt, captured, misled, faults>>
    BY DEF Answer, money, stripe
  <1>2. /\ Call(w) \in Calls /\ Sess(w) \in Sessions
        /\ job[w] \in Jobs /\ job[w].new \in SessionRows
        /\ Working("answer", job[w], captured, fulfilled, receipt)
    BY <1>1, ServerFacts DEF At
  <1>3. k \in Scopes \X Keys
    BY <1>2, CallFields
  <1>4. a \in Answers
    BY <1>2, RowFields DEF Answers, Jobs
  <1>5. idem \in [Scopes \X Keys -> Claims] /\ idem[k] \in Claims
    BY <1>3 DEF CheckoutInv, TypeOK
  <1>6. a.status = "completed" => Whole(captured, fulfilled, receipt, a.session)
    BY <1>2 DEF Working, Sess, Call
  <1>7. idem' = [idem EXCEPT ![k] = p]
    <2> HIDE DEF k, a
    <2> QED
      BY <1>1, <1>3, <1>5
  <1>8. p \in Claims /\ p.answer = a
    <2> HIDE DEF k, a
    <2> QED
      BY <1>4, <1>5 DEF Claims
  <1> HIDE DEF k, a, p
  <1>9. idem' \in [Scopes \X Keys -> Claims]
    BY <1>5, <1>7, <1>8
  <1>10. Told(idem', captured, fulfilled, receipt)
    <2>1. ASSUME NEW x \in Scopes \X Keys, idem'[x].state = "done"
          PROVE  /\ idem'[x].answer \in Answers
                 /\ idem'[x].answer.status = "completed" =>
                        Whole(captured, fulfilled, receipt, idem'[x].answer.session)
      <3>1. CASE x = k
        <4>1. idem'[x] = p
          BY <1>5, <1>7, <3>1
        <4> QED
          BY <2>1, <4>1, <1>4, <1>6, <1>8
      <3>2. CASE x # k
        <4>1. idem'[x] = idem[x]
          BY <1>5, <1>7, <3>2
        <4> QED
          BY <2>1, <4>1 DEF CheckoutInv, Told
      <3> QED
        BY <3>1, <3>2
    <2> QED
      BY <2>1 DEF Told
  <1>11. Grown(captured, fulfilled, receipt, captured', fulfilled', receipt')
    BY <1>1 DEF Grown
  <1>12. /\ pc' \in [Servers -> Steps] /\ job' \in [Servers -> Jobs]
         /\ \A v \in Servers :
                Working(pc'[v], job'[v], captured', fulfilled', receipt')
    <2>1. /\ "idle" \in Steps /\ NoJob \in Jobs
          /\ Working("idle", NoJob, captured', fulfilled', receipt')
      BY IdleJob DEF Steps
    <2> QED
      BY <1>1, <1>11, <2>1, ServerMoves DEF End
  <1>13. TypeOK'
    BY <1>1, <1>9, <1>12 DEF CheckoutInv, TypeOK
  <1>14. /\ CreditSound(captured', fulfilled', balance')
         /\ Readable(row', captured', fulfilled', receipt')
         /\ Told(idem', captured', fulfilled', receipt')
    BY <1>1, <1>10 DEF CheckoutInv
  <1> QED
    BY <1>12, <1>13, <1>14 DEF CheckoutInv

\* A server about to save keeps a row that is no order yet.
LEMMA PersistSound ==
    ASSUME CheckoutInv, NEW w \in Servers, pc[w] # "idle",
           NEW n \in SessionRows, n # NoRow, PersistKeeping(w, n),
           UNCHANGED <<row, idem, money, stripe, faults>>,
           n.status = "completed" =>
               Whole(captured, fulfilled, receipt, Sess(w))
    PROVE  CheckoutInv'
  <1> DEFINE j == [job[w] EXCEPT !.new = n]
  <1>1. Goto(w, "mark") /\ Keep(w, j)
    BY DEF PersistKeeping
  <1>2. /\ job[w] \in Jobs /\ Call(w) \in Calls
    BY ServerFacts
  <1>3. j \in Jobs /\ j.call = job[w].call /\ j.new = n
    BY <1>2, JobFields
  <1> HIDE DEF j
  <1>4. Working("mark", j, captured, fulfilled, receipt)
    BY <1>2, <1>3 DEF Working, Call, Sess
  <1> QED
    BY <1>1, <1>3, <1>4, QuietMoves DEF Steps

\* _require_not_charged and the change.
LEMMA UnpaidSound ==
    ASSUME CheckoutInv, NEW w \in Servers, Unpaid(w)
    PROVE  CheckoutInv'
  <1> DEFINE c == Call(w)
             old == job[w].seen
             n == CASE c.op = "cancel" -> [old EXCEPT !.status = "canceled"]
                    [] c.op = "update" /\ c.body = NoCart -> old
                    [] c.op = "update" /\ c.body # NoCart -> Fresh(c)
  <1>1. /\ At(w, "unpaid") /\ UNCHANGED <<row, idem, money, stripe, faults>>
        /\ End(w) \/ PersistKeeping(w, n)
    BY DEF Unpaid
  <1>2. /\ c \in Calls /\ c.op \in {"update", "cancel"}
        /\ old \in SessionRows /\ old # NoRow /\ old.status # "completed"
    BY <1>1, ServerFacts DEF At, Call, Working
  <1>3. n \in SessionRows /\ n # NoRow /\ n.status # "completed"
    <2>1. CASE c.op = "cancel"
      <3>1. n = [old EXCEPT !.status = "canceled"]
        BY <2>1
      <3>2. "canceled" \in Statuses \ {"none"}
        BY DEF Statuses
      <3> HIDE DEF n, old
      <3> QED
        BY ZenonT(40), <1>2, <3>1, <3>2, RowChanges
    <2>2. CASE c.op = "update" /\ c.body = NoCart
      <3>1. n = old
        BY <2>2
      <3> QED
        BY <3>1, <1>2
    <2>3. CASE c.op = "update" /\ c.body # NoCart
      <3>1. n = Fresh(c)
        BY <2>3
      <3> HIDE DEF n, c
      <3> QED
        BY <1>2, <2>3, <3>1, FreshRow
    <2> QED
      BY <1>2, <2>1, <2>2, <2>3
  <1> HIDE DEF n, c, old
  <1>4. CASE End(w)
    BY <1>1, <1>4, IdleJob, QuietMoves DEF End, Steps
  <1>5. CASE PersistKeeping(w, n)
    BY <1>1, <1>3, <1>5, PersistSound DEF At
  <1> QED
    BY <1>1, <1>4, <1>5

\* _persist, the marker.
LEMMA MarkSound ==
    ASSUME CheckoutInv, NEW w \in Servers, Mark(w)
    PROVE  CheckoutInv'
  <1> DEFINE f == row[Sess(w)].frozen
             n == [job[w].new EXCEPT !.frozen = f]
             j == [job[w] EXCEPT !.new = n]
  <1>1. /\ At(w, "mark") /\ Goto(w, "save")
        /\ Keep(w, [job[w] EXCEPT !.new.frozen = f])
        /\ UNCHANGED <<row, idem, money, stripe, faults>>
    BY DEF Mark
  <1>2. /\ Call(w) \in Calls /\ Sess(w) \in Sessions /\ job[w] \in Jobs
        /\ job[w].new \in SessionRows /\ job[w].new # NoRow
        /\ row[Sess(w)] \in SessionRows
        /\ job[w].new.status = "completed" =>
               Whole(captured, fulfilled, receipt, Sess(w))
    BY <1>1, ServerFacts DEF At, Working, Call, Sess
  <1>3. f \in BOOLEAN
    BY <1>2, RowFields
  <1>4. "ready" \in Statuses \ {"none"}
    BY DEF Statuses
  <1>5. /\ n \in SessionRows /\ n # NoRow /\ n.status = job[w].new.status
    <2> HIDE DEF f
    <2> QED
      BY <1>2, <1>3, <1>4, RowChanges
  <1>6. Keep(w, j)
    BY <1>1
  <1> HIDE DEF f, n
  <1>7. j \in Jobs /\ j.call = job[w].call /\ j.new = n
    BY <1>2, <1>5, JobFields
  <1> HIDE DEF j
  <1>8. Working("save", j, captured, fulfilled, receipt)
    BY <1>2, <1>5, <1>7 DEF Working, Call, Sess
  <1> QED
    BY <1>1, <1>6, <1>7, <1>8, QuietMoves DEF Steps

\* _persist, the contents.
LEMMA SaveSound ==
    ASSUME CheckoutInv, NEW w \in Servers, Save(w)
    PROVE  CheckoutInv'
  <1>1. /\ At(w, "save") /\ Goto(w, "answer") /\ UNCHANGED job
        /\ row' = [row EXCEPT ![Sess(w)] = job[w].new]
        /\ UNCHANGED <<idem, money, stripe, faults>>
    BY DEF Save
  <1>2. /\ Call(w) \in Calls /\ Sess(w) \in Sessions /\ job[w] \in Jobs
        /\ job[w].new \in SessionRows /\ job[w].new # NoRow
        /\ job[w].new.status = "completed" =>
               Whole(captured, fulfilled, receipt, Sess(w))
    BY <1>1, ServerFacts DEF At, Working, Call, Sess
  <1>3. Keep(w, job[w])
    BY <1>1, KeepsOwn DEF CheckoutInv, TypeOK
  <1>4. Working("answer", job[w], captured, fulfilled, receipt)
    BY <1>2 DEF Working, Call, Sess
  <1>5. "answer" \in Steps
    BY DEF Steps
  <1> QED
    BY <1>1, <1>2, <1>3, <1>4, <1>5, RowMoves

\* The marker of a completion.
LEMMA FreezeSound ==
    ASSUME CheckoutInv, NEW w \in Servers, Freeze(w)
    PROVE  CheckoutInv'
  <1> DEFINE r == [job[w].seen EXCEPT !.frozen = TRUE]
  <1>1. /\ At(w, "freeze") /\ Goto(w, "charge") /\ UNCHANGED job
        /\ row' = [row EXCEPT ![Sess(w)] = r]
        /\ UNCHANGED <<idem, money, stripe, faults>>
    BY DEF Freeze
  <1>2. /\ Call(w) \in Calls /\ Sess(w) \in Sessions /\ job[w] \in Jobs
        /\ job[w].seen \in SessionRows /\ job[w].seen # NoRow
        /\ job[w].seen.status # "completed"
    BY <1>1, ServerFacts DEF At, Working
  <1>3. "ready" \in Statuses \ {"none"}
    BY DEF Statuses
  <1>4. r \in SessionRows /\ r.status = job[w].seen.status
    BY <1>2, <1>3, RowChanges
  <1>5. Keep(w, job[w])
    BY <1>1, KeepsOwn DEF CheckoutInv, TypeOK
  <1>6. Working("charge", job[w], captured, fulfilled, receipt)
    BY <1>2 DEF Working, Call
  <1>7. "charge" \in Steps
    BY DEF Steps
  <1> HIDE DEF r
  <1> QED
    BY <1>1, <1>2, <1>4, <1>5, <1>6, <1>7, RowMoves

\* The 402 branch.
LEMMA ClearSound ==
    ASSUME CheckoutInv, NEW w \in Servers, Clear(w)
    PROVE  CheckoutInv'
  <1> DEFINE n == [job[w].seen EXCEPT !.status = "ready", !.frozen = FALSE]
             j == [job[w] EXCEPT !.new = n, !.declined = TRUE]
  <1>1. /\ At(w, "clear") /\ Goto(w, "answer") /\ Keep(w, j)
        /\ row' = [row EXCEPT ![Sess(w)] = n]
        /\ UNCHANGED <<idem, money, stripe, faults>>
    BY DEF Clear
  <1>2. /\ Call(w) \in Calls /\ Sess(w) \in Sessions /\ job[w] \in Jobs
        /\ job[w].seen \in SessionRows /\ job[w].seen # NoRow
    BY <1>1, ServerFacts DEF At, Working
  <1>3. "ready" \in Statuses \ {"none"}
    BY DEF Statuses
  <1>4. n \in SessionRows /\ n # NoRow /\ n.status = "ready"
    BY ZenonT(40), <1>2, <1>3, RowChanges
  <1> HIDE DEF n
  <1>5. j \in Jobs /\ j.call = job[w].call /\ j.new = n
    BY <1>2, <1>4, JobFields
  <1> HIDE DEF j
  <1>6. Working("answer", j, captured, fulfilled, receipt)
    BY <1>2, <1>4, <1>5 DEF Working, Call
  <1>7. "answer" \in Steps
    BY DEF Steps
  <1> QED
    BY <1>1, <1>2, <1>4, <1>5, <1>6, <1>7, RowMoves

\* An earlier attempt credited.
LEMMA RecoverSound ==
    ASSUME CheckoutInv, NEW w \in Servers, Recover(w)
    PROVE  CheckoutInv'
  <1>1. /\ At(w, "recover") /\ UNCHANGED <<row, idem, money, stripe, faults>>
        /\ \/ receipt[Sess(w)] # NoCart /\ PersistKeeping(w, Completed(w))
           \/ Goto(w, "mint") /\ UNCHANGED job
    BY DEF Recover
  <1>2. /\ Call(w) \in Calls /\ Sess(w) \in Sessions /\ job[w] \in Jobs
        /\ job[w].seen \in SessionRows /\ job[w].seen # NoRow
        /\ job[w].seen.status # "completed"
        /\ captured[Sess(w)] # NoCart /\ fulfilled[Sess(w)] # NoCart
    BY <1>1, ServerFacts DEF At, Working, Call, Sess
  <1>3. CASE receipt[Sess(w)] # NoCart /\ PersistKeeping(w, Completed(w))
    <2>1. "completed" \in Statuses \ {"none"}
      BY DEF Statuses
    <2>2. Completed(w) \in SessionRows /\ Completed(w) # NoRow
      BY <1>2, <2>1, RowChanges DEF Completed
    <2>3. Whole(captured, fulfilled, receipt, Sess(w))
      BY <1>2, <1>3 DEF Whole
    <2> QED
      BY <1>1, <1>3, <2>2, <2>3, PersistSound DEF At
  <1>4. CASE Goto(w, "mint") /\ UNCHANGED job
    <2>1. Keep(w, job[w])
      BY <1>4, KeepsOwn DEF CheckoutInv, TypeOK
    <2>2. Working("mint", job[w], captured, fulfilled, receipt)
      BY <1>2 DEF Working, Call, Sess
    <2>3. "mint" \in Steps
      BY DEF Steps
    <2> QED
      BY <1>1, <1>2, <1>4, <2>1, <2>2, <2>3, QuietMoves
  <1> QED
    BY <1>1, <1>3, <1>4

\* Rows and answers stay true while money, credit and receipts grow.
LEMMA MoneyMoves ==
    ASSUME CheckoutInv, NEW w \in Servers, NEW st \in Steps, NEW j \in Jobs,
           Goto(w, st), Keep(w, j), UNCHANGED <<row, idem, faults>>,
           captured' \in [Sessions -> Carts \cup {NoCart}],
           fulfilled' \in [Sessions -> Carts \cup {NoCart}],
           receipt' \in [Sessions -> Carts \cup {NoCart}],
           misled' \in [Sessions -> BOOLEAN], balance' \in Nat,
           Grown(captured, fulfilled, receipt, captured', fulfilled', receipt'),
           Working(st, j, captured', fulfilled', receipt'),
           CreditSound(captured', fulfilled', balance')
    PROVE  CheckoutInv'
  <1>1. /\ pc' \in [Servers -> Steps] /\ job' \in [Servers -> Jobs]
        /\ \A v \in Servers :
               Working(pc'[v], job'[v], captured', fulfilled', receipt')
    BY ServerMoves
  <1>2. TypeOK'
    BY <1>1 DEF CheckoutInv, TypeOK
  <1>3. Readable(row', captured', fulfilled', receipt')
    <2>1. Readable(row, captured, fulfilled, receipt)
      BY DEF CheckoutInv
    <2>2. ASSUME NEW s \in Sessions, row[s].status = "completed"
          PROVE  Whole(captured', fulfilled', receipt', s)
      BY <2>1, <2>2, WholeStays DEF Readable
    <2> QED
      BY <2>2 DEF Readable
  <1>4. Told(idem', captured', fulfilled', receipt')
    <2>1. ASSUME NEW k \in Scopes \X Keys, idem[k].state = "done"
          PROVE  /\ idem[k].answer \in Answers
                 /\ idem[k].answer.status = "completed" =>
                        Whole(captured', fulfilled', receipt', idem[k].answer.session)
      <3>1. /\ idem[k].answer \in Answers
            /\ idem[k].answer.status = "completed" =>
                   Whole(captured, fulfilled, receipt, idem[k].answer.session)
        BY <2>1 DEF CheckoutInv, Told
      <3>2. idem[k].answer.session \in Sessions
        BY <3>1 DEF Answers
      <3> QED
        BY <3>1, <3>2, WholeStays
    <2> QED
      BY <2>1 DEF Told
  <1> QED
    BY <1>1, <1>2, <1>3, <1>4 DEF CheckoutInv

\* Stripe.
LEMMA ChargeSound ==
    ASSUME CheckoutInv, NEW w \in Servers, Charge(w)
    PROVE  CheckoutInv'
  <1> DEFINE s == Sess(w)
             x == IF captured[s] # NoCart THEN captured[s] ELSE job[w].seen.cart
  <1>1. /\ At(w, "charge") /\ UNCHANGED job
        /\ UNCHANGED <<row, idem, fulfilled, balance, receipt, faults>>
    BY DEF Charge, money
  <1>2. /\ Call(w) \in Calls /\ s \in Sessions /\ job[w] \in Jobs
        /\ job[w].seen \in SessionRows /\ job[w].seen # NoRow
        /\ job[w].seen.status # "completed"
    BY <1>1, ServerFacts DEF At, Working
  <1>3. job[w].seen.cart \in Carts /\ NoCart \notin Carts
    BY <1>2, RowFields, CheckoutAssumption
  <1>4. /\ captured \in [Sessions -> Carts \cup {NoCart}]
        /\ fulfilled \in [Sessions -> Carts \cup {NoCart}]
        /\ receipt \in [Sessions -> Carts \cup {NoCart}]
        /\ misled \in [Sessions -> BOOLEAN] /\ balance \in Nat
        /\ job \in [Servers -> Jobs]
    BY DEF CheckoutInv, TypeOK
  <1>5. Keep(w, job[w])
    BY <1>1, <1>4, KeepsOwn
  <1>6. \/ captured' = [captured EXCEPT ![s] = x] /\ Goto(w, "fulfill") /\ UNCHANGED misled
        \/ /\ captured' = [captured EXCEPT ![s] = x] /\ Goto(w, "clear")
           /\ misled' = [misled EXCEPT ![s] = TRUE]
        \/ Goto(w, "clear") /\ UNCHANGED <<captured, misled>>
    BY DEF Charge, stripe
  <1>7. x \in Carts
    BY <1>2, <1>3, <1>4
  <1>8. "fulfill" \in Steps /\ "clear" \in Steps
    BY DEF Steps
  <1>9. CreditSound(captured, fulfilled, balance)
    BY DEF CheckoutInv
  <1> HIDE DEF x, s
  <1>10. CASE captured' = [captured EXCEPT ![s] = x] /\ misled' \in [Sessions -> BOOLEAN]
              /\ (Goto(w, "fulfill") \/ Goto(w, "clear"))
    <2>1. /\ captured' \in [Sessions -> Carts \cup {NoCart}]
          /\ captured'[s] # NoCart
          /\ \A z \in Sessions : captured[z] # NoCart => captured'[z] # NoCart
      BY <1>2, <1>3, <1>4, <1>7, <1>10
    <2>2. Grown(captured, fulfilled, receipt, captured', fulfilled', receipt')
      BY <1>1, <2>1 DEF Grown
    <2>3. CreditSound(captured', fulfilled', balance')
      BY <1>1, <1>9, <2>1 DEF CreditSound
    <2>4. Working("fulfill", job[w], captured', fulfilled', receipt')
      BY <1>2, <2>1 DEF Working, Call, Sess, s
    <2>5. Working("clear", job[w], captured', fulfilled', receipt')
      BY <1>2 DEF Working, Call
    <2>6. CASE Goto(w, "fulfill")
      BY <1>1, <1>2, <1>4, <1>5, <1>8, <1>10, <2>1, <2>2, <2>3, <2>4, <2>6, MoneyMoves
    <2>7. CASE Goto(w, "clear")
      BY <1>1, <1>2, <1>4, <1>5, <1>8, <1>10, <2>1, <2>2, <2>3, <2>5, <2>7, MoneyMoves
    <2> QED
      BY <1>10, <2>6, <2>7
  <1>11. CASE Goto(w, "clear") /\ UNCHANGED <<captured, misled>>
    <2>1. Working("clear", job[w], captured, fulfilled, receipt)
      BY <1>2 DEF Working, Call
    <2> QED
      BY <1>1, <1>2, <1>5, <1>8, <1>11, <2>1, QuietMoves DEF money, stripe
  <1>12. misled' = misled \/ misled' = [misled EXCEPT ![s] = TRUE] =>
             misled' \in [Sessions -> BOOLEAN]
    BY <1>2, <1>4
  <1> QED
    BY <1>6, <1>10, <1>11, <1>12

\* fulfill_once.
LEMMA FulfillSound ==
    ASSUME CheckoutInv, NEW w \in Servers, Fulfill(w)
    PROVE  CheckoutInv'
  <1> DEFINE s == Sess(w)
             cart == job[w].seen.cart
             C == {z \in Sessions : fulfilled[z] # NoCart}
  <1>1. /\ At(w, "fulfill") /\ UNCHANGED job
        /\ UNCHANGED <<row, idem, receipt, captured, misled, faults>>
    BY DEF Fulfill, stripe
  <1>2. /\ Call(w) \in Calls /\ s \in Sessions /\ job[w] \in Jobs
        /\ job[w].seen \in SessionRows /\ job[w].seen # NoRow
        /\ job[w].seen.status # "completed" /\ captured[s] # NoCart
    BY <1>1, ServerFacts DEF At, Working, Call, Sess
  <1>3. cart \in Carts /\ NoCart \notin Carts /\ Runs[cart] \in Nat
    BY <1>2, RowFields, CheckoutAssumption
  <1>4. /\ captured \in [Sessions -> Carts \cup {NoCart}]
        /\ fulfilled \in [Sessions -> Carts \cup {NoCart}]
        /\ receipt \in [Sessions -> Carts \cup {NoCart}]
        /\ misled \in [Sessions -> BOOLEAN] /\ balance \in Nat
        /\ job \in [Servers -> Jobs]
    BY DEF CheckoutInv, TypeOK
  <1>5. Keep(w, job[w])
    BY <1>1, <1>4, KeepsOwn
  <1>6. \/ /\ fulfilled[s] = NoCart /\ fulfilled' = [fulfilled EXCEPT ![s] = cart]
           /\ balance' = balance + Runs[cart] /\ Goto(w, "mint")
        \/ /\ fulfilled[s] # NoCart /\ Goto(w, "recover")
           /\ UNCHANGED <<fulfilled, balance>>
    BY DEF Fulfill
  <1>7. "mint" \in Steps /\ "recover" \in Steps
    BY DEF Steps
  <1>8. IsFiniteSet(C) /\ balance = Total(fulfilled, C) /\ \A z \in C : captured[z] # NoCart
    BY DEF CheckoutInv, CreditSound
  <1>9. CASE /\ fulfilled[s] = NoCart /\ fulfilled' = [fulfilled EXCEPT ![s] = cart]
             /\ balance' = balance + Runs[cart] /\ Goto(w, "mint")
    <2> HIDE DEF s, cart
    <2>1. /\ fulfilled' \in [Sessions -> Carts \cup {NoCart}]
          /\ fulfilled'[s] = cart
          /\ \A z \in Sessions : z # s => fulfilled'[z] = fulfilled[z]
      BY <1>2, <1>3, <1>4, <1>9
    <2>2. Grown(captured, fulfilled, receipt, captured', fulfilled', receipt')
      BY <1>1, <1>3, <1>9, <2>1 DEF Grown
    <2>3. PICK g : g = fulfilled'
      OBVIOUS
    <2>4. {z \in Sessions : g[z] # NoCart} = C \cup {s}
      BY <2>1, <2>3, <1>2, <1>3
    <2>5. s \notin C /\ \A z \in C : fulfilled[z] = g[z] /\ fulfilled[z] \in Carts
      BY <2>1, <2>3, <1>4, <1>9
    <2>6. g[s] = cart
      BY <2>1, <2>3
    <2>7. Total(g, C \cup {s}) = Total(fulfilled, C) + Runs[g[s]]
      <3> HIDE DEF C
      <3> QED
        BY <1>3, <1>8, <2>5, <2>6, TotalGrows
    <2>8. balance' = Total(g, C \cup {s})
      BY <1>8, <1>9, <2>6, <2>7
    <2>9. IsFiniteSet(C \cup {s})
      BY <1>8, FS_AddElement
    <2>10. \A z \in C \cup {s} : captured[z] # NoCart
      BY <1>2, <1>8
    <2>11. CreditSound(captured, g, balance')
      <3> HIDE DEF C
      <3> QED
        BY <2>4, <2>8, <2>9, <2>10 DEF CreditSound
    <2>12. CreditSound(captured', fulfilled', balance')
      BY <1>1, <2>3, <2>11
    <2>13. Working("mint", job[w], captured', fulfilled', receipt')
      BY <1>1, <1>2, <1>3, <2>1 DEF Working, Call, Sess, s
    <2>14. balance' \in Nat
      BY <1>3, <1>4, <1>9
    <2>15. /\ captured' \in [Sessions -> Carts \cup {NoCart}]
           /\ receipt' \in [Sessions -> Carts \cup {NoCart}]
           /\ misled' \in [Sessions -> BOOLEAN]
      BY <1>1, <1>4
    <2> HIDE DEF C
    <2> QED
      BY <1>1, <1>2, <1>5, <1>7, <1>9, <2>1, <2>2, <2>12, <2>13, <2>14, <2>15,
         MoneyMoves
  <1>10. CASE /\ fulfilled[s] # NoCart /\ Goto(w, "recover")
              /\ UNCHANGED <<fulfilled, balance>>
    <2>1. Working("recover", job[w], captured, fulfilled, receipt)
      BY <1>2, <1>10 DEF Working, Call, Sess
    <2>2. UNCHANGED <<row, idem, money, stripe, faults>>
      BY <1>1, <1>10 DEF money, stripe
    <2> QED
      BY <1>2, <1>5, <1>7, <1>10, <2>1, <2>2, QuietMoves
  <1> QED
    BY <1>6, <1>9, <1>10

\* _mint_order.
LEMMA MintSound ==
    ASSUME CheckoutInv, NEW w \in Servers, Mint(w)
    PROVE  CheckoutInv'
  <1> DEFINE s == Sess(w)
             cart == job[w].seen.cart
             n == Completed(w)
             j == [job[w] EXCEPT !.new = n]
  <1>1. /\ At(w, "mint") /\ Goto(w, "mark") /\ Keep(w, j)
        /\ receipt' = [receipt EXCEPT ![s] = cart]
        /\ UNCHANGED <<row, idem, fulfilled, balance, captured, misled, faults>>
    BY DEF Mint, PersistKeeping, stripe
  <1>2. /\ Call(w) \in Calls /\ s \in Sessions /\ job[w] \in Jobs
        /\ job[w].seen \in SessionRows /\ job[w].seen # NoRow
        /\ job[w].seen.status # "completed"
        /\ captured[s] # NoCart /\ fulfilled[s] # NoCart
    BY <1>1, ServerFacts DEF At, Working, Call, Sess
  <1>3. cart \in Carts /\ NoCart \notin Carts
    BY <1>2, RowFields, CheckoutAssumption
  <1>4. /\ captured \in [Sessions -> Carts \cup {NoCart}]
        /\ fulfilled \in [Sessions -> Carts \cup {NoCart}]
        /\ receipt \in [Sessions -> Carts \cup {NoCart}]
        /\ misled \in [Sessions -> BOOLEAN] /\ balance \in Nat
    BY DEF CheckoutInv, TypeOK
  <1>5. "completed" \in Statuses \ {"none"} /\ "mark" \in Steps
    BY DEF Statuses, Steps
  <1>6. n \in SessionRows /\ n # NoRow
    BY <1>2, <1>5, RowChanges DEF Completed
  <1> HIDE DEF n
  <1>7. j \in Jobs /\ j.call = job[w].call /\ j.new = n
    BY <1>2, <1>6, JobFields
  <1> HIDE DEF j, cart
  <1>8. /\ receipt' \in [Sessions -> Carts \cup {NoCart}]
        /\ receipt'[s] # NoCart
        /\ \A z \in Sessions : receipt[z] # NoCart => receipt'[z] # NoCart
    <2> HIDE DEF s
    <2> QED
      BY <1>1, <1>2, <1>3, <1>4
  <1>9. Grown(captured, fulfilled, receipt, captured', fulfilled', receipt')
    BY <1>1, <1>8 DEF Grown
  <1>10. Whole(captured', fulfilled', receipt', s)
    BY <1>1, <1>2, <1>8 DEF Whole
  <1>11. Working("mark", j, captured', fulfilled', receipt')
    BY <1>2, <1>6, <1>7, <1>10 DEF Working, Call, Sess
  <1>12. CreditSound(captured', fulfilled', balance')
    BY <1>1 DEF CheckoutInv
  <1>13. /\ captured' \in [Sessions -> Carts \cup {NoCart}]
         /\ fulfilled' \in [Sessions -> Carts \cup {NoCart}]
         /\ misled' \in [Sessions -> BOOLEAN] /\ balance' \in Nat
    BY <1>1, <1>4
  <1> QED
    BY <1>1, <1>5, <1>7, <1>8, <1>9, <1>11, <1>12, <1>13, MoneyMoves

\* A handler dies.
LEMMA FailSound ==
    ASSUME CheckoutInv, NEW w \in Servers, Fail(w)
    PROVE  CheckoutInv'
  <1>1. /\ End(w) /\ faults < MaxFaults /\ faults' = faults + 1
        /\ UNCHANGED <<row, idem, fulfilled, balance, receipt, captured, misled>>
    BY DEF Fail, money, stripe
  <1>2. faults \in 0..MaxFaults /\ MaxFaults \in Nat
    BY CheckoutAssumption DEF CheckoutInv, TypeOK
  <1>3. faults' \in 0..MaxFaults
    BY <1>1, <1>2
  <1>4. Grown(captured, fulfilled, receipt, captured', fulfilled', receipt')
    BY <1>1 DEF Grown
  <1>5. /\ "idle" \in Steps /\ NoJob \in Jobs
        /\ Working("idle", NoJob, captured', fulfilled', receipt')
    BY IdleJob DEF Steps
  <1>6. /\ pc' \in [Servers -> Steps] /\ job' \in [Servers -> Jobs]
        /\ \A v \in Servers :
               Working(pc'[v], job'[v], captured', fulfilled', receipt')
    BY <1>1, <1>4, <1>5, ServerMoves DEF End
  <1>7. TypeOK'
    BY <1>1, <1>3, <1>6 DEF CheckoutInv, TypeOK
  <1>8. /\ CreditSound(captured', fulfilled', balance')
        /\ Readable(row', captured', fulfilled', receipt')
        /\ Told(idem', captured', fulfilled', receipt')
    BY <1>1 DEF CheckoutInv
  <1> QED
    BY <1>6, <1>7, <1>8 DEF CheckoutInv

\* Nothing was asked, paid or credited at the start.
LEMMA CheckoutInit ==
    ASSUME Init
    PROVE  CheckoutInv
  <1>1. NoRow \in SessionRows /\ NoRow.status = "none"
    BY DEF SessionRows, NoRow
  <1>2. NoClaim \in Claims /\ NoClaim.state = "none"
    BY DEF NoClaim, Claims
  <1>3. NoJob \in Jobs /\ "idle" \in Steps
    BY IdleJob DEF Steps
  <1>4. 0 \in 0..MaxFaults
    BY CheckoutAssumption
  <1>5. TypeOK
    BY <1>1, <1>2, <1>3, <1>4 DEF Init, TypeOK
  <1>6. CreditSound(captured, fulfilled, balance)
    <2> DEFINE C == {s \in Sessions : fulfilled[s] # NoCart}
    <2>1. C = {}
      BY DEF Init
    <2>2. Total(fulfilled, C) = 0
      BY <2>1, FS_EmptySet, TotalUnfolds
    <2>3. IsFiniteSet(C) /\ balance = 0
      BY <2>1, FS_EmptySet DEF Init
    <2> QED
      BY <2>1, <2>2, <2>3 DEF CreditSound
  <1>7. ASSUME NEW w \in Servers
        PROVE  Working(pc[w], job[w], captured, fulfilled, receipt)
    BY IdleJob DEF Init
  <1>8. Readable(row, captured, fulfilled, receipt)
    BY <1>1 DEF Init, Readable
  <1>9. Told(idem, captured, fulfilled, receipt)
    BY <1>2 DEF Init, Told
  <1> QED
    BY <1>5, <1>6, <1>7, <1>8, <1>9 DEF CheckoutInv

\* Every step keeps the invariant.
LEMMA CheckoutStep ==
    ASSUME CheckoutInv, [Next]_vars
    PROVE  CheckoutInv'
  <1>1. ASSUME NEW w \in Servers, Step(w)
        PROVE  CheckoutInv'
    BY <1>1, LoadSound, UnpaidSound, MarkSound, SaveSound, FreezeSound,
       ChargeSound, ClearSound, FulfillSound, RecoverSound, MintSound,
       AnswerSound DEF Step
  <1>2. ASSUME NEW w \in Servers, Fail(w)
        PROVE  CheckoutInv'
    BY <1>2, FailSound
  <1>3. ASSUME NEW w \in Servers, NEW c \in Calls, Claim(w, c)
        PROVE  CheckoutInv'
    BY <1>3, ClaimSound
  <1>4. ASSUME NEW k \in Scopes \X Keys, Lapse(k)
        PROVE  CheckoutInv'
    BY <1>4, LapseSound
  <1>5. ASSUME UNCHANGED vars
        PROVE  CheckoutInv'
    BY <1>5 DEF vars, CheckoutInv, TypeOK
  <1> QED
    BY <1>1, <1>2, <1>3, <1>4, <1>5 DEF Next

\* The invariant behind what holds for any number of API processes: money
\* precedes credit, credit precedes receipt, and a session is only called
\* completed behind all three.
THEOREM CheckoutInvariant == Spec => []CheckoutInv
  <1>1. Init => CheckoutInv
    BY CheckoutInit
  <1>2. CheckoutInv /\ [Next]_vars => CheckoutInv'
    BY CheckoutStep
  <1> QED
    BY <1>1, <1>2, PTL DEF Spec

\* Every table of the checkout keeps its type.
THEOREM TypeCorrectness == Spec => []TypeOK
  <1>1. CheckoutInv => TypeOK
    BY DEF CheckoutInv
  <1> QED
    BY <1>1, CheckoutInvariant, PTL

\* However many processes serve the checkout, however often a completion dies
\* and is repeated: the balance holds the runs of the credited sessions, each
\* once, and all of them were paid (fulfill_once).
THEOREM CreditsAreGivenOnce == Spec => []CreditedOnce
  <1>1. CheckoutInv => CreditedOnce
    BY DEF CheckoutInv, CreditSound, CreditedOnce, Credited, Paid, Total
  <1> QED
    BY <1>1, CheckoutInvariant, PTL

\* However many processes serve it: a session anybody was told, or could read,
\* to be completed has its money, its credit and its receipt.
THEOREM CompletionIsWhole == Spec => []CompletedIsWhole
  <1>1. CheckoutInv => CompletedIsWhole
    <2>1. SUFFICES ASSUME CheckoutInv, NEW s \in Sessions,
                          \/ row[s].status = "completed"
                          \/ \E k \in Scopes \X Keys :
                                 /\ idem[k].state = "done"
                                 /\ idem[k].answer.status = "completed"
                                 /\ idem[k].answer.session = s
                   PROVE  Paid(s) /\ s \in Credited /\ receipt[s] # NoCart
      BY DEF CompletedIsWhole
    <2>2. Whole(captured, fulfilled, receipt, s)
      BY <2>1 DEF CheckoutInv, Readable, Told
    <2> QED
      BY <2>2 DEF Whole, Paid, Credited
  <1> QED
    BY <1>1, CheckoutInvariant, PTL
-----------------------------------------------------------------------------
(***************************************************************************)
(* With a single process, as deployed.                                     *)
(***************************************************************************)
\* The deployment starts one process (src/Dockerfile, no --workers).
OneServer == \A v, w \in Servers : v = w

\* The row r of a session agrees with what was captured, credited and
\* receipted for it, mis telling that a captured charge was misreported.
OrderSound(r, cap, ful, rec, mis) ==
    /\ rec # NoCart => rec = ful
    /\ ful # NoCart /\ ~mis => ful = cap
    /\ ful # NoCart => r.cart = ful /\ r.status \in {"ready", "completed"}
    /\ cap # NoCart /\ ~mis =>
           /\ r.cart = cap
           /\ r.status = "completed" \/ (r.status = "ready" /\ r.frozen)

\* What the only server at step st can rely on in its session.
Serving(st, j, r, cap, ful, mis) ==
    /\ st = "unpaid" => r = j.seen /\ ~r.frozen
    /\ st = "freeze" => r = j.seen /\ r.status = "ready"
    /\ st \in {"charge", "clear", "fulfill", "recover", "mint"} =>
           /\ r.cart = j.seen.cart /\ r.status = "ready" /\ r.frozen
           /\ j.seen.status = "ready"
    /\ st = "clear" => cap = NoCart \/ mis
    /\ st \in {"recover", "mint"} => ful = j.seen.cart
    /\ st \in {"mark", "save"} =>
           /\ r.status # "completed"
           /\ \/ j.new.status = "completed" /\ ful # NoCart /\ j.new.cart = ful
              \/ ful = NoCart /\ (cap = NoCart \/ mis)

ServingHere(st, j) ==
    LET s == j.call.session
    IN  Serving(st, j, row[s], captured[s], fulfilled[s], misled[s])

OrderHere(s) ==
    OrderSound(row[s], captured[s], fulfilled[s], receipt[s], misled[s])

OrderInv ==
    /\ CheckoutInv
    /\ \A s \in Sessions : OrderHere(s)
    /\ \A w \in Servers : pc[w] # "idle" => ServingHere(pc[w], job[w])

\* What a step may never do to the order of s.
StandsHere(s) ==
    /\ receipt[s] # NoCart => receipt'[s] = receipt[s]
    /\ row[s].status = "completed" =>
           row'[s].status = "completed" /\ row'[s].cart = row[s].cart

\* Where a server is after a step.
LEMMA Landed ==
    ASSUME CheckoutInv, NEW w \in Servers, NEW st, Goto(w, st)
    PROVE  /\ pc'[w] = st
           /\ \A j : Keep(w, j) => job'[w] = j
           /\ UNCHANGED job => job'[w] = job[w]
  <1>1. pc \in [Servers -> Steps] /\ job \in [Servers -> Jobs]
    BY DEF CheckoutInv, TypeOK
  <1>2. pc'[w] = st
    BY <1>1 DEF Goto
  <1>3. \A j : Keep(w, j) => job'[w] = j
    BY <1>1 DEF Keep
  <1> QED
    BY <1>2, <1>3

\* The only server moves, and at most its own session s changes.
LEMMA OneMoves ==
    ASSUME OneServer, OrderInv, CheckoutInv', NEW w \in Servers,
           NEW s \in Sessions,
           \A z \in Sessions : z # s =>
               /\ row'[z] = row[z] /\ captured'[z] = captured[z]
               /\ fulfilled'[z] = fulfilled[z] /\ receipt'[z] = receipt[z]
               /\ misled'[z] = misled[z],
           OrderSound(row'[s], captured'[s], fulfilled'[s], receipt'[s],
                      misled'[s]),
           pc'[w] # "idle" =>
               /\ job'[w].call.session = s
               /\ Serving(pc'[w], job'[w], row'[s], captured'[s],
                          fulfilled'[s], misled'[s]),
           StandsHere(s)
    PROVE  OrderInv' /\ \A z \in Sessions : StandsHere(z)
  <1>1. ASSUME NEW z \in Sessions
        PROVE  OrderHere(z)'
    <2>1. CASE z = s
      BY <2>1 DEF OrderHere
    <2>2. CASE z # s
      BY <2>2 DEF OrderInv, OrderHere
    <2> QED
      BY <2>1, <2>2
  <1>2. ASSUME NEW v \in Servers, pc'[v] # "idle"
        PROVE  ServingHere(pc[v], job[v])'
    <2>1. v = w
      BY DEF OneServer
    <2>2. /\ job'[w].call.session = s
          /\ Serving(pc'[w], job'[w], row'[s], captured'[s], fulfilled'[s],
                     misled'[s])
      BY <1>2, <2>1
    <2> QED
      BY <2>1, <2>2 DEF ServingHere
  <1>3. ASSUME NEW z \in Sessions
        PROVE  StandsHere(z)
    <2>1. CASE z = s
      BY <2>1
    <2>2. CASE z # s
      BY <2>2 DEF StandsHere
    <2> QED
      BY <2>1, <2>2
  <1> QED
    BY <1>1, <1>2, <1>3 DEF OrderInv

\* The only server moves, and no session changes.
LEMMA OneQuiet ==
    ASSUME OneServer, OrderInv, CheckoutInv', NEW w \in Servers,
           UNCHANGED <<row, captured, fulfilled, receipt, misled>>,
           pc'[w] # "idle" => ServingHere(pc'[w], job'[w])
    PROVE  OrderInv' /\ \A z \in Sessions : StandsHere(z)
  <1>1. ASSUME NEW z \in Sessions
        PROVE  OrderHere(z)'
    BY DEF OrderInv, OrderHere
  <1>2. ASSUME NEW v \in Servers, pc'[v] # "idle"
        PROVE  ServingHere(pc[v], job[v])'
    <2>1. v = w
      BY DEF OneServer
    <2>2. ServingHere(pc'[w], job'[w])
      BY <1>2, <2>1
    <2> QED
      BY <2>1, <2>2 DEF ServingHere
  <1>3. \A z \in Sessions : StandsHere(z)
    BY DEF StandsHere
  <1> QED
    BY <1>1, <1>2, <1>3 DEF OrderInv

\* What the server at work can rely on.
LEMMA OneFacts ==
    ASSUME OrderInv, NEW w \in Servers, pc[w] # "idle"
    PROVE  /\ CheckoutInv /\ Call(w) \in Calls /\ Sess(w) \in Sessions
           /\ Call(w) = job[w].call /\ Sess(w) = job[w].call.session
           /\ job[w] \in Jobs /\ job[w].seen \in SessionRows
           /\ job[w].new \in SessionRows
           /\ row[Sess(w)] \in SessionRows
           /\ Working(pc[w], job[w], captured, fulfilled, receipt)
           /\ OrderSound(row[Sess(w)], captured[Sess(w)], fulfilled[Sess(w)],
                         receipt[Sess(w)], misled[Sess(w)])
           /\ Serving(pc[w], job[w], row[Sess(w)], captured[Sess(w)],
                      fulfilled[Sess(w)], misled[Sess(w)])
           /\ fulfilled[Sess(w)] # NoCart => captured[Sess(w)] # NoCart
  <1>1. CheckoutInv /\ Sess(w) = job[w].call.session /\ Call(w) = job[w].call
    BY DEF OrderInv, Sess, Call
  <1>2. Call(w) \in Calls /\ Sess(w) \in Sessions
    BY <1>1, ServerFacts
  <1>3. OrderHere(Sess(w)) /\ ServingHere(pc[w], job[w])
    BY <1>2 DEF OrderInv
  <1>4. fulfilled[Sess(w)] # NoCart => captured[Sess(w)] # NoCart
    BY <1>1, <1>2 DEF CheckoutInv, CreditSound
  <1>5. OrderSound(row[Sess(w)], captured[Sess(w)], fulfilled[Sess(w)],
                   receipt[Sess(w)], misled[Sess(w)])
    BY <1>3 DEF OrderHere
  <1>6. Serving(pc[w], job[w], row[Sess(w)], captured[Sess(w)],
                fulfilled[Sess(w)], misled[Sess(w)])
    BY <1>1, <1>3 DEF ServingHere
  <1>7. /\ job[w] \in Jobs /\ job[w].seen \in SessionRows
        /\ job[w].new \in SessionRows /\ row[Sess(w)] \in SessionRows
        /\ Working(pc[w], job[w], captured, fulfilled, receipt)
    BY <1>1, <1>2, ServerFacts
  <1> QED
    BY <1>1, <1>2, <1>4, <1>5, <1>6, <1>7

\* A server that ends relies on nothing.
LEMMA OneEnds ==
    ASSUME OneServer, OrderInv, CheckoutInv', NEW w \in Servers, End(w),
           UNCHANGED <<row, captured, fulfilled, receipt, misled>>
    PROVE  OrderInv' /\ \A z \in Sessions : StandsHere(z)
  <1>1. pc'[w] = "idle"
    BY Landed DEF End, OrderInv
  <1> QED
    BY <1>1, OneQuiet

\* A call is taken up.
LEMMA ClaimStands ==
    ASSUME OneServer, OrderInv, NEW w \in Servers, NEW c \in Calls, Claim(w, c)
    PROVE  OrderInv' /\ \A z \in Sessions : StandsHere(z)
  <1> DEFINE n == IF c.op = "create" THEN Fresh(c) ELSE NoRow
             j == [NoJob EXCEPT !.call = c, !.new = n]
  <1>1. CheckoutInv /\ CheckoutInv'
    BY ClaimSound DEF OrderInv
  <1>2. /\ Goto(w, IF c.op = "create" THEN "mark" ELSE "load") /\ Keep(w, j)
        /\ UNCHANGED <<row, captured, fulfilled, receipt, misled>>
        /\ c.op = "create" => row[c.session] = NoRow
    BY DEF Claim, money, stripe
  <1>3. j.call = c
    BY DEF NoJob
  <1> HIDE DEF j
  <1>4. /\ pc'[w] = (IF c.op = "create" THEN "mark" ELSE "load") /\ job'[w] = j
    BY <1>1, <1>2, Landed
  <1>5. c.session \in Sessions
    BY CallFields
  <1>6. OrderHere(c.session)
    BY <1>5 DEF OrderInv
  <1>7. NoRow.status = "none"
    BY DEF NoRow
  <1>8. c.op = "create" =>
            /\ row[c.session].status = "none"
            /\ fulfilled[c.session] = NoCart
            /\ captured[c.session] = NoCart \/ misled[c.session]
    BY <1>2, <1>6, <1>7 DEF OrderHere, OrderSound
  <1>9. ServingHere(pc'[w], job'[w])
    <2>1. CASE c.op = "create"
      BY <1>3, <1>4, <1>8, <2>1 DEF ServingHere, Serving
    <2>2. CASE c.op # "create"
      BY <1>4, <2>2 DEF ServingHere, Serving
    <2> QED
      BY <2>1, <2>2
  <1> QED
    BY <1>1, <1>2, <1>9, OneQuiet

\* A session is read.
LEMMA LoadStands ==
    ASSUME OneServer, OrderInv, NEW w \in Servers, Load(w)
    PROVE  OrderInv' /\ \A z \in Sessions : StandsHere(z)
  <1> DEFINE c == Call(w)
             r == row[c.session]
             j == [job[w] EXCEPT !.seen = r, !.new = r]
  <1>1. /\ CheckoutInv /\ CheckoutInv' /\ pc[w] = "load"
        /\ UNCHANGED <<row, captured, fulfilled, receipt, misled>>
    BY LoadSound DEF OrderInv, Load, At, money, stripe
  <1>2. /\ job[w].call = c /\ c.session \in Sessions /\ r \in SessionRows
        /\ job[w] \in Jobs
    BY <1>1, OneFacts DEF Sess, Call
  <1>3. j.call = c /\ j.seen = r /\ j.new = r
    <2> HIDE DEF r, c
    <2> QED
      BY ZenonT(40), <1>2, JobFields
  <1>4. \/ Goto(w, "answer") /\ Keep(w, j)
        \/ Goto(w, "freeze") /\ Keep(w, j) /\ r.status = "ready"
        \/ End(w)
        \/ Goto(w, "unpaid") /\ Keep(w, j) /\ ~r.frozen
    BY DEF Load, Refused
  <1>5. r = row[j.call.session]
    BY <1>3
  <1> HIDE DEF c, r, j
  <1>6. CASE Goto(w, "answer") /\ Keep(w, j)
    <2>1. pc'[w] = "answer"
      BY <1>1, <1>6, Landed
    <2>2. ServingHere(pc'[w], job'[w])
      BY <2>1 DEF ServingHere, Serving
    <2> QED
      BY <1>1, <2>2, OneQuiet
  <1>7. CASE Goto(w, "freeze") /\ Keep(w, j) /\ r.status = "ready"
    <2>1. pc'[w] = "freeze" /\ job'[w] = j
      BY <1>1, <1>7, Landed
    <2>2. ServingHere(pc'[w], job'[w])
      BY <1>3, <1>5, <1>7, <2>1 DEF ServingHere, Serving
    <2> QED
      BY <1>1, <2>2, OneQuiet
  <1>8. CASE End(w)
    BY <1>1, <1>8, OneEnds
  <1>9. CASE Goto(w, "unpaid") /\ Keep(w, j) /\ ~r.frozen
    <2>1. pc'[w] = "unpaid" /\ job'[w] = j
      BY <1>1, <1>9, Landed
    <2>2. ServingHere(pc'[w], job'[w])
      BY <1>3, <1>5, <1>9, <2>1 DEF ServingHere, Serving
    <2> QED
      BY <1>1, <2>2, OneQuiet
  <1> QED
    BY <1>4, <1>6, <1>7, <1>8, <1>9

\* A change that is not refused finds a session nobody was credited for.
LEMMA UnpaidStands ==
    ASSUME OneServer, OrderInv, NEW w \in Servers, Unpaid(w)
    PROVE  OrderInv' /\ \A z \in Sessions : StandsHere(z)
  <1> DEFINE s == Sess(w)
  <1>1. /\ CheckoutInv /\ CheckoutInv' /\ pc[w] = "unpaid"
        /\ UNCHANGED <<row, captured, fulfilled, receipt, misled>>
    BY UnpaidSound DEF OrderInv, Unpaid, At, money, stripe
  <1>2. \/ End(w)
        \/ fulfilled[s] = NoCart /\ \E n : PersistKeeping(w, n)
    BY DEF Unpaid, Sess
  <1>3. CASE End(w)
    BY <1>1, <1>3, OneEnds
  <1>4. CASE fulfilled[s] = NoCart /\ \E n : PersistKeeping(w, n)
    <2>1. PICK n : PersistKeeping(w, n)
      BY <1>4
    <2> DEFINE j == [job[w] EXCEPT !.new = n]
    <2>2. /\ s = job[w].call.session /\ job[w] \in Jobs
          /\ row[s] = job[w].seen /\ ~row[s].frozen
          /\ job[w].seen.status # "completed"
          /\ OrderSound(row[s], captured[s], fulfilled[s], receipt[s], misled[s])
      BY <1>1, OneFacts DEF Serving, Working
    <2>3. Goto(w, "mark") /\ Keep(w, j)
      BY <2>1 DEF PersistKeeping
    <2>4. j.call.session = s
      <3>1. j.call = job[w].call
        BY <2>2 DEF Jobs
      <3> QED
        BY <2>2, <3>1
    <2> HIDE DEF j
    <2>5. pc'[w] = "mark" /\ job'[w] = j
      BY <1>1, <2>3, Landed
    <2>6. captured[s] = NoCart \/ misled[s]
      BY <2>2 DEF OrderSound
    <2>7. ServingHere(pc'[w], job'[w])
      BY <1>4, <2>2, <2>4, <2>5, <2>6 DEF ServingHere, Serving
    <2> QED
      BY <1>1, <2>7, OneQuiet
  <1> QED
    BY <1>2, <1>3, <1>4

\* The marker is read again.
LEMMA MarkStands ==
    ASSUME OneServer, OrderInv, NEW w \in Servers, Mark(w)
    PROVE  OrderInv' /\ \A z \in Sessions : StandsHere(z)
  <1> DEFINE s == Sess(w)
             f == row[s].frozen
             n == [job[w].new EXCEPT !.frozen = f]
             j == [job[w] EXCEPT !.new = n]
  <1>1. /\ CheckoutInv /\ CheckoutInv' /\ pc[w] = "mark"
        /\ Goto(w, "save") /\ Keep(w, [job[w] EXCEPT !.new.frozen = f])
        /\ UNCHANGED <<row, captured, fulfilled, receipt, misled>>
    BY MarkSound DEF OrderInv, Mark, At, money, stripe
  <1>2. /\ s = job[w].call.session /\ job[w] \in Jobs
        /\ job[w].new \in SessionRows /\ job[w].new # NoRow
        /\ row[s] \in SessionRows
        /\ Serving("mark", job[w], row[s], captured[s], fulfilled[s], misled[s])
    BY <1>1, OneFacts DEF Working
  <1>3. Keep(w, j)
    BY <1>1
  <1>4. n.status = job[w].new.status /\ n.cart = job[w].new.cart
    <2>1. job[w].new \in [status : Statuses \ {"none"}, cart : Carts,
                          frozen : BOOLEAN]
      BY <1>2 DEF SessionRows
    <2> HIDE DEF f
    <2> QED
      BY <2>1
  <1> HIDE DEF n
  <1>5. j.call = job[w].call /\ j.new = n
    BY <1>2 DEF Jobs
  <1> HIDE DEF j, s
  <1>6. pc'[w] = "save" /\ job'[w] = j
    BY <1>1, <1>3, Landed
  <1>7. ServingHere(pc'[w], job'[w])
    BY <1>2, <1>4, <1>5, <1>6 DEF ServingHere, Serving
  <1> QED
    BY <1>1, <1>7, OneQuiet

\* What is saved over a session is its order, or a session nobody paid for.
LEMMA SaveStands ==
    ASSUME OneServer, OrderInv, NEW w \in Servers, Save(w)
    PROVE  OrderInv' /\ \A z \in Sessions : StandsHere(z)
  <1> DEFINE s == Sess(w)
             n == job[w].new
  <1>1. /\ CheckoutInv /\ CheckoutInv' /\ pc[w] = "save" /\ Goto(w, "answer")
        /\ row' = [row EXCEPT ![s] = n] /\ UNCHANGED job
        /\ UNCHANGED <<captured, fulfilled, receipt, misled>>
    BY SaveSound DEF OrderInv, Save, At, money, stripe
  <1>2. /\ s = job[w].call.session /\ s \in Sessions
        /\ Serving("save", job[w], row[s], captured[s], fulfilled[s], misled[s])
        /\ OrderSound(row[s], captured[s], fulfilled[s], receipt[s], misled[s])
    BY <1>1, OneFacts
  <1>3. row \in [Sessions -> SessionRows]
    BY <1>1 DEF CheckoutInv, TypeOK
  <1>4. pc'[w] = "answer" /\ job'[w] = job[w]
    BY <1>1, Landed
  <1>5. row[s].status # "completed"
    BY <1>2 DEF Serving
  <1>6. OrderSound(n, captured[s], fulfilled[s], receipt[s], misled[s])
    BY <1>2 DEF Serving, OrderSound
  <1> HIDE DEF s, n
  <1>7. row'[s] = n /\ \A z \in Sessions : z # s => row'[z] = row[z]
    BY <1>1, <1>2, <1>3
  <1>8. Serving("answer", job'[w], row'[s], captured'[s], fulfilled'[s], misled'[s])
    BY DEF Serving
  <1>9. OrderSound(row'[s], captured'[s], fulfilled'[s], receipt'[s], misled'[s])
    BY <1>1, <1>6, <1>7
  <1>10. StandsHere(s)
    BY <1>1, <1>5 DEF StandsHere
  <1> QED
    BY <1>1, <1>2, <1>4, <1>7, <1>8, <1>9, <1>10, OneMoves

\* The marker of a completion.
LEMMA FreezeStands ==
    ASSUME OneServer, OrderInv, NEW w \in Servers, Freeze(w)
    PROVE  OrderInv' /\ \A z \in Sessions : StandsHere(z)
  <1> DEFINE s == Sess(w)
             n == [job[w].seen EXCEPT !.frozen = TRUE]
  <1>1. /\ CheckoutInv /\ CheckoutInv' /\ pc[w] = "freeze" /\ Goto(w, "charge")
        /\ row' = [row EXCEPT ![s] = n] /\ UNCHANGED job
        /\ UNCHANGED <<captured, fulfilled, receipt, misled>>
    BY FreezeSound DEF OrderInv, Freeze, At, money, stripe
  <1>2. /\ s = job[w].call.session /\ s \in Sessions
        /\ job[w].seen \in SessionRows /\ job[w].seen # NoRow
        /\ Serving("freeze", job[w], row[s], captured[s], fulfilled[s], misled[s])
        /\ OrderSound(row[s], captured[s], fulfilled[s], receipt[s], misled[s])
    BY <1>1, OneFacts DEF Working
  <1>3. row \in [Sessions -> SessionRows]
    BY <1>1 DEF CheckoutInv, TypeOK
  <1>4. pc'[w] = "charge" /\ job'[w] = job[w]
    BY <1>1, Landed
  <1>5. row[s] = job[w].seen /\ row[s].status = "ready"
    BY <1>2 DEF Serving
  <1>6. n.cart = job[w].seen.cart /\ n.status = "ready" /\ n.frozen
    <2>1. job[w].seen \in [status : Statuses \ {"none"}, cart : Carts,
                           frozen : BOOLEAN]
      BY <1>2 DEF SessionRows
    <2> QED
      BY <2>1, <1>5
  <1> HIDE DEF s, n
  <1>7. OrderSound(n, captured[s], fulfilled[s], receipt[s], misled[s])
    BY <1>2, <1>5, <1>6 DEF OrderSound
  <1>8. row'[s] = n /\ \A z \in Sessions : z # s => row'[z] = row[z]
    BY <1>1, <1>2, <1>3
  <1>9. Serving("charge", job[w], n, captured[s], fulfilled[s], misled[s])
    BY <1>5, <1>6 DEF Serving
  <1>10. Serving(pc'[w], job'[w], row'[s], captured'[s], fulfilled'[s], misled'[s])
    BY <1>1, <1>4, <1>8, <1>9
  <1>11. OrderSound(row'[s], captured'[s], fulfilled'[s], receipt'[s], misled'[s])
    BY <1>1, <1>7, <1>8
  <1>12. StandsHere(s)
    BY <1>1, <1>5 DEF StandsHere
  <1> QED
    BY <1>1, <1>2, <1>4, <1>8, <1>10, <1>11, <1>12, OneMoves

\* The 402 branch: nothing was captured, or the client misreported it.
LEMMA ClearStands ==
    ASSUME OneServer, OrderInv, NEW w \in Servers, Clear(w)
    PROVE  OrderInv' /\ \A z \in Sessions : StandsHere(z)
  <1> DEFINE s == Sess(w)
             n == [job[w].seen EXCEPT !.status = "ready", !.frozen = FALSE]
             j == [job[w] EXCEPT !.new = n, !.declined = TRUE]
  <1>1. /\ CheckoutInv /\ CheckoutInv' /\ pc[w] = "clear" /\ Goto(w, "answer")
        /\ row' = [row EXCEPT ![s] = n] /\ Keep(w, j)
        /\ UNCHANGED <<captured, fulfilled, receipt, misled>>
    BY ClearSound DEF OrderInv, Clear, At, money, stripe
  <1>2. /\ s = job[w].call.session /\ s \in Sessions /\ job[w] \in Jobs
        /\ job[w].seen \in SessionRows /\ job[w].seen # NoRow
        /\ Serving("clear", job[w], row[s], captured[s], fulfilled[s], misled[s])
        /\ OrderSound(row[s], captured[s], fulfilled[s], receipt[s], misled[s])
    BY <1>1, OneFacts DEF Working
  <1>3. row \in [Sessions -> SessionRows]
    BY <1>1 DEF CheckoutInv, TypeOK
  <1>4. /\ row[s].cart = job[w].seen.cart /\ row[s].status = "ready"
        /\ captured[s] = NoCart \/ misled[s]
    BY <1>2 DEF Serving
  <1>5. n.cart = job[w].seen.cart /\ n.status = "ready"
    <2>1. job[w].seen \in [status : Statuses \ {"none"}, cart : Carts,
                           frozen : BOOLEAN]
      BY <1>2 DEF SessionRows
    <2> QED
      BY <2>1
  <1>6. j.call = job[w].call
    <2> HIDE DEF n
    <2> QED
      BY <1>2 DEF Jobs
  <1> HIDE DEF s, n, j
  <1>7. pc'[w] = "answer" /\ job'[w] = j
    BY <1>1, Landed
  <1>8. OrderSound(n, captured[s], fulfilled[s], receipt[s], misled[s])
    BY <1>2, <1>4, <1>5 DEF OrderSound
  <1>9. row'[s] = n /\ \A z \in Sessions : z # s => row'[z] = row[z]
    BY <1>1, <1>2, <1>3
  <1>10. Serving("answer", job'[w], row'[s], captured'[s], fulfilled'[s], misled'[s])
    BY DEF Serving
  <1>11. OrderSound(row'[s], captured'[s], fulfilled'[s], receipt'[s], misled'[s])
    BY <1>1, <1>8, <1>9
  <1>12. StandsHere(s)
    BY <1>1, <1>4 DEF StandsHere
  <1> QED
    BY <1>1, <1>2, <1>6, <1>7, <1>9, <1>10, <1>11, <1>12, OneMoves

\* Stripe captures what the frozen row says, once.
LEMMA ChargeStands ==
    ASSUME OneServer, OrderInv, NEW w \in Servers, Charge(w)
    PROVE  OrderInv' /\ \A z \in Sessions : StandsHere(z)
  <1> DEFINE s == Sess(w)
             x == IF captured[s] # NoCart THEN captured[s] ELSE job[w].seen.cart
  <1>1. /\ CheckoutInv /\ CheckoutInv' /\ pc[w] = "charge" /\ UNCHANGED job
        /\ UNCHANGED <<row, fulfilled, receipt>>
    BY ChargeSound DEF OrderInv, Charge, At, money
  <1>2. /\ s = job[w].call.session /\ s \in Sessions
        /\ Serving("charge", job[w], row[s], captured[s], fulfilled[s], misled[s])
        /\ OrderSound(row[s], captured[s], fulfilled[s], receipt[s], misled[s])
        /\ fulfilled[s] # NoCart => captured[s] # NoCart
    BY <1>1, OneFacts
  <1>3. /\ captured \in [Sessions -> Carts \cup {NoCart}]
        /\ misled \in [Sessions -> BOOLEAN]
    BY <1>1 DEF CheckoutInv, TypeOK
  <1>4. \/ captured' = [captured EXCEPT ![s] = x] /\ Goto(w, "fulfill") /\ UNCHANGED misled
        \/ /\ captured' = [captured EXCEPT ![s] = x] /\ Goto(w, "clear")
           /\ misled' = [misled EXCEPT ![s] = TRUE]
        \/ /\ captured[s] = NoCart /\ Goto(w, "clear")
           /\ UNCHANGED <<captured, misled>>
    BY DEF Charge, stripe
  <1>5. /\ row[s].cart = job[w].seen.cart /\ row[s].status = "ready"
        /\ row[s].frozen /\ job[w].seen.status = "ready"
    BY <1>2 DEF Serving
  <1>6. StandsHere(s)
    BY <1>1 DEF StandsHere
  <1>7. OrderSound(row[s], x, fulfilled[s], receipt[s], misled[s])
    BY <1>2, <1>5 DEF OrderSound
  <1>8. OrderSound(row[s], x, fulfilled[s], receipt[s], TRUE)
    BY <1>2, <1>5 DEF OrderSound
  <1>9. /\ Serving("fulfill", job[w], row[s], x, fulfilled[s], misled[s])
        /\ Serving("clear", job[w], row[s], x, fulfilled[s], TRUE)
        /\ captured[s] = NoCart =>
               Serving("clear", job[w], row[s], captured[s], fulfilled[s], misled[s])
    BY <1>5 DEF Serving
  <1> HIDE DEF s, x
  <1>10. CASE /\ captured' = [captured EXCEPT ![s] = x] /\ Goto(w, "fulfill")
              /\ UNCHANGED misled
    <2>1. pc'[w] = "fulfill" /\ job'[w] = job[w]
      BY <1>1, <1>10, Landed
    <2>2. captured'[s] = x /\ \A z \in Sessions : z # s => captured'[z] = captured[z]
      BY <1>2, <1>3, <1>10
    <2>3. OrderSound(row'[s], captured'[s], fulfilled'[s], receipt'[s], misled'[s])
      BY <1>1, <1>7, <1>10, <2>2
    <2>4. Serving(pc'[w], job'[w], row'[s], captured'[s], fulfilled'[s], misled'[s])
      BY <1>1, <1>9, <1>10, <2>1, <2>2
    <2> QED
      BY <1>1, <1>2, <1>6, <1>10, <2>1, <2>2, <2>3, <2>4, OneMoves
  <1>11. CASE /\ captured' = [captured EXCEPT ![s] = x] /\ Goto(w, "clear")
              /\ misled' = [misled EXCEPT ![s] = TRUE]
    <2>1. pc'[w] = "clear" /\ job'[w] = job[w]
      BY <1>1, <1>11, Landed
    <2>2. /\ captured'[s] = x /\ misled'[s] = TRUE
          /\ \A z \in Sessions :
                 z # s => captured'[z] = captured[z] /\ misled'[z] = misled[z]
      BY <1>2, <1>3, <1>11
    <2>3. OrderSound(row'[s], captured'[s], fulfilled'[s], receipt'[s], misled'[s])
      BY <1>1, <1>8, <2>2
    <2>4. Serving(pc'[w], job'[w], row'[s], captured'[s], fulfilled'[s], misled'[s])
      BY <1>1, <1>9, <2>1, <2>2
    <2> QED
      BY <1>1, <1>2, <1>6, <2>1, <2>2, <2>3, <2>4, OneMoves
  <1>12. CASE /\ captured[s] = NoCart /\ Goto(w, "clear")
              /\ UNCHANGED <<captured, misled>>
    <2>1. pc'[w] = "clear" /\ job'[w] = job[w]
      BY <1>1, <1>12, Landed
    <2>2. ServingHere(pc'[w], job'[w])
      BY <1>2, <1>9, <1>12, <2>1 DEF ServingHere
    <2> QED
      BY <1>1, <1>12, <2>2, OneQuiet
  <1> QED
    BY <1>4, <1>10, <1>11, <1>12

\* The credit is that of the frozen row, hence of what was captured.
LEMMA FulfillStands ==
    ASSUME OneServer, OrderInv, NEW w \in Servers, Fulfill(w)
    PROVE  OrderInv' /\ \A z \in Sessions : StandsHere(z)
  <1> DEFINE s == Sess(w)
             cart == job[w].seen.cart
  <1>1. /\ CheckoutInv /\ CheckoutInv' /\ pc[w] = "fulfill" /\ UNCHANGED job
        /\ UNCHANGED <<row, captured, receipt, misled>>
    BY FulfillSound DEF OrderInv, Fulfill, At, stripe
  <1>2. /\ s = job[w].call.session /\ s \in Sessions
        /\ job[w].seen \in SessionRows /\ job[w].seen # NoRow
        /\ captured[s] # NoCart
        /\ Serving("fulfill", job[w], row[s], captured[s], fulfilled[s], misled[s])
        /\ OrderSound(row[s], captured[s], fulfilled[s], receipt[s], misled[s])
    BY <1>1, OneFacts DEF Working
  <1>3. fulfilled \in [Sessions -> Carts \cup {NoCart}]
    BY <1>1 DEF CheckoutInv, TypeOK
  <1>4. \/ /\ fulfilled[s] = NoCart /\ fulfilled' = [fulfilled EXCEPT ![s] = cart]
           /\ Goto(w, "mint")
        \/ /\ fulfilled[s] # NoCart /\ Goto(w, "recover") /\ UNCHANGED fulfilled
    BY DEF Fulfill
  <1>5. /\ row[s].cart = cart /\ row[s].status = "ready" /\ row[s].frozen
        /\ job[w].seen.status = "ready"
    BY <1>2 DEF Serving
  <1>6. StandsHere(s)
    BY <1>1 DEF StandsHere
  <1>7. fulfilled[s] = NoCart =>
            OrderSound(row[s], captured[s], cart, receipt[s], misled[s])
    BY <1>2, <1>5 DEF OrderSound
  <1>8. fulfilled[s] # NoCart => fulfilled[s] = cart
    BY <1>2, <1>5 DEF OrderSound
  <1>9. /\ Serving("mint", job[w], row[s], captured[s], cart, misled[s])
        /\ Serving("recover", job[w], row[s], captured[s], cart, misled[s])
    BY <1>5 DEF Serving
  <1> HIDE DEF s, cart
  <1>10. CASE /\ fulfilled[s] = NoCart /\ fulfilled' = [fulfilled EXCEPT ![s] = cart]
              /\ Goto(w, "mint")
    <2>1. pc'[w] = "mint" /\ job'[w] = job[w]
      BY <1>1, <1>10, Landed
    <2>2. fulfilled'[s] = cart /\ \A z \in Sessions : z # s => fulfilled'[z] = fulfilled[z]
      BY <1>2, <1>3, <1>10
    <2>3. OrderSound(row'[s], captured'[s], fulfilled'[s], receipt'[s], misled'[s])
      BY <1>1, <1>7, <1>10, <2>2
    <2>4. Serving(pc'[w], job'[w], row'[s], captured'[s], fulfilled'[s], misled'[s])
      BY <1>1, <1>9, <2>1, <2>2
    <2> QED
      BY <1>1, <1>2, <1>6, <2>1, <2>2, <2>3, <2>4, OneMoves
  <1>11. CASE /\ fulfilled[s] # NoCart /\ Goto(w, "recover") /\ UNCHANGED fulfilled
    <2>1. pc'[w] = "recover" /\ job'[w] = job[w]
      BY <1>1, <1>11, Landed
    <2>2. ServingHere(pc'[w], job'[w])
      BY <1>2, <1>8, <1>9, <1>11, <2>1 DEF ServingHere
    <2> QED
      BY <1>1, <1>11, <2>2, OneQuiet
  <1> QED
    BY <1>4, <1>10, <1>11

\* The order about to be saved is the one that was credited.
LEMMA CompletedServes ==
    ASSUME OrderInv, NEW w \in Servers, pc[w] \in {"recover", "mint"}
    PROVE  LET s == Sess(w)
               j == [job[w] EXCEPT !.new = Completed(w)]
           IN  /\ j.call.session = s
               /\ Serving("mark", j, row[s], captured[s], fulfilled[s], misled[s])
  <1> DEFINE s == Sess(w)
             n == Completed(w)
             j == [job[w] EXCEPT !.new = n]
  <1>1. /\ s = job[w].call.session /\ s \in Sessions /\ job[w] \in Jobs
        /\ job[w].seen \in SessionRows /\ job[w].seen # NoRow
        /\ fulfilled[s] # NoCart
        /\ Serving(pc[w], job[w], row[s], captured[s], fulfilled[s], misled[s])
    BY OneFacts DEF Working
  <1>2. n.status = "completed" /\ n.cart = job[w].seen.cart
    <2>1. job[w].seen \in [status : Statuses \ {"none"}, cart : Carts,
                           frozen : BOOLEAN]
      BY <1>1 DEF SessionRows
    <2> QED
      BY <2>1 DEF Completed
  <1> HIDE DEF n
  <1>3. j.call = job[w].call /\ j.new = n
    BY <1>1 DEF Jobs
  <1>4. fulfilled[s] = job[w].seen.cart /\ row[s].status = "ready"
    BY <1>1 DEF Serving
  <1> HIDE DEF j, s
  <1>5. Serving("mark", j, row[s], captured[s], fulfilled[s], misled[s])
    BY <1>1, <1>2, <1>3, <1>4 DEF Serving
  <1>6. j.call.session = s
    BY <1>1, <1>3
  <1> QED
    BY <1>5, <1>6 DEF j, s, n

\* An earlier attempt credited.
LEMMA RecoverStands ==
    ASSUME OneServer, OrderInv, NEW w \in Servers, Recover(w)
    PROVE  OrderInv' /\ \A z \in Sessions : StandsHere(z)
  <1> DEFINE s == Sess(w)
             j == [job[w] EXCEPT !.new = Completed(w)]
  <1>1. /\ CheckoutInv /\ CheckoutInv' /\ pc[w] = "recover"
        /\ UNCHANGED <<row, captured, fulfilled, receipt, misled>>
    BY RecoverSound DEF OrderInv, Recover, At, money, stripe
  <1>2. \/ Goto(w, "mark") /\ Keep(w, j)
        \/ Goto(w, "mint") /\ UNCHANGED job
    BY DEF Recover, PersistKeeping
  <1>3. /\ j.call.session = s
        /\ Serving("mark", j, row[s], captured[s], fulfilled[s], misled[s])
    BY <1>1, CompletedServes
  <1>4. /\ s = job[w].call.session
        /\ Serving("recover", job[w], row[s], captured[s], fulfilled[s], misled[s])
    BY <1>1, OneFacts
  <1>5. Serving("mint", job[w], row[s], captured[s], fulfilled[s], misled[s])
    BY <1>4 DEF Serving
  <1> HIDE DEF s, j
  <1>6. CASE Goto(w, "mark") /\ Keep(w, j)
    <2>1. pc'[w] = "mark" /\ job'[w] = j
      BY <1>1, <1>6, Landed
    <2>2. ServingHere(pc'[w], job'[w])
      BY <1>3, <2>1 DEF ServingHere
    <2> QED
      BY <1>1, <2>2, OneQuiet
  <1>7. CASE Goto(w, "mint") /\ UNCHANGED job
    <2>1. pc'[w] = "mint" /\ job'[w] = job[w]
      BY <1>1, <1>7, Landed
    <2>2. ServingHere(pc'[w], job'[w])
      BY <1>4, <1>5, <2>1 DEF ServingHere
    <2> QED
      BY <1>1, <2>2, OneQuiet
  <1> QED
    BY <1>2, <1>6, <1>7

\* A receipt minted again is the same receipt.
LEMMA MintStands ==
    ASSUME OneServer, OrderInv, NEW w \in Servers, Mint(w)
    PROVE  OrderInv' /\ \A z \in Sessions : StandsHere(z)
  <1> DEFINE s == Sess(w)
             cart == job[w].seen.cart
             j == [job[w] EXCEPT !.new = Completed(w)]
  <1>1. /\ CheckoutInv /\ CheckoutInv' /\ pc[w] = "mint"
        /\ Goto(w, "mark") /\ Keep(w, j)
        /\ receipt' = [receipt EXCEPT ![s] = cart]
        /\ UNCHANGED <<row, captured, fulfilled, misled>>
    BY MintSound DEF OrderInv, Mint, At, PersistKeeping, stripe
  <1>2. /\ j.call.session = s
        /\ Serving("mark", j, row[s], captured[s], fulfilled[s], misled[s])
    BY <1>1, CompletedServes
  <1>3. /\ s \in Sessions
        /\ Serving("mint", job[w], row[s], captured[s], fulfilled[s], misled[s])
        /\ OrderSound(row[s], captured[s], fulfilled[s], receipt[s], misled[s])
    BY <1>1, OneFacts
  <1>4. fulfilled[s] = cart
    BY <1>3 DEF Serving
  <1>5. OrderSound(row[s], captured[s], fulfilled[s], cart, misled[s])
    BY <1>3, <1>4 DEF OrderSound
  <1>6. receipt[s] # NoCart => receipt[s] = cart
    BY <1>3, <1>4 DEF OrderSound
  <1>7. receipt \in [Sessions -> Carts \cup {NoCart}]
    BY <1>1 DEF CheckoutInv, TypeOK
  <1> HIDE DEF s, cart, j
  <1>8. receipt'[s] = cart /\ \A z \in Sessions : z # s => receipt'[z] = receipt[z]
    BY <1>1, <1>3, <1>7
  <1>9. pc'[w] = "mark" /\ job'[w] = j
    BY <1>1, Landed
  <1>10. OrderSound(row'[s], captured'[s], fulfilled'[s], receipt'[s], misled'[s])
    BY <1>1, <1>5, <1>8
  <1>11. Serving(pc'[w], job'[w], row'[s], captured'[s], fulfilled'[s], misled'[s])
    BY <1>1, <1>2, <1>9
  <1>12. StandsHere(s)
    BY <1>1, <1>6, <1>8 DEF StandsHere
  <1> QED
    BY <1>1, <1>2, <1>3, <1>8, <1>9, <1>10, <1>11, <1>12, OneMoves

\* The response, a death, and a minute that passes change no session.
LEMMA EndsStand ==
    ASSUME OneServer, OrderInv, NEW w \in Servers, Answer(w) \/ Fail(w)
    PROVE  OrderInv' /\ \A z \in Sessions : StandsHere(z)
  <1>1. CheckoutInv'
    BY AnswerSound, FailSound DEF OrderInv
  <1>2. End(w) /\ UNCHANGED <<row, captured, fulfilled, receipt, misled>>
    BY DEF Answer, Fail, money, stripe
  <1> QED
    BY <1>1, <1>2, OneEnds

\* A minute passes over a claim.
LEMMA LapseStands ==
    ASSUME OneServer, OrderInv, NEW k \in Scopes \X Keys, Lapse(k)
    PROVE  OrderInv' /\ \A z \in Sessions : StandsHere(z)
  <1>1. CheckoutInv'
    BY LapseSound DEF OrderInv
  <1>2. UNCHANGED <<row, captured, fulfilled, receipt, misled, pc, job>>
    BY DEF Lapse, money, stripe
  <1> QED
    BY <1>1, <1>2 DEF OrderInv, OrderHere, ServingHere, StandsHere

\* Every step of the only process keeps the orders.
LEMMA OrderStep ==
    ASSUME OneServer, OrderInv, [Next]_vars
    PROVE  OrderInv' /\ \A z \in Sessions : StandsHere(z)
  <1>1. ASSUME NEW w \in Servers, Step(w)
        PROVE  OrderInv' /\ \A z \in Sessions : StandsHere(z)
    BY <1>1, LoadStands, UnpaidStands, MarkStands, SaveStands, FreezeStands,
       ChargeStands, ClearStands, FulfillStands, RecoverStands, MintStands,
       EndsStand DEF Step
  <1>2. ASSUME NEW w \in Servers, Fail(w)
        PROVE  OrderInv' /\ \A z \in Sessions : StandsHere(z)
    BY <1>2, EndsStand
  <1>3. ASSUME NEW w \in Servers, NEW c \in Calls, Claim(w, c)
        PROVE  OrderInv' /\ \A z \in Sessions : StandsHere(z)
    BY <1>3, ClaimStands
  <1>4. ASSUME NEW k \in Scopes \X Keys, Lapse(k)
        PROVE  OrderInv' /\ \A z \in Sessions : StandsHere(z)
    BY <1>4, LapseStands
  <1>5. ASSUME UNCHANGED vars
        PROVE  OrderInv' /\ \A z \in Sessions : StandsHere(z)
    <2>1. CheckoutInv'
      BY <1>5, CheckoutStep DEF OrderInv
    <2>2. UNCHANGED <<row, captured, fulfilled, receipt, misled, pc, job>>
      BY <1>5 DEF vars
    <2> QED
      BY <2>1, <2>2 DEF OrderInv, OrderHere, ServingHere, StandsHere
  <1> QED
    BY <1>1, <1>2, <1>3, <1>4, <1>5 DEF Next

\* The invariant behind the orders of a single process: while a completion is
\* under way the row holds the frozen cart that Stripe, the credit and the
\* receipt are given, and nothing else may be saved over a session that was
\* paid or credited.
THEOREM OrderInvariant == ASSUME OneServer PROVE Spec => []OrderInv
  <1>1. Init => OrderInv
    BY CheckoutInit DEF Init, OrderInv, OrderHere, OrderSound
  <1>2. OrderInv /\ [Next]_vars => OrderInv'
    BY OrderStep
  <1> QED
    BY <1>1, <1>2, PTL DEF Spec

\* With one process, as deployed: a receipt attests what was credited, and that
\* is what was captured, unless a captured charge was reported as failed; paid
\* sessions stay payable under the same exception; completed ones are whole.
THEOREM OrdersAreTrue == ASSUME OneServer PROVE Spec => []OrderTruth
  <1>1. OrderInv => ReceiptAttests
    BY DEF OrderInv, OrderHere, OrderSound, ReceiptAttests, Credited
  <1>2. OrderInv => PaidStaysPayable
    BY DEF OrderInv, OrderHere, OrderSound, PaidStaysPayable, Paid
  <1>3. OrderInv /\ CompletedIsWhole => OrderTruth
    BY <1>1, <1>2 DEF OrderTruth
  <1> QED
    BY <1>3, OrderInvariant, CompletionIsWhole, PTL

\* With one process, as deployed: a receipt stays as it was minted, and a
\* completed session is never opened again and keeps its cart.
THEOREM OrdersStandForGood == ASSUME OneServer PROVE Spec => OrdersStand
  <1>1. OrderInv /\ [Next]_vars => [KeepsOrders]_vars
    BY OrderStep DEF StandsHere, KeepsOrders
  <1> QED
    BY <1>1, OrderInvariant, PTL DEF Spec, OrdersStand
=============================================================================
