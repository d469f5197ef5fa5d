--------------------------- MODULE GameManagerProofs --------------------------
(***************************************************************************)
(* Every room keeps its types, its seats and its chips, whatever the       *)
(* clients, the initial stacks, the bonus and the deck.                    *)
(*                                                                         *)
(* The three invariants are proved together: chips are conserved because a *)
(* running match has two members, and it has two members because exits     *)
(* reset the session.  A step is followed through the operations of the    *)
(* room it applies; each of them keeps a table a table, and all but the    *)
(* reset of a new match keep the chips of the room (the first part).       *)
(***************************************************************************)
EXTENDS GameManager, FiniteSetTheorems, TLAPS
-------------------------------------------------------------------------------
(* The operations of the room.                                             *)

\* Two different members are seated and every field has its type.
Table(r, c, d) == c # d /\ r \in [users: [{c, d} -> User], dealer: Nat]

\* All the chips of a room: held, staked, on the table.
Wealth(r, c, d) ==
    r.users[c].chips + r.users[d].chips + r.dealer + Pot(r.users[c], r.users[d])

\* A set of two elements is a pair: what users.size() == 2 gives the code.
LEMMA PairLemma ==
    ASSUME NEW S, IsFiniteSet(S), Cardinality(S) = 2
    PROVE  \A a \in S : \E b \in S : a # b /\ S = {a, b}
<1>1. SUFFICES ASSUME NEW a \in S
               PROVE  \E b \in S : a # b /\ S = {a, b}
  OBVIOUS
<1>2. IsFiniteSet(S \ {a}) /\ Cardinality(S \ {a}) = 1
  BY FS_RemoveElement
<1>3. PICK b : S \ {a} = {b}
  BY <1>2, FS_Singleton
<1>. QED
  BY <1>3

\* The opponent of one of two members is the other one
\* (findOpponentSocketUnlocked, findOpponentUserUnlocked).
LEMMA OpponentLemma ==
    ASSUME NEW r, NEW c, NEW d, Table(r, c, d)
    PROVE  /\ Members(r) = {c, d}
           /\ Opponent(r, c) = d
           /\ Opponent(r, d) = c
           /\ r.users[c] \in User /\ r.users[d] \in User
           /\ r.dealer \in Nat
           /\ c # d
<1>1. Members(r) = {c, d}
  BY DEF Table, Members
<1>2. \A x \in {c, d} : (x # c) <=> (x = d)
  BY DEF Table
<1>3. \A x \in {c, d} : (x # d) <=> (x = c)
  BY DEF Table
<1>4. Opponent(r, c) = d
  BY <1>1, <1>2 DEF Opponent
<1>5. Opponent(r, d) = c
  BY <1>1, <1>3 DEF Opponent
<1>. QED
  BY <1>1, <1>4, <1>5 DEF Table

\* A table has two members, so the guards on users.size() pass.
LEMMA TableIsPaired ==
    ASSUME NEW r, NEW c, NEW d, Table(r, c, d)
    PROVE  Paired(r) /\ IsFiniteSet(Members(r))
<1>1. Members(r) = {c, d} /\ c # d
  BY OpponentLemma DEF Table
<1>2. IsFiniteSet({c, d}) /\ Cardinality({c, d}) = 2
  <2>1. IsFiniteSet({c}) /\ Cardinality({c}) = 1
    BY FS_Singleton
  <2>2. {c, d} = {c} \cup {d} /\ d \notin {c}
    BY <1>1
  <2>. QED
    BY <2>1, <2>2, FS_AddElement
<1>. QED
  BY <1>1, <1>2 DEF Paired

\* The seats do not matter: a table seen from the other side is a table with
\* the same wealth.
LEMMA TableTurns ==
    ASSUME NEW r, NEW c, NEW d, Table(r, c, d)
    PROVE  Table(r, d, c) /\ Wealth(r, d, c) = Wealth(r, c, d)
<1>1. {c, d} = {d, c}
  OBVIOUS
<1>2. /\ r.users[c].chips \in Nat /\ r.users[c].front \in Nat /\ r.users[c].back \in Nat
      /\ r.users[d].chips \in Nat /\ r.users[d].front \in Nat /\ r.users[d].back \in Nat
      /\ r.dealer \in Nat
  BY OpponentLemma DEF User
<1>. QED
  BY <1>1, <1>2 DEF Table, Wealth, Pot

-------------------------------------------------------------------------------
(* What the updates of one User object leave in its fields.                *)

LEMMA NewUserFields ==
    /\ NewUser \in User
    /\ NewUser.chips = 0 /\ NewUser.front = 0 /\ NewUser.back = 0
    /\ NewUser.bet = "NONE" /\ NewUser.ready = FALSE
  BY FacesAssumption DEF NewUser, User, NoCard, Card, BetType

LEMMA FreshFields ==
    ASSUME NEW ready \in BOOLEAN
    PROVE  /\ Fresh(ready) \in User
           /\ Fresh(ready).chips = DEFAULT_CHIPS
           /\ Fresh(ready).front = 0 /\ Fresh(ready).back = 0
           /\ Fresh(ready).bet = "NONE" /\ Fresh(ready).ready = ready
<1>. DEFINE rich == [NewUser EXCEPT !.chips = DEFAULT_CHIPS]
<1>1. /\ rich \in User /\ rich.chips = DEFAULT_CHIPS
      /\ rich.front = 0 /\ rich.back = 0 /\ rich.bet = "NONE"
  BY NewUserFields, ChipsAssumption DEF User
<1>2. Fresh(ready) = [rich EXCEPT !.ready = ready]
  BY Zenon DEF Fresh
<1>. HIDE DEF rich
<1>. QED
  BY <1>1, <1>2 DEF User

LEMMA AnteFields ==
    ASSUME NEW u \in User, NEW amount \in Nat, u.chips >= amount
    PROVE  /\ Ante(u, amount) \in User
           /\ Ante(u, amount).chips = u.chips - amount
           /\ Ante(u, amount).front = u.front /\ Ante(u, amount).back = u.back
           /\ Ante(u, amount).bet = "NONE"
           /\ Ante(u, amount).card = u.card /\ Ante(u, amount).ready = u.ready
<1>. DEFINE poorer == [u EXCEPT !.chips = u.chips - amount]
<1>1. /\ poorer \in User /\ poorer.chips = u.chips - amount
      /\ poorer.front = u.front /\ poorer.back = u.back /\ poorer.card = u.card
      /\ poorer.ready = u.ready
  BY DEF User
<1>2. Ante(u, amount) = [poorer EXCEPT !.bet = "NONE"]
  BY Zenon DEF Ante
<1>. HIDE DEF poorer
<1>. QED
  BY <1>1, <1>2 DEF User, BetType

\* What a bet adds to the stakes is what it takes from the stack.
LEMMA StakedFields ==
    ASSUME NEW u \in User, NEW count \in Nat, NEW side \in ChipBet,
           Cost(count, side) <= u.chips
    PROVE  /\ Staked(u, count, side) \in User
           /\ Staked(u, count, side).chips = u.chips - Cost(count, side)
           /\ Staked(u, count, side).front + Staked(u, count, side).back
                  = u.front + u.back + Cost(count, side)
           /\ Staked(u, count, side).bet = side
           /\ Staked(u, count, side).front
                  = IF side \in {"FRONT", "BOTH"} THEN u.front + count ELSE u.front
           /\ Staked(u, count, side).back
                  = IF side \in {"BACK", "BOTH"} THEN u.back + count ELSE u.back
           /\ Staked(u, count, side).card = u.card
           /\ Staked(u, count, side).ready = u.ready
<1>. DEFINE cost  == Cost(count, side)
            f     == IF side \in {"FRONT", "BOTH"} THEN u.front + count ELSE u.front
            b     == IF side \in {"BACK", "BOTH"} THEN u.back + count ELSE u.back
            less  == [u EXCEPT !.chips = u.chips - cost]
            sided == [less EXCEPT !.bet = side]
            front == [sided EXCEPT !.front = f]
            after == [front EXCEPT !.back = b]
<1>1. /\ cost \in Nat /\ cost <= u.chips /\ f \in Nat /\ b \in Nat
      /\ f + b = u.front + u.back + cost /\ u.chips \in Nat
  BY DEF Cost, User, ChipBet
<1>2. Staked(u, count, side) = after
  BY Zenon DEF Staked
<1>. HIDE DEF cost, f, b
<1>3. /\ less \in User /\ less.chips = u.chips - cost /\ less.card = u.card
      /\ less.front = u.front /\ less.back = u.back /\ less.ready = u.ready
  BY <1>1 DEF User
<1>. HIDE DEF less
<1>4. /\ sided \in User /\ sided.chips = u.chips - cost /\ sided.card = u.card
      /\ sided.front = u.front /\ sided.back = u.back /\ sided.ready = u.ready /\ sided.bet = side
  BY <1>3 DEF User, BetType
<1>. HIDE DEF sided
<1>5. /\ front \in User /\ front.chips = u.chips - cost /\ front.card = u.card
      /\ front.front = f /\ front.back = u.back /\ front.ready = u.ready /\ front.bet = side
  BY <1>1, <1>4 DEF User
<1>. HIDE DEF front
<1>6. /\ after \in User /\ after.chips = u.chips - cost /\ after.card = u.card
      /\ after.front = f /\ after.back = b /\ after.ready = u.ready /\ after.bet = side
  BY <1>1, <1>5 DEF User
<1>. HIDE DEF after
<1>. QED
  BY <1>1, <1>2, <1>6 DEF cost, f, b

LEMMA PaidFields ==
    ASSUME NEW u \in User, NEW chips \in Nat
    PROVE  /\ Paid(u, chips) \in User
           /\ Paid(u, chips).chips = chips
           /\ Paid(u, chips).front = 0 /\ Paid(u, chips).back = 0
           /\ Paid(u, chips).bet = u.bet /\ Paid(u, chips).ready = u.ready
           /\ Paid(u, chips).card = u.card
<1>. DEFINE paid  == [u EXCEPT !.chips = chips]
            front == [paid EXCEPT !.front = 0]
            after == [front EXCEPT !.back = 0]
<1>1. Paid(u, chips) = after
  BY Zenon DEF Paid
<1>2. paid \in User /\ paid.chips = chips /\ paid.bet = u.bet
      /\ paid.ready = u.ready /\ paid.card = u.card
  BY DEF User
<1>. HIDE DEF paid
<1>3. /\ front \in User /\ front.chips = chips /\ front.front = 0
      /\ front.bet = u.bet /\ front.ready = u.ready /\ front.card = u.card
  BY <1>2 DEF User
<1>. HIDE DEF front
<1>4. /\ after \in User /\ after.chips = chips /\ after.front = 0 /\ after.back = 0
      /\ after.bet = u.bet /\ after.ready = u.ready /\ after.card = u.card
  BY <1>3 DEF User
<1>. HIDE DEF after
<1>. QED
  BY <1>1, <1>4
-------------------------------------------------------------------------------
(* One lemma per operation: the room it leaves is a table again, and its    *)
(* wealth is what it was.                                                   *)

\* How the lemmas below see a room.
LEMMA MakeTable ==
    ASSUME NEW c, NEW d, c # d, NEW u \in [{c, d} -> User], NEW n \in Nat
    PROVE  /\ Table([users |-> u, dealer |-> n], c, d)
           /\ Wealth([users |-> u, dealer |-> n], c, d) =
                  u[c].chips + u[d].chips + n + Pot(u[c], u[d])
  BY DEF Table, Wealth

\* A new match: both stacks are the initial ones and nothing else is there.
LEMMA ResetAllUsersTable ==
    ASSUME NEW r, NEW c, NEW d, Table(r, c, d)
    PROVE  /\ Table(ResetAllUsers(r), c, d)
           /\ Wealth(ResetAllUsers(r), c, d) = 2 * DEFAULT_CHIPS
<1>0. /\ Members(r) = {c, d} /\ Opponent(r, c) = d /\ Opponent(r, d) = c /\ c # d
      /\ r.users[c] \in User /\ r.users[d] \in User /\ r.dealer \in Nat
  BY OpponentLemma
<1>. DEFINE u == [m \in {c, d} |-> Fresh(r.users[m].ready)]
<1>1. ResetAllUsers(r) = [users |-> u, dealer |-> 0]
  BY <1>0 DEF ResetAllUsers
<1>2. \A m \in {c, d} : r.users[m].ready \in BOOLEAN
  BY <1>0 DEF User
<1>3. \A m \in {c, d} : /\ u[m] \in User /\ u[m].chips = DEFAULT_CHIPS
                        /\ u[m].front = 0 /\ u[m].back = 0
  BY <1>2, FreshFields
<1>4. u \in [{c, d} -> User]
  BY <1>3
<1>. HIDE DEF u
<1>5. u[c].chips + u[d].chips + 0 + Pot(u[c], u[d]) = 2 * DEFAULT_CHIPS
  BY <1>3, ChipsAssumption DEF Pot
<1>. QED
  BY <1>1, <1>4, <1>5, <1>0, MakeTable

\* The antes go from the stacks to the table.
LEMMA CollectBasicBetTable ==
    ASSUME NEW r, NEW c, NEW d, Table(r, c, d), NEW amount \in Nat
    PROVE  /\ Table(CollectBasicBet(r, amount), c, d)
           /\ Wealth(CollectBasicBet(r, amount), c, d) = Wealth(r, c, d)
<1>0. /\ Members(r) = {c, d} /\ Opponent(r, c) = d /\ Opponent(r, d) = c /\ c # d
      /\ r.users[c] \in User /\ r.users[d] \in User /\ r.dealer \in Nat
  BY OpponentLemma
<1>1. CASE ~ CanCollect(r, amount)
  BY <1>1 DEF CollectBasicBet
<1>2. CASE CanCollect(r, amount)
  <2>. DEFINE u == [m \in {c, d} |-> Ante(r.users[m], amount)]
              n == r.dealer + 2 * amount
  <2>1. CollectBasicBet(r, amount) = [users |-> u, dealer |-> n]
    BY <1>2, <1>0 DEF CollectBasicBet
  <2>2. \A m \in {c, d} : r.users[m] \in User /\ r.users[m].chips >= amount
    BY <1>2, <1>0 DEF CanCollect
  <2>3. \A m \in {c, d} : /\ u[m] \in User /\ u[m].chips = r.users[m].chips - amount
                          /\ u[m].front = r.users[m].front
                          /\ u[m].back = r.users[m].back
    BY <2>2, AnteFields
  <2>4. u \in [{c, d} -> User] /\ n \in Nat
    BY <2>3, <1>0
  <2>. HIDE DEF u
  <2>5. u[c].chips + u[d].chips + n + Pot(u[c], u[d]) = Wealth(r, c, d)
    BY <2>2, <2>3, <1>0 DEF Wealth, Pot, User
  <2>. HIDE DEF n
  <2>. QED
    BY <2>1, <2>4, <2>5, <1>0, MakeTable
<1>. QED
  BY <1>1, <1>2

LEMMA UpdateCardsTable ==
    ASSUME NEW r, NEW c, NEW d, Table(r, c, d), NEW a \in {c, d},
           NEW mine \in Card, NEW theirs \in Card
    PROVE  /\ Table(UpdateCards(r, a, mine, theirs), c, d)
           /\ Wealth(UpdateCards(r, a, mine, theirs), c, d) = Wealth(r, c, d)
<1>0. /\ Members(r) = {c, d} /\ Opponent(r, c) = d /\ Opponent(r, d) = c /\ c # d
      /\ r.users[c] \in User /\ r.users[d] \in User /\ r.dealer \in Nat
  BY OpponentLemma
<1>. DEFINE u == [m \in {c, d} |->
                    [r.users[m] EXCEPT !.card = IF m = a THEN mine ELSE theirs]]
<1>1. UpdateCards(r, a, mine, theirs) = [users |-> u, dealer |-> r.dealer]
  BY <1>0 DEF UpdateCards, WithUsers
<1>2. \A m \in {c, d} : /\ u[m] \in User /\ u[m].chips = r.users[m].chips
                        /\ u[m].front = r.users[m].front
                        /\ u[m].back = r.users[m].back
  BY <1>0 DEF User
<1>3. u \in [{c, d} -> User]
  BY <1>2
<1>. HIDE DEF u
<1>4. u[c].chips + u[d].chips + r.dealer + Pot(u[c], u[d]) = Wealth(r, c, d)
  BY <1>0, <1>2 DEF Wealth, Pot, User
<1>. QED
  BY <1>1, <1>3, <1>4, MakeTable, <1>0

\* A bet moves chips from the stack to the sides.
LEMMA BetChipsTable ==
    ASSUME NEW r, NEW c, NEW d, Table(r, c, d),
           NEW count \in Nat, NEW side \in ChipBet,
           Cost(count, side) <= r.users[c].chips
    PROVE  /\ Table(BetChips(r, c, count, side), c, d)
           /\ Wealth(BetChips(r, c, count, side), c, d) = Wealth(r, c, d)
<1>0. /\ Members(r) = {c, d} /\ Opponent(r, c) = d /\ Opponent(r, d) = c /\ c # d
      /\ r.users[c] \in User /\ r.users[d] \in User /\ r.dealer \in Nat
  BY OpponentLemma
<1>. DEFINE u == [m \in {c, d} |-> IF m = c THEN Staked(r.users[m], count, side)
                                           ELSE r.users[m]]
<1>1. BetChips(r, c, count, side) = [users |-> u, dealer |-> r.dealer]
  BY <1>0 DEF BetChips, WithUsers
<1>2. /\ u[c] \in User /\ u[c].chips = r.users[c].chips - Cost(count, side)
      /\ u[c].front + u[c].back
             = r.users[c].front + r.users[c].back + Cost(count, side)
      /\ u[d] = r.users[d] /\ u[d] \in User
  BY StakedFields, <1>0
<1>3. u \in [{c, d} -> User]
  BY <1>2
<1>. HIDE DEF u
<1>4. Cost(count, side) \in Nat
  BY DEF Cost
<1>5. u[c].chips + u[d].chips + r.dealer + Pot(u[c], u[d]) = Wealth(r, c, d)
  <2>1. /\ r.users[c].chips \in Nat /\ r.users[c].front \in Nat /\ r.users[c].back \in Nat
        /\ r.users[d].chips \in Nat /\ r.users[d].front \in Nat /\ r.users[d].back \in Nat
    BY <1>0 DEF User
  <2>2. u[c].front \in Nat /\ u[c].back \in Nat
    BY <1>2 DEF User
  <2>3. PICK cost \in Nat : cost = Cost(count, side)
    BY <1>4
  <2>4. /\ u[c].chips + cost = r.users[c].chips /\ u[d] = r.users[d]
        /\ u[c].front + u[c].back = r.users[c].front + r.users[c].back + cost
    BY <1>2, <2>1, <2>3
  <2>5. u[c].chips \in Nat
    BY <1>2 DEF User
  <2>6. Pot(u[c], u[d]) = Pot(r.users[c], r.users[d]) + cost
    BY <2>1, <2>2, <2>4 DEF Pot
  <2>7. Pot(r.users[c], r.users[d]) \in Nat
    BY <2>1 DEF Pot
  <2>. QED
    BY <1>0, <2>1, <2>4, <2>5, <2>6, <2>7 DEF Wealth
<1>6. /\ Table([users |-> u, dealer |-> r.dealer], c, d)
      /\ Wealth([users |-> u, dealer |-> r.dealer], c, d)
             = u[c].chips + u[d].chips + r.dealer + Pot(u[c], u[d])
  BY <1>0, <1>3, MakeTable
<1>. QED
  BY <1>1, <1>5, <1>6

LEMMA SpecialCaseTable ==
    ASSUME NEW r, NEW c, NEW d, Table(r, c, d)
    PROVE  /\ Table(SpecialCase(r), c, d)
           /\ Wealth(SpecialCase(r), c, d) = Wealth(r, c, d)
<1>0. /\ Members(r) = {c, d} /\ Opponent(r, c) = d /\ Opponent(r, d) = c /\ c # d
      /\ r.users[c] \in User /\ r.users[d] \in User /\ r.dealer \in Nat
  BY OpponentLemma
<1>. DEFINE u == [m \in {c, d} |-> [r.users[m] EXCEPT !.bet = HigherFace(r.users[m].card)]]
<1>1. SpecialCase(r) = [users |-> u, dealer |-> r.dealer]
  BY <1>0 DEF SpecialCase, WithUsers
<1>2. \A m \in {c, d} : /\ u[m] \in User /\ u[m].chips = r.users[m].chips
                        /\ u[m].front = r.users[m].front
                        /\ u[m].back = r.users[m].back
  BY <1>0 DEF User, BetType, ChipBet, HigherFace
<1>3. u \in [{c, d} -> User]
  BY <1>2
<1>. HIDE DEF u
<1>4. u[c].chips + u[d].chips + r.dealer + Pot(u[c], u[d]) = Wealth(r, c, d)
  BY <1>0, <1>2 DEF Wealth, Pot, User
<1>. QED
  BY <1>1, <1>3, <1>4, MakeTable, <1>0

LEMMA ClearBetTypesTable ==
    ASSUME NEW r, NEW c, NEW d, Table(r, c, d)
    PROVE  /\ Table(ClearBetTypes(r), c, d)
           /\ Wealth(ClearBetTypes(r), c, d) = Wealth(r, c, d)
<1>0. /\ Members(r) = {c, d} /\ Opponent(r, c) = d /\ Opponent(r, d) = c /\ c # d
      /\ r.users[c] \in User /\ r.users[d] \in User /\ r.dealer \in Nat
  BY OpponentLemma
<1>. DEFINE u == [m \in {c, d} |-> [r.users[m] EXCEPT !.bet = "NONE"]]
<1>1. ClearBetTypes(r) = [users |-> u, dealer |-> r.dealer]
  BY <1>0 DEF ClearBetTypes, WithUsers
<1>2. \A m \in {c, d} : /\ u[m] \in User /\ u[m].chips = r.users[m].chips
                        /\ u[m].front = r.users[m].front
                        /\ u[m].back = r.users[m].back
  BY <1>0 DEF User, BetType
<1>3. u \in [{c, d} -> User]
  BY <1>2
<1>. HIDE DEF u
<1>4. u[c].chips + u[d].chips + r.dealer + Pot(u[c], u[d]) = Wealth(r, c, d)
  BY <1>0, <1>2 DEF Wealth, Pot, User
<1>. QED
  BY <1>1, <1>3, <1>4, MakeTable, <1>0

\* Whatever the result, a settlement hands out exactly what was staked and on
\* the table, and the both-sides bonus never makes a stack negative.
LEMMA SettleConserves ==
    ASSUME NEW u \in User, NEW v \in User, NEW n \in Nat, NEW result
    PROVE  LET t == Settle(u, v, n, result)
           IN /\ t.current \in Nat /\ t.opponent \in Nat /\ t.dealer \in Nat
              /\ t.current + t.opponent + t.dealer = u.chips + v.chips + n + Pot(u, v)
<1>1. /\ u.chips \in Nat /\ v.chips \in Nat /\ Pot(u, v) \in Nat
      /\ Smaller(BONUS_CHIPS, v.chips) \in 0..v.chips
      /\ Smaller(BONUS_CHIPS, u.chips) \in 0..u.chips
  BY BonusAssumption DEF User, Pot, Smaller
<1>. QED
  BY <1>1 DEF Settle, Totals

LEMMA SettleRoundTable ==
    ASSUME NEW r, NEW c, NEW d, Table(r, c, d), NEW result
    PROVE  /\ Table(SettleRound(r, c, result), c, d)
           /\ Wealth(SettleRound(r, c, result), c, d) = Wealth(r, c, d)
<1>0. /\ Members(r) = {c, d} /\ Opponent(r, c) = d /\ Opponent(r, d) = c /\ c # d
      /\ r.users[c] \in User /\ r.users[d] \in User /\ r.dealer \in Nat
  BY OpponentLemma
<1>. DEFINE t == Settle(r.users[c], r.users[d], r.dealer, result)
            u == [m \in {c, d} |-> Paid(r.users[m], IF m = c THEN t.current
                                                             ELSE t.opponent)]
<1>1. SettleRound(r, c, result) = [users |-> u, dealer |-> t.dealer]
  BY <1>0 DEF SettleRound
<1>2. /\ t.current \in Nat /\ t.opponent \in Nat /\ t.dealer \in Nat
      /\ t.current + t.opponent + t.dealer = Wealth(r, c, d)
  BY SettleConserves, <1>0 DEF Wealth
<1>. HIDE DEF t
<1>3. \A m \in {c, d} : /\ u[m] \in User /\ u[m].front = 0 /\ u[m].back = 0
                        /\ u[m].chips = IF m = c THEN t.current ELSE t.opponent
  <2>. SUFFICES ASSUME NEW m \in {c, d}
                PROVE  /\ u[m] \in User /\ u[m].front = 0 /\ u[m].back = 0
                       /\ u[m].chips = IF m = c THEN t.current ELSE t.opponent
    OBVIOUS
  <2>1. PICK n \in Nat : n = IF m = c THEN t.current ELSE t.opponent
    BY <1>2
  <2>2. u[m] = Paid(r.users[m], n) /\ r.users[m] \in User
    BY <1>0, <2>1
  <2>. QED
    BY <2>1, <2>2, PaidFields
<1>4. u \in [{c, d} -> User]
  BY <1>3
<1>. HIDE DEF u
<1>5. u[c].chips + u[d].chips + t.dealer + Pot(u[c], u[d]) = Wealth(r, c, d)
  BY <1>2, <1>3, <1>0 DEF Pot
<1>6. PICK n \in Nat : n = t.dealer
  BY <1>2
<1>7. /\ Table([users |-> u, dealer |-> n], c, d)
      /\ Wealth([users |-> u, dealer |-> n], c, d) = Wealth(r, c, d)
  BY <1>0, <1>4, <1>5, <1>6, MakeTable
<1>. QED
  BY <1>1, <1>6, <1>7

\* Readiness is no chip.
LEMMA EndCheckTable ==
    ASSUME NEW r, NEW c, NEW d, Table(r, c, d), NEW a \in {c, d}
    PROVE  /\ Table(EndCheck(r, a), c, d)
           /\ Wealth(EndCheck(r, a), c, d) = Wealth(r, c, d)
<1>0. /\ Members(r) = {c, d} /\ Opponent(r, c) = d /\ Opponent(r, d) = c /\ c # d
      /\ r.users[c] \in User /\ r.users[d] \in User /\ r.dealer \in Nat
  BY OpponentLemma
<1>. DEFINE u == [m \in {c, d} |-> [r.users[m] EXCEPT !.ready = FALSE]]
<1>1. EndCheck(r, a) \in {r, [users |-> u, dealer |-> r.dealer]}
  BY <1>0 DEF EndCheck, WithUsers
<1>2. \A m \in {c, d} : /\ u[m] \in User /\ u[m].chips = r.users[m].chips
                        /\ u[m].front = r.users[m].front
                        /\ u[m].back = r.users[m].back
  BY <1>0 DEF User
<1>3. u \in [{c, d} -> User]
  BY <1>2
<1>. HIDE DEF u
<1>4. u[c].chips + u[d].chips + r.dealer + Pot(u[c], u[d]) = Wealth(r, c, d)
  BY <1>0, <1>2 DEF Wealth, Pot, User
<1>. QED
  BY <1>1, <1>3, <1>4, MakeTable, <1>0

LEMMA SetReadyTable ==
    ASSUME NEW r, NEW c, NEW d, Table(r, c, d), NEW a \in {c, d}, NEW ready \in BOOLEAN
    PROVE  /\ Table(SetReady(r, a, ready), c, d)
           /\ Wealth(SetReady(r, a, ready), c, d) = Wealth(r, c, d)
<1>0. /\ Members(r) = {c, d} /\ Opponent(r, c) = d /\ Opponent(r, d) = c /\ c # d
      /\ r.users[c] \in User /\ r.users[d] \in User /\ r.dealer \in Nat
  BY OpponentLemma
<1>. DEFINE u == [m \in {c, d} |-> [r.users[m] EXCEPT !.ready = IF m = a THEN ready ELSE @]]
<1>1. SetReady(r, a, ready) = [users |-> u, dealer |-> r.dealer]
  BY <1>0 DEF SetReady, WithUsers
<1>2. \A m \in {c, d} : /\ u[m] \in User /\ u[m].chips = r.users[m].chips
                        /\ u[m].front = r.users[m].front
                        /\ u[m].back = r.users[m].back
  BY <1>0 DEF User
<1>3. u \in [{c, d} -> User]
  BY <1>2
<1>. HIDE DEF u
<1>4. u[c].chips + u[d].chips + r.dealer + Pot(u[c], u[d]) = Wealth(r, c, d)
  BY <1>0, <1>2 DEF Wealth, Pot, User
<1>. QED
  BY <1>1, <1>3, <1>4, MakeTable, <1>0
-------------------------------------------------------------------------------
(* The match.                                                              *)


MatchInv == TypeOK /\ SeatsTaken /\ ChipsConserved

\* What every step at a table of c and d leaves.
NextOK(c, d) ==
    /\ Table(room', c, d)
    /\ session' \in {Waiting, Betting(c), Betting(d)}
    /\ session' # Waiting => Wealth(room', c, d) = 2 * DEFAULT_CHIPS
    /\ deck' \in SUBSET FullDeck
    /\ DOMAIN view' = {c, d}
    /\ verdict' \in [round: RoundResult \cup {"NONE"}, winner: Client \cup {NoSocket}]

LEMMA SessionFields ==
    ASSUME NEW c \in Client
    PROVE  /\ Waiting.state = "WAITING" /\ Waiting.turn = NoSocket
           /\ Betting(c).state = "BETTING" /\ Betting(c).turn = c
           /\ Waiting \in [state: {"WAITING", "BETTING"}, turn: Client \cup {NoSocket}]
           /\ Betting(c) \in [state: {"WAITING", "BETTING"}, turn: Client \cup {NoSocket}]
           /\ Waiting # Betting(c)
  BY DEF Waiting, Betting

LEMMA NextOKSuffices ==
    ASSUME NEW c \in Client, NEW d \in Client, NextOK(c, d)
    PROVE  MatchInv'
<1>1. /\ Table(room', c, d) /\ Members(room') = {c, d} /\ c # d
      /\ room' \in [users: [{c, d} -> User], dealer: Nat]
  BY OpponentLemma DEF NextOK, Table
<1>2. TypeOK'
  <2>1. {c, d} \in SUBSET Client
    OBVIOUS
  <2>2. \E seated \in SUBSET Client : room' \in [users: [seated -> User], dealer: Nat]
    BY <1>1, <2>1
  <2>3. session' \in [state: {"WAITING", "BETTING"}, turn: Client \cup {NoSocket}]
    BY SessionFields DEF NextOK
  <2>. QED
    BY <1>1, <2>2, <2>3 DEF NextOK, TypeOK
<1>3. SeatsTaken'
  <2>1. Paired(room')
    BY <1>1, TableIsPaired
  <2>. QED
    BY <1>1, <2>1, SessionFields DEF NextOK, SeatsTaken, Playing
<1>4. ChipsConserved'
  <2>1. SUFFICES ASSUME Playing', NEW a \in {c, d}, NEW b \in {c, d}, a # b
                 PROVE  Wealth(room', a, b) = 2 * DEFAULT_CHIPS
    BY <1>1 DEF ChipsConserved, Wealth
  <2>2. Wealth(room', c, d) = 2 * DEFAULT_CHIPS
    BY <2>1, SessionFields DEF NextOK, Playing
  <2>3. Wealth(room', d, c) = Wealth(room', c, d)
    BY <1>1, TableTurns
  <2>. QED
    BY <2>1, <2>2, <2>3
<1>. QED
  BY <1>2, <1>3, <1>4 DEF MatchInv

\* A room with two members is a table seen from either of them.
LEMMA TableOfPair ==
    ASSUME TypeOK, Paired(room), NEW c \in Members(room)
    PROVE  /\ c \in Client
           /\ \E d \in Client : Table(room, c, d)
<1>1. PICK seated \in SUBSET Client : room \in [users: [seated -> User], dealer: Nat]
  BY DEF TypeOK
<1>2. Members(room) = seated /\ IsFiniteSet(seated)
  BY <1>1, ClientAssumption, FS_Subset DEF Members
<1>3. PICK d \in seated : c # d /\ seated = {c, d}
  BY <1>2, PairLemma DEF Paired
<1>. QED
  BY <1>1, <1>2, <1>3 DEF Table
-------------------------------------------------------------------------------
(* The clients are told about the same members.                            *)

LEMMA TellDomains ==
    /\ \A views, r, c : DOMAIN TellChips(views, r, c) = DOMAIN views
    /\ \A views, r : DOMAIN TellDealer(views, r) = DOMAIN views
    /\ \A views, r, c, side : DOMAIN TellBet(views, r, c, side) = DOMAIN views
    /\ \A views, r : DOMAIN TellCards(views, r) = DOMAIN views
    /\ \A views, r : DOMAIN TellBacks(views, r) = DOMAIN views
    /\ \A views, c : DOMAIN TellTurn(views, c) = DOMAIN views
    /\ \A views : DOMAIN TellGameInit(views) = DOMAIN views
  BY DEF TellChips, TellDealer, TellBet, TellCards, TellBacks, TellTurn, TellGameInit

LEMMA TellTotalsDomains ==
    ASSUME NEW views, NEW before, NEW after, NEW c
    PROVE  /\ DOMAIN TellBasicBet(views, before, after, c) = DOMAIN views
           /\ DOMAIN TellSettlement(views, before, after, c) = DOMAIN views
<1>. DEFINE d  == Opponent(after, c)
            w1 == TellChips(views, after, c)
            w2 == TellChips(w1, after, d)
            v1 == IF after.dealer # before.dealer THEN TellDealer(views, after) ELSE views
            v2 == IF after.users[c].chips # before.users[c].chips
                  THEN TellChips(v1, after, c) ELSE v1
<1>1. TellBasicBet(views, before, after, c) \in {views, TellDealer(w2, after)}
  BY Zenon DEF TellBasicBet
<1>2. TellSettlement(views, before, after, c) \in {v2, TellChips(v2, after, d)}
  BY Zenon DEF TellSettlement
<1>3. v1 \in {views, TellDealer(views, after)} /\ v2 \in {v1, TellChips(v1, after, c)}
  BY Zenon
<1>4. DOMAIN w1 = DOMAIN views
  BY TellDomains
<1>. HIDE DEF w1, v1, v2
<1>5. DOMAIN w2 = DOMAIN views
  BY <1>4, TellDomains
<1>. HIDE DEF w2
<1>6. DOMAIN TellBasicBet(views, before, after, c) = DOMAIN views
  BY <1>1, <1>5, TellDomains
<1>7. DOMAIN v2 = DOMAIN views
  BY <1>3, TellDomains
<1>8. DOMAIN TellSettlement(views, before, after, c) = DOMAIN views
  BY <1>2, <1>7, TellDomains
<1>. QED
  BY <1>6, <1>8
-------------------------------------------------------------------------------
(* The parts of a round.                                                   *)

LEMMA DealtCards ==
    ASSUME NEW cards \in SUBSET FullDeck, NEW card \in Supply(cards)
    PROVE  card \in Card /\ DealCard(cards, card) \in SUBSET FullDeck
<1>1. Supply(cards) \in SUBSET FullDeck
  BY DEF Supply
<1>2. FullDeck \subseteq Card
  BY FacesAssumption DEF FullDeck, Card
<1>. QED
  BY <1>1, <1>2 DEF DealCard

LEMMA FinishGameOK ==
    ASSUME NEW c \in Client, NEW d \in Client, NEW final, NEW result \in RoundResult,
           Table(final, c, d), FinishGame(c, final, result), deck' \in SUBSET FullDeck
    PROVE  NextOK(c, d)
<1>1. Members(final) = {c, d} /\ Opponent(final, c) = d
  BY OpponentLemma
<1>2. Table(room', c, d)
  BY EndCheckTable DEF FinishGame
<1>3. DOMAIN view' = {c, d}
  BY <1>1 DEF FinishGame, Blank
<1>4. verdict' \in [round: RoundResult \cup {"NONE"}, winner: Client \cup {NoSocket}]
  BY <1>1 DEF FinishGame, Verdict
<1>. QED
  BY <1>2, <1>3, <1>4 DEF FinishGame, NextOK

LEMMA PrepareNextRoundOK ==
    ASSUME NEW c \in Client, NEW d \in Client, NEW settled, NEW views,
           NEW result \in RoundResult, deck \in SUBSET FullDeck,
           Table(settled, c, d), Wealth(settled, c, d) = 2 * DEFAULT_CHIPS,
           DOMAIN views = {c, d},
           PrepareNextRound(c, settled, views, result)
    PROVE  NextOK(c, d)
<1>. DEFINE staked == IF result = "DRAW" THEN settled ELSE CollectBasicBet(settled, 1)
            told   == IF result = "DRAW" THEN views
                      ELSE TellBasicBet(views, settled, staked, c)
<1>1. Table(staked, c, d) /\ Wealth(staked, c, d) = 2 * DEFAULT_CHIPS
  BY CollectBasicBetTable
<1>2. DOMAIN told = {c, d}
  BY TellTotalsDomains
<1>3. Opponent(settled, c) = d
  BY OpponentLemma
<1>. HIDE DEF staked, told
<1>. DEFINE Ends(dealt) == FinishGame(c, dealt, result)
            GoesOn(dealt) == /\ room' = dealt
                             /\ session' = Betting(d)
                             /\ view' = TellTurn(TellGameInit(TellCards(told, dealt)), d)
                             /\ verdict' = Verdict(result, NoSocket)
<1>4. PICK mine \in Supply(deck) : \E theirs \in Supply(DealCard(deck, mine)) :
        /\ deck' = DealCard(DealCard(deck, mine), theirs)
        /\ \/ Ends(UpdateCards(staked, c, mine, theirs))
           \/ GoesOn(UpdateCards(staked, c, mine, theirs))
  BY <1>3 DEF PrepareNextRound, staked, told
<1>5. PICK theirs \in Supply(DealCard(deck, mine)) :
        /\ deck' = DealCard(DealCard(deck, mine), theirs)
        /\ \/ Ends(UpdateCards(staked, c, mine, theirs))
           \/ GoesOn(UpdateCards(staked, c, mine, theirs))
  BY <1>4
<1>. DEFINE dealt == UpdateCards(staked, c, mine, theirs)
<1>6. mine \in Card /\ theirs \in Card /\ deck' \in SUBSET FullDeck
  BY <1>5, DealtCards
<1>7. Table(dealt, c, d) /\ Wealth(dealt, c, d) = 2 * DEFAULT_CHIPS
  BY <1>1, <1>6, UpdateCardsTable
<1>8. Ends(dealt) \/ GoesOn(dealt)
  BY <1>5
<1>. HIDE DEF dealt
<1>9. CASE Ends(dealt)
  BY <1>6, <1>7, <1>9, FinishGameOK
<1>10. CASE GoesOn(dealt)
  <2>1. DOMAIN TellCards(told, dealt) = {c, d}
    BY <1>2, TellDomains
  <2>2. DOMAIN TellGameInit(TellCards(told, dealt)) = {c, d}
    BY <2>1, TellDomains
  <2>3. DOMAIN view' = {c, d}
    BY <1>10, <2>2, TellDomains
  <2>4. verdict' \in [round: RoundResult \cup {"NONE"}, winner: Client \cup {NoSocket}]
    BY <1>10 DEF Verdict
  <2>. QED
    BY <1>6, <1>7, <1>10, <2>3, <2>4 DEF NextOK
<1>. QED
  BY <1>8, <1>9, <1>10

LEMMA CloseRoundOK ==
    ASSUME NEW c \in Client, NEW d \in Client, NEW open, NEW views,
           NEW result \in RoundResult, deck \in SUBSET FullDeck,
           Table(open, c, d), Wealth(open, c, d) = 2 * DEFAULT_CHIPS,
           DOMAIN views = {c, d},
           CloseRound(c, open, views, result)
    PROVE  NextOK(c, d)
<1>. DEFINE settled == SettleRound(open, c, result)
            told    == TellSettlement(views, open, settled, c)
<1>1. Table(settled, c, d) /\ Wealth(settled, c, d) = 2 * DEFAULT_CHIPS
  BY SettleRoundTable
<1>2. DOMAIN told = {c, d}
  BY TellTotalsDomains
<1>3. \/ FinishGame(c, settled, result) /\ UNCHANGED deck
      \/ PrepareNextRound(c, EndCheck(settled, c), told, result)
  BY DEF CloseRound
<1>. HIDE DEF settled, told
<1>4. CASE FinishGame(c, settled, result) /\ UNCHANGED deck
  BY <1>1, <1>4, FinishGameOK
<1>5. CASE PrepareNextRound(c, EndCheck(settled, c), told, result)
  <2>1. /\ Table(EndCheck(settled, c), c, d)
        /\ Wealth(EndCheck(settled, c), c, d) = 2 * DEFAULT_CHIPS
    BY <1>1, EndCheckTable
  <2>. QED
    BY <1>2, <1>5, <2>1, PrepareNextRoundOK
<1>. QED
  BY <1>3, <1>4, <1>5

LEMMA ResolveType ==
    ASSUME NEW u, NEW v
    PROVE  Resolve(u, v) \in RoundResult
  BY DEF Resolve, RoundResult

LEMMA ShowdownOK ==
    ASSUME NEW c \in Client, NEW d \in Client, NEW open, NEW views,
           deck \in SUBSET FullDeck, session = Betting(c),
           Table(open, c, d), Wealth(open, c, d) = 2 * DEFAULT_CHIPS,
           DOMAIN views = {c, d},
           Showdown(c, open, views)
    PROVE  NextOK(c, d)
<1>. DEFINE result == CompareCard(open, c)
            shown  == TellBacks(views, open)
<1>1. result \in RoundResult
  BY ResolveType DEF CompareCard
<1>2. DOMAIN shown = {c, d}
  BY TellDomains
<1>3. \/ /\ room' = open /\ view' = shown
         /\ verdict' = Verdict(result, NoSocket)
         /\ UNCHANGED <<session, deck>>
      \/ CloseRound(c, ClearBetTypes(open), shown, result)
  BY DEF Showdown
<1>. HIDE DEF result, shown
<1>4. CASE /\ room' = open /\ view' = shown
           /\ verdict' = Verdict(result, NoSocket)
           /\ UNCHANGED <<session, deck>>
  BY <1>1, <1>2, <1>4 DEF NextOK, Verdict
<1>5. CASE CloseRound(c, ClearBetTypes(open), shown, result)
  BY <1>1, <1>2, <1>5, ClearBetTypesTable, CloseRoundOK
<1>. QED
  BY <1>3, <1>4, <1>5
-------------------------------------------------------------------------------
(* The actions.                                                            *)

\* What the guards of a betting message give: a table with all its chips.
LEMMA TurnTable ==
    ASSUME MatchInv, NEW c \in Client, HasTurn(c)
    PROVE  /\ session = Betting(c)
           /\ deck \in SUBSET FullDeck
           /\ \E d \in Client : /\ Table(room, c, d)
                                /\ Wealth(room, c, d) = 2 * DEFAULT_CHIPS
                                /\ DOMAIN view = {c, d}
<1>1. Playing /\ session = Betting(c) /\ deck \in SUBSET FullDeck
  BY DEF MatchInv, TypeOK, HasTurn, Playing, Betting
<1>2. Paired(room) /\ c \in Members(room)
  BY <1>1, SessionFields DEF MatchInv, SeatsTaken
<1>3. PICK d \in Client : Table(room, c, d)
  BY <1>2, TableOfPair DEF MatchInv
<1>4. Members(room) = {c, d} /\ c # d
  BY <1>3, OpponentLemma
<1>5. Wealth(room, c, d) = 2 * DEFAULT_CHIPS
  BY <1>1, <1>4 DEF MatchInv, ChipsConserved, Wealth
<1>6. DOMAIN view = {c, d}
  BY <1>4 DEF MatchInv, TypeOK
<1>. QED
  BY <1>1, <1>3, <1>5, <1>6

\* A bet that is not refused is made of chips the player has.
LEMMA AcceptedBet ==
    ASSUME NEW r, NEW c, NEW d, Table(r, c, d), NEW count \in Int, NEW side \in ChipBet,
           BetChipsResult(r, c, count, side) # "IMPOSSIBLE"
    PROVE  count \in Nat /\ Cost(count, side) <= r.users[c].chips
<1>1. r.users[c].chips \in Nat
  BY OpponentLemma DEF User
<1>2. Cost(count, side) > 0 /\ r.users[c].chips >= Cost(count, side)
  BY DEF BetChipsResult, CanDeduct
<1>. QED
  BY <1>1, <1>2 DEF Cost

LEMMA RaiseInv ==
    ASSUME MatchInv, NEW c \in Client, NEW count \in Counts, NEW side \in ChipBet,
           Raise(c, count, side)
    PROVE  MatchInv'
<1>1. PICK d \in Client : /\ Table(room, c, d) /\ Wealth(room, c, d) = 2 * DEFAULT_CHIPS
                          /\ DOMAIN view = {c, d} /\ deck \in SUBSET FullDeck
  BY TurnTable DEF Raise
<1>2. count \in Nat /\ Cost(count, side) <= room.users[c].chips
  BY <1>1, CountsAssumption, AcceptedBet DEF Raise
<1>3. Table(room', c, d) /\ Wealth(room', c, d) = 2 * DEFAULT_CHIPS
  BY <1>1, <1>2, BetChipsTable DEF Raise
<1>4. Opponent(room, c) = d
  BY <1>1, OpponentLemma
<1>5. DOMAIN view' = {c, d}
  <2>1. DOMAIN TellChips(view, room', c) = {c, d}
    BY <1>1, TellDomains
  <2>2. DOMAIN TellBet(TellChips(view, room', c), room', c, side) = {c, d}
    BY <2>1, TellDomains
  <2>3. view' = TellTurn(TellBet(TellChips(view, room', c), room', c, side), d)
    BY <1>4 DEF Raise
  <2>. QED
    BY <2>2, <2>3, TellDomains
<1>6. NextOK(c, d)
  BY <1>1, <1>3, <1>4, <1>5 DEF Raise, NextOK, NoVerdict, Verdict
<1>. QED
  BY <1>6, NextOKSuffices

LEMMA CallInv ==
    ASSUME MatchInv, NEW c \in Client, NEW count \in Counts, NEW side \in ChipBet,
           Call(c, count, side)
    PROVE  MatchInv'
<1>. DEFINE matched == BetChips(room, c, count, side)
            told    == TellBet(TellChips(view, matched, c), matched, c, side)
<1>1. PICK d \in Client : /\ Table(room, c, d) /\ Wealth(room, c, d) = 2 * DEFAULT_CHIPS
                          /\ DOMAIN view = {c, d} /\ deck \in SUBSET FullDeck
                          /\ session = Betting(c)
  BY TurnTable DEF Call
<1>2. count \in Nat /\ Cost(count, side) <= room.users[c].chips
  BY <1>1, CountsAssumption, AcceptedBet DEF Call
<1>3. Table(matched, c, d) /\ Wealth(matched, c, d) = 2 * DEFAULT_CHIPS
  BY <1>1, <1>2, BetChipsTable
<1>4. DOMAIN told = {c, d}
  <2>1. DOMAIN TellChips(view, matched, c) = {c, d}
    BY <1>1, TellDomains
  <2>. QED
    BY <2>1, TellDomains
<1>5. Showdown(c, matched, told)
  BY DEF Call
<1>. HIDE DEF matched, told
<1>6. NextOK(c, d)
  BY <1>1, <1>3, <1>4, <1>5, ShowdownOK
<1>. QED
  BY <1>6, NextOKSuffices

LEMMA FoldInv ==
    ASSUME MatchInv, NEW c \in Client, Fold(c)
    PROVE  MatchInv'
<1>1. PICK d \in Client : /\ Table(room, c, d) /\ Wealth(room, c, d) = 2 * DEFAULT_CHIPS
                          /\ DOMAIN view = {c, d} /\ deck \in SUBSET FullDeck
  BY TurnTable DEF Fold
<1>2. NextOK(c, d)
  BY <1>1, CloseRoundOK DEF Fold, RoundResult
<1>. QED
  BY <1>2, NextOKSuffices

LEMMA SpecialInv ==
    ASSUME MatchInv, NEW c \in Client, Special(c)
    PROVE  MatchInv'
<1>1. PICK d \in Client : /\ Table(room, c, d) /\ Wealth(room, c, d) = 2 * DEFAULT_CHIPS
                          /\ DOMAIN view = {c, d} /\ deck \in SUBSET FullDeck
                          /\ session = Betting(c)
  BY TurnTable DEF Special
<1>2. /\ Table(SpecialCase(room), c, d)
      /\ Wealth(SpecialCase(room), c, d) = 2 * DEFAULT_CHIPS
  BY <1>1, SpecialCaseTable
<1>3. NextOK(c, d)
  BY <1>1, <1>2, ShowdownOK DEF Special
<1>. QED
  BY <1>3, NextOKSuffices

LEMMA HandleGameStartInv ==
    ASSUME MatchInv, NEW c \in Client, HandleGameStart(c)
    PROVE  MatchInv'
<1>. DEFINE fresh  == ResetAllUsers(room)
            staked == CollectBasicBet(fresh, 1)
            turned == TellTurn(TellGameInit(Blank(Members(room))), c)
            told   == TellBasicBet(turned, fresh, staked, c)
<1>1. PICK d \in Client : Table(room, c, d)
  BY TableOfPair DEF MatchInv, HandleGameStart, AllUserStartReadyState
<1>2. Table(fresh, c, d) /\ Wealth(fresh, c, d) = 2 * DEFAULT_CHIPS
  BY <1>1, ResetAllUsersTable
<1>3. DOMAIN turned = {c, d}
  <2>1. DOMAIN Blank(Members(room)) = {c, d}
    BY <1>1, OpponentLemma DEF Blank
  <2>2. DOMAIN TellGameInit(Blank(Members(room))) = {c, d}
    BY <2>1, TellDomains
  <2>. QED
    BY <2>2, TellDomains
<1>4. /\ session' = Betting(c) /\ verdict' = NoVerdict
      /\ \E mine \in Supply(deck) : \E theirs \in Supply(DealCard(deck, mine)) :
            /\ deck' = DealCard(DealCard(deck, mine), theirs)
            /\ room' = UpdateCards(staked, c, mine, theirs)
            /\ view' = TellCards(told, room')
  BY DEF HandleGameStart
<1>5. deck \in SUBSET FullDeck
  BY DEF MatchInv, TypeOK
<1>. HIDE DEF fresh, turned
<1>6. Table(staked, c, d) /\ Wealth(staked, c, d) = 2 * DEFAULT_CHIPS
  BY <1>2, CollectBasicBetTable
<1>7. DOMAIN told = {c, d}
  BY <1>3, TellTotalsDomains
<1>. HIDE DEF staked, told
<1>8. PICK mine \in Supply(deck) : \E theirs \in Supply(DealCard(deck, mine)) :
            /\ deck' = DealCard(DealCard(deck, mine), theirs)
            /\ room' = UpdateCards(staked, c, mine, theirs)
            /\ view' = TellCards(told, room')
  BY <1>4
<1>9. PICK theirs \in Supply(DealCard(deck, mine)) :
            /\ deck' = DealCard(DealCard(deck, mine), theirs)
            /\ room' = UpdateCards(staked, c, mine, theirs)
            /\ view' = TellCards(told, room')
  BY <1>8
<1>10. mine \in Card /\ theirs \in Card /\ deck' \in SUBSET FullDeck
  BY <1>5, <1>9, DealtCards
<1>11. Table(room', c, d) /\ Wealth(room', c, d) = 2 * DEFAULT_CHIPS
  BY <1>6, <1>9, <1>10, UpdateCardsTable
<1>12. DOMAIN view' = {c, d}
  BY <1>7, <1>9, TellDomains
<1>13. NextOK(c, d)
  BY <1>4, <1>10, <1>11, <1>12 DEF NextOK, NoVerdict, Verdict
<1>. QED
  BY <1>13, NextOKSuffices

\* A join finds a free seat, so no match is running.
LEMMA JoinInv ==
    ASSUME MatchInv, NEW c \in Client, Join(c)
    PROVE  MatchInv'
<1>1. PICK seated \in SUBSET Client : room \in [users: [seated -> User], dealer: Nat]
  BY DEF MatchInv, TypeOK
<1>2. Members(room) = seated /\ IsFiniteSet(seated)
  BY <1>1, ClientAssumption, FS_Subset DEF Members
<1>3. ~ Playing /\ session = Waiting
  <2>1. Cardinality(seated) \in Nat /\ Cardinality(seated) < 2
    BY <1>2, ChipsAssumption, FS_CardinalityType DEF Join, CanAdd
  <2>2. ~ Playing
    BY <1>2, <2>1 DEF MatchInv, SeatsTaken, Paired
  <2>. QED
    BY <2>2 DEF MatchInv, TypeOK, SeatsTaken, Playing, Waiting
<1>4. room' \in [users: [seated \cup {c} -> User], dealer: Nat]
  BY <1>1, <1>2, NewUserFields DEF Join, AddUser, WithUsers
<1>5. seated \cup {c} \in SUBSET Client /\ Members(room') = seated \cup {c}
  BY <1>1, <1>4 DEF Members
<1>6. TypeOK'
  BY <1>4, <1>5 DEF MatchInv, TypeOK, Join, Blank
<1>7. SeatsTaken' /\ ChipsConserved'
  BY <1>3, SessionFields DEF Join, SeatsTaken, ChipsConserved, Playing, Waiting
<1>. QED
  BY <1>6, <1>7 DEF MatchInv

LEMMA HandlePlayerExitInv ==
    ASSUME MatchInv, NEW c \in Client, HandlePlayerExit(c)
    PROVE  MatchInv'
<1>1. PICK seated \in SUBSET Client : room \in [users: [seated -> User], dealer: Nat]
  BY DEF MatchInv, TypeOK
<1>2. Members(room) = seated
  BY <1>1 DEF Members
<1>3. room' \in [users: [seated \ {c} -> User], dealer: Nat]
  BY <1>2, FreshFields DEF HandlePlayerExit, RemoveUser
<1>4. seated \ {c} \in SUBSET Client /\ Members(room') = seated \ {c}
  BY <1>1, <1>3 DEF Members
<1>5. TypeOK'
  BY <1>3, <1>4, SessionFields
     DEF MatchInv, TypeOK, HandlePlayerExit, Blank, NoVerdict, Verdict, Waiting
<1>6. SeatsTaken' /\ ChipsConserved'
  BY SessionFields DEF HandlePlayerExit, SeatsTaken, ChipsConserved, Playing, Waiting
<1>. QED
  BY <1>5, <1>6 DEF MatchInv

\* A ready toggle may come in the middle of a match.
LEMMA UserReadyInv ==
    ASSUME MatchInv, NEW c \in Client, NEW ready \in BOOLEAN, UserReady(c, ready)
    PROVE  MatchInv'
<1>1. PICK d \in Client : Table(room, c, d)
  BY TableOfPair DEF MatchInv, UserReady
<1>2. Members(room) = {c, d} /\ c # d
  BY <1>1, OpponentLemma
<1>3. Table(room', c, d) /\ Wealth(room', c, d) = Wealth(room, c, d)
  BY <1>1, SetReadyTable DEF UserReady
<1>4. session \in {Waiting, Betting(c), Betting(d)}
  BY <1>2 DEF MatchInv, SeatsTaken, TypeOK, Playing, Waiting, Betting
<1>5. session # Waiting => Wealth(room, c, d) = 2 * DEFAULT_CHIPS
  BY <1>2, <1>4, SessionFields DEF MatchInv, ChipsConserved, Wealth, Playing
<1>6. NextOK(c, d)
  BY <1>2, <1>3, <1>4, <1>5 DEF UserReady, NextOK, MatchInv, TypeOK
<1>. QED
  BY <1>6, NextOKSuffices
-------------------------------------------------------------------------------
LEMMA MatchInvInit == Init => MatchInv
<1>. SUFFICES ASSUME Init PROVE MatchInv
  OBVIOUS
<1>1. room \in [users: [{} -> User], dealer: Nat] /\ Members(room) = {}
  BY DEF Init, EmptyRoom, Members
<1>2. TypeOK
  BY <1>1 DEF Init, TypeOK, Waiting, Blank, NoVerdict, Verdict
<1>. QED
  BY <1>2 DEF MatchInv, Init, SeatsTaken, ChipsConserved, Playing, Waiting

LEMMA MatchInvStep == MatchInv /\ [Next]_vars => MatchInv'
<1>. SUFFICES ASSUME MatchInv, [Next]_vars PROVE MatchInv'
  OBVIOUS
<1>1. ASSUME NEW c \in Client, Join(c) PROVE MatchInv'
  BY <1>1, JoinInv
<1>2. ASSUME NEW c \in Client, HandlePlayerExit(c) PROVE MatchInv'
  BY <1>2, HandlePlayerExitInv
<1>3. ASSUME NEW c \in Client, NEW ready \in BOOLEAN, UserReady(c, ready) PROVE MatchInv'
  BY <1>3, UserReadyInv
<1>4. ASSUME NEW c \in Client, HandleGameStart(c) PROVE MatchInv'
  BY <1>4, HandleGameStartInv
<1>5. ASSUME NEW c \in Client, NEW count \in Counts, NEW side \in ChipBet,
             Raise(c, count, side)
      PROVE  MatchInv'
  BY <1>5, RaiseInv
<1>6. ASSUME NEW c \in Client, NEW count \in Counts, NEW side \in ChipBet,
             Call(c, count, side)
      PROVE  MatchInv'
  BY <1>6, CallInv
<1>7. ASSUME NEW c \in Client, Fold(c) PROVE MatchInv'
  BY <1>7, FoldInv
<1>8. ASSUME NEW c \in Client, Special(c) PROVE MatchInv'
  BY <1>8, SpecialInv
<1>9. CASE UNCHANGED vars
  BY <1>9 DEF vars, MatchInv, TypeOK, SeatsTaken, ChipsConserved, Playing
<1>. QED
  BY <1>1, <1>2, <1>3, <1>4, <1>5, <1>6, <1>7, <1>8, <1>9 DEF Next, Bet

\* The invariant behind the three theorems below.
THEOREM MatchInvariance == Spec => []MatchInv
  BY MatchInvInit, MatchInvStep, PTL DEF Spec

\* Chips and stakes are never negative, in a room of any history.
THEOREM TypeCorrectness == Spec => []TypeOK
  BY MatchInvariance, PTL DEF MatchInv

\* A match runs between two seated members, one of whom has the turn.
THEOREM SeatsStayTaken == Spec => []SeatsTaken
  BY MatchInvariance, PTL DEF MatchInv

\* No sequence of antes, bets, settlements, draws, bonuses and all-ins makes or
\* loses a chip.
THEOREM ChipConservation == Spec => []ChipsConserved
  BY MatchInvariance, PTL DEF MatchInv
===============================================================================
