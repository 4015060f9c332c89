----------------------------- MODULE EscrowProofs -----------------------------
(***************************************************************************)
(* Theorems about Escrow, for any set of users, references and amounts.    *)
(*                                                                         *)
(* The inductive invariant adds to the properties of Escrow what the       *)
(* status of an escrow says about its log (LogMatchesStatus).              *)
(***************************************************************************)
EXTENDS Escrow, TLAPS

(* The log of an escrow is determined, up to times, by its status.          *)
LogMatchesStatus ==
    \A k \in EscrowKeys :
        /\ escrow[k].status \in {"Absent", "Initialized"} => events[k] = << >>
        /\ escrow[k].status \in {"Funded", "Cancelled"} =>
              Len(events[k]) = 1 /\ events[k][1].type = escrow[k].status
        /\ escrow[k].status \in {"Released", "Refunded"} =>
              /\ Len(events[k]) = 2
              /\ events[k][1].type = "Funded"
              /\ events[k][2].type = escrow[k].status

(* The sponsor part of an escrow's address is the recorded sponsor.         *)
AddressOfSponsor ==
    \A k \in EscrowKeys : escrow[k] # Absent =>
        /\ escrow[k].sponsor = k[1]
        /\ escrow[k].contributor \in Owners

EscrowInv == TypeOK /\ VaultSolvent /\ LogMatchesStatus /\ PayoutFollowsTerms
                /\ AddressOfSponsor

-------------------------------------------------------------------------------
(* A token account can be debited below what it holds by nobody, and a      *)
(* transfer only changes the two accounts it names.                         *)
LEMMA TransferEffect ==
    ASSUME TypeOK, NEW from \in Owners, NEW to \in Owners, NEW amount \in Nat,
           Transfer(from, to, amount)
    PROVE  /\ tokens' \in [Owners -> Nat]
           /\ \A o \in Owners : o # from => tokens'[o] >= tokens[o]
           /\ \A o \in Owners : o # from /\ o # to => tokens'[o] = tokens[o]
           /\ from # to => tokens'[from] = tokens[from] - amount
           /\ from # to => tokens'[to] = tokens[to] + amount
           /\ from = to => tokens' = tokens
<1>1. tokens \in [Owners -> Nat] /\ tokens[from] >= amount
  BY DEF Transfer, TypeOK
<1>2. CASE from = to
  <2>1. tokens' = tokens
    BY <1>2 DEF Transfer
  <2>. QED  BY <1>1, <1>2, <2>1
<1>3. CASE from # to
  <2>1. tokens' = [tokens EXCEPT ![from] = @ - amount, ![to] = @ + amount]
    BY <1>3 DEF Transfer
  <2>2. tokens[from] - amount \in Nat /\ tokens[to] + amount \in Nat
    BY <1>1
  <2>. QED  BY <1>1, <1>3, <2>1, <2>2
<1>. QED  BY <1>2, <1>3

LEMMA StatusTyped ==
    ASSUME TypeOK, NEW k \in EscrowKeys, escrow[k] # Absent
    PROVE  /\ escrow[k] \in EscrowAccount
           /\ escrow[k].amount \in Nat /\ escrow[k].expiry \in Nat
           /\ escrow[k].sponsor \in Users /\ escrow[k].status \in Status
BY DEF TypeOK, EscrowAccount

LEMMA SetStatusEffect ==
    ASSUME TypeOK, NEW k \in EscrowKeys, escrow[k] # Absent,
           NEW st \in Status, SetStatus(k, st)
    PROVE  /\ escrow' \in [EscrowKeys -> EscrowAccount \cup {Absent}]
           /\ escrow'[k] = [escrow[k] EXCEPT !.status = st]
           /\ escrow'[k].status = st /\ escrow'[k] # Absent
           /\ escrow'[k].sponsor = escrow[k].sponsor
           /\ escrow'[k].contributor = escrow[k].contributor
           /\ escrow'[k].amount = escrow[k].amount
           /\ escrow'[k].expiry = escrow[k].expiry
           /\ \A j \in EscrowKeys : j # k => escrow'[j] = escrow[j]
<1>1. escrow[k] \in EscrowAccount
  BY StatusTyped
<1>2. escrow' = [escrow EXCEPT ![k].status = st]
  BY DEF SetStatus
<1>3. escrow'[k] = [escrow[k] EXCEPT !.status = st]
  BY <1>2 DEF TypeOK
<1>4. escrow'[k] \in EscrowAccount /\ escrow'[k].status = st
  BY <1>1, <1>3 DEF EscrowAccount
<1>5. escrow'[k] # Absent
  BY <1>4 DEF Absent, Status
<1>. QED  BY <1>1, <1>2, <1>3, <1>4, <1>5 DEF TypeOK, EscrowAccount

LEMMA EmitEffect ==
    ASSUME TypeOK, NEW k \in EscrowKeys,
           NEW type \in {"Funded", "Released", "Refunded", "Cancelled"},
           NEW to \in Owners, NEW amount \in Nat, Emit(k, type, to, amount)
    PROVE  /\ events' \in [EscrowKeys -> Seq(Event)]
           /\ \A j \in EscrowKeys : j # k => events'[j] = events[j]
           /\ Len(events'[k]) = Len(events[k]) + 1
           /\ DOMAIN events'[k] = 1 .. Len(events[k]) + 1
           /\ events'[k][Len(events[k]) + 1] =
                 [type |-> type, to |-> to, amount |-> amount, at |-> now]
           /\ \A i \in 1 .. Len(events[k]) : events'[k][i] = events[k][i]
<1>1. events[k] \in Seq(Event)
  BY DEF TypeOK
<1>2. now \in Nat
  BY EscrowAssumption DEF TypeOK
<1>. DEFINE ev == [type |-> type, to |-> to, amount |-> amount, at |-> now]
<1>3. ev \in Event
  BY <1>2 DEF Event
<1>4. events' = [events EXCEPT ![k] = Append(events[k], ev)]
  BY DEF Emit
<1>5. events'[k] = Append(events[k], ev)
  BY <1>4 DEF TypeOK
<1>6. Append(events[k], ev) \in Seq(Event)
  BY <1>1, <1>3
<1>. HIDE DEF ev
<1>7. /\ Len(events'[k]) = Len(events[k]) + 1
      /\ DOMAIN events'[k] = 1 .. Len(events[k]) + 1
      /\ events'[k][Len(events[k]) + 1] = ev
      /\ \A i \in 1 .. Len(events[k]) : events'[k][i] = events[k][i]
  BY <1>1, <1>3, <1>5
<1>8. /\ events' \in [EscrowKeys -> Seq(Event)]
      /\ \A j \in EscrowKeys : j # k => events'[j] = events[j]
  BY <1>4, <1>6 DEF TypeOK
<1>. QED  BY <1>7, <1>8 DEF ev

(* What every instruction that logs an event does to the invariant, tokens  *)
(* aside: k moves along an edge of the state machine and the logged event   *)
(* follows the terms.                                                       *)
LEMMA LoggedStep ==
    ASSUME EscrowInv, NEW k \in EscrowKeys, escrow[k] # Absent,
           NEW st \in {"Funded", "Released", "Refunded", "Cancelled"},
           NEW to \in Owners, NEW amount \in Nat,
           SetStatus(k, st), Emit(k, st, to, amount),
           escrow[k].status =
               IF st \in {"Funded", "Cancelled"} THEN "Initialized" ELSE "Funded",
           st # "Cancelled" => amount = escrow[k].amount,
           st \in {"Funded", "Released"} => now < escrow[k].expiry,
           st = "Released" => to = escrow[k].contributor,
           st = "Refunded" => to = escrow[k].sponsor /\ now >= escrow[k].expiry
    PROVE  /\ escrow' \in [EscrowKeys -> EscrowAccount \cup {Absent}]
           /\ events' \in [EscrowKeys -> Seq(Event)]
           /\ LogMatchesStatus' /\ PayoutFollowsTerms' /\ AddressOfSponsor'
<1>. DEFINE n == Len(events[k])
<1>1. TypeOK /\ LogMatchesStatus /\ PayoutFollowsTerms /\ AddressOfSponsor
  BY DEF EscrowInv
<1>2. /\ escrow' \in [EscrowKeys -> EscrowAccount \cup {Absent}]
      /\ escrow'[k].status = st /\ escrow'[k] # Absent
      /\ escrow'[k].sponsor = escrow[k].sponsor
      /\ escrow'[k].contributor = escrow[k].contributor
      /\ escrow'[k].amount = escrow[k].amount
      /\ escrow'[k].expiry = escrow[k].expiry
      /\ \A j \in EscrowKeys : j # k => escrow'[j] = escrow[j]
  BY <1>1, SetStatusEffect DEF Status
<1>3. /\ events' \in [EscrowKeys -> Seq(Event)]
      /\ \A j \in EscrowKeys : j # k => events'[j] = events[j]
      /\ Len(events'[k]) = n + 1
      /\ DOMAIN events'[k] = 1 .. n + 1
      /\ events'[k][n + 1].type = st /\ events'[k][n + 1].to = to
      /\ events'[k][n + 1].amount = amount /\ events'[k][n + 1].at = now
      /\ \A i \in 1 .. n : events'[k][i] = events[k][i]
  <2>1. /\ events' \in [EscrowKeys -> Seq(Event)]
        /\ \A j \in EscrowKeys : j # k => events'[j] = events[j]
        /\ Len(events'[k]) = n + 1
        /\ DOMAIN events'[k] = 1 .. n + 1
        /\ events'[k][n + 1] = [type |-> st, to |-> to, amount |-> amount, at |-> now]
        /\ \A i \in 1 .. n : events'[k][i] = events[k][i]
    BY <1>1, EmitEffect
  <2>. QED  BY <2>1
<1>4. n \in Nat /\ DOMAIN events[k] = 1 .. n
  BY <1>1 DEF TypeOK
<1>5. LogMatchesStatus'
  <2>1. CASE st \in {"Funded", "Cancelled"}
    <3>1. n = 0
      BY <1>1, <2>1 DEF LogMatchesStatus
    <3>. QED  BY <1>1, <1>2, <1>3, <2>1, <3>1 DEF LogMatchesStatus
  <2>2. CASE st \in {"Released", "Refunded"}
    <3>1. n = 1 /\ events[k][1].type = "Funded"
      BY <1>1, <2>2 DEF LogMatchesStatus
    <3>. QED  BY <1>1, <1>2, <1>3, <2>2, <3>1 DEF LogMatchesStatus
  <2>. QED  BY <2>1, <2>2
<1>6. PayoutFollowsTerms'
  <2>. SUFFICES ASSUME NEW j \in EscrowKeys, NEW i \in DOMAIN events'[j]
                PROVE  LET ev == events'[j][i]
                       IN  /\ escrow'[j] # Absent
                           /\ ev.type = "Funded" =>
                                 /\ ev.at < escrow'[j].expiry
                                 /\ ev.amount = escrow'[j].amount
                           /\ ev.type = "Released" =>
                                 /\ ev.to = escrow'[j].contributor
                                 /\ ev.at < escrow'[j].expiry
                                 /\ ev.amount = escrow'[j].amount
                           /\ ev.type = "Refunded" =>
                                 /\ ev.to = escrow'[j].sponsor
                                 /\ ev.at >= escrow'[j].expiry
                                 /\ ev.amount = escrow'[j].amount
    BY DEF PayoutFollowsTerms, Exists
  <2>1. CASE j # k
    BY <1>1, <1>2, <1>3, <2>1 DEF PayoutFollowsTerms, Exists
  <2>2. CASE j = k /\ i \in 1 .. n
    BY <1>1, <1>2, <1>3, <1>4, <2>2 DEF PayoutFollowsTerms, Exists
  <2>3. CASE j = k /\ i = n + 1
    BY <1>2, <1>3, <2>3
  <2>. QED  BY <1>3, <1>4, <2>1, <2>2, <2>3
<1>7. AddressOfSponsor'
  BY <1>1, <1>2 DEF AddressOfSponsor
<1>. QED  BY <1>2, <1>3, <1>5, <1>6, <1>7

(* Paying the principal of k out of its vault touches no other vault.       *)
LEMMA PayoutKeepsOthersSolvent ==
    ASSUME EscrowInv, NEW k \in EscrowKeys, escrow[k].status = "Funded",
           NEW to \in Owners, NEW st \in {"Released", "Refunded"},
           SetStatus(k, st), Transfer(k, to, escrow[k].amount)
    PROVE  tokens' \in [Owners -> Nat] /\ VaultSolvent'
<1>1. TypeOK /\ escrow[k] # Absent /\ k \in Owners
  BY DEF EscrowInv, Absent, Owners
<1>2. /\ tokens' \in [Owners -> Nat]
      /\ \A o \in Owners : o # k => tokens'[o] >= tokens[o]
  BY <1>1, StatusTyped, TransferEffect
<1>3. /\ escrow'[k].status = st
      /\ \A j \in EscrowKeys : j # k => escrow'[j] = escrow[j]
  BY <1>1, SetStatusEffect DEF Status
<1>4. ASSUME NEW j \in EscrowKeys, escrow'[j].status = "Funded"
      PROVE  tokens'[j] >= escrow'[j].amount
  <2>1. j # k /\ escrow'[j] = escrow[j] /\ escrow[j] # Absent
    BY <1>3, <1>4 DEF Absent
  <2>2. tokens[j] >= escrow[j].amount /\ escrow[j].amount \in Nat
    BY <1>1, <1>4, <2>1, StatusTyped DEF EscrowInv, VaultSolvent
  <2>3. tokens[j] \in Nat /\ tokens'[j] \in Nat /\ tokens'[j] >= tokens[j]
    BY <1>1, <1>2, <2>1 DEF TypeOK, Owners
  <2>. QED  BY <2>1, <2>2, <2>3
<1>. QED  BY <1>2, <1>4 DEF VaultSolvent

LEMMA InitEstablishes == Init => EscrowInv
<1>. SUFFICES ASSUME Init PROVE EscrowInv
  OBVIOUS
<1>1. TypeOK
  BY EscrowAssumption DEF Init, TypeOK, Owners, Absent
<1>2. VaultSolvent /\ LogMatchesStatus /\ AddressOfSponsor
  BY DEF Init, VaultSolvent, LogMatchesStatus, AddressOfSponsor, Absent
<1>3. PayoutFollowsTerms
  BY DEF Init, PayoutFollowsTerms
<1>. QED  BY <1>1, <1>2, <1>3 DEF EscrowInv

LEMMA NextPreserves == EscrowInv /\ [Next]_vars => EscrowInv'
<1>. SUFFICES ASSUME EscrowInv, [Next]_vars PROVE EscrowInv'
  OBVIOUS
<1>. USE DEF EscrowInv
<1>1. ASSUME NEW s \in Users, NEW r \in Refs, NEW a \in Amounts,
             NEW x \in 0 .. MaxTime, NEW m \in Maintainers, NEW c \in Contributors,
             InitializeEscrow(s, r, a, x, m, c)
      PROVE  EscrowInv'
  <2>. DEFINE k == <<s, r>>
              e == [sponsor |-> s, maintainer |-> m, contributor |-> c,
                    amount |-> a, expiry |-> x, status |-> "Initialized"]
  <2>1. k \in EscrowKeys /\ k[1] = s
    BY DEF EscrowKeys
  <2>2. e \in EscrowAccount
    BY EscrowAssumption DEF EscrowAccount, Status
  <2>3. c \in Owners
    BY <1>1, EscrowAssumption DEF InitializeEscrow, validate_initialization, Keys
  <2>4. e # Absent /\ e.status = "Initialized" /\ e.sponsor = s /\ e.contributor = c
    BY DEF Absent
  <2>5. escrow[k] = Absent /\ escrow' = [escrow EXCEPT ![k] = e]
        /\ UNCHANGED <<now, tokens, events>>
    BY <1>1 DEF InitializeEscrow
  <2>6. events[k] = << >>
    BY <2>1, <2>5 DEF LogMatchesStatus, Absent
  <2>. HIDE DEF k, e
  <2>7. escrow'[k] = e /\ \A j \in EscrowKeys : j # k => escrow'[j] = escrow[j]
    BY <2>1, <2>5 DEF TypeOK
  <2>8. TypeOK'
    BY <2>1, <2>2, <2>5 DEF TypeOK
  <2>9. VaultSolvent' /\ LogMatchesStatus'
    BY <2>4, <2>5, <2>6, <2>7 DEF VaultSolvent, LogMatchesStatus
  <2>10. PayoutFollowsTerms'
    BY <2>4, <2>5, <2>6, <2>7 DEF PayoutFollowsTerms, Exists
  <2>11. AddressOfSponsor'
    BY <2>1, <2>3, <2>4, <2>7 DEF AddressOfSponsor
  <2>. QED  BY <2>8, <2>9, <2>10, <2>11
<1>2. ASSUME NEW k \in EscrowKeys, NEW u \in Users, Cancel(k, u)
      PROVE  EscrowInv'
  <2>1. /\ escrow[k] # Absent /\ escrow[k].status = "Initialized"
        /\ SetStatus(k, "Cancelled") /\ Emit(k, "Cancelled", u, 0)
        /\ UNCHANGED <<now, tokens>>
    BY <1>2 DEF Cancel, can_cancel
  <2>2. u \in Owners
    BY DEF Owners
  <2>3. /\ escrow' \in [EscrowKeys -> EscrowAccount \cup {Absent}]
        /\ events' \in [EscrowKeys -> Seq(Event)]
        /\ LogMatchesStatus' /\ PayoutFollowsTerms' /\ AddressOfSponsor'
    BY <2>1, <2>2, LoggedStep
  <2>4. VaultSolvent'
    BY <2>1, SetStatusEffect DEF VaultSolvent, Status
  <2>. QED  BY <2>1, <2>3, <2>4 DEF TypeOK
<1>3. ASSUME NEW k \in EscrowKeys, NEW u \in Users, FundEscrow(k, u)
      PROVE  EscrowInv'
  <2>1. /\ escrow[k] # Absent /\ escrow[k].status = "Initialized"
        /\ now < escrow[k].expiry /\ Transfer(u, k, escrow[k].amount)
        /\ SetStatus(k, "Funded") /\ Emit(k, "Funded", k, escrow[k].amount)
        /\ UNCHANGED now
    BY <1>3 DEF FundEscrow, can_fund
  <2>2. u \in Owners /\ k \in Owners /\ u # k /\ escrow[k].amount \in Nat
    BY <2>1, StatusTyped, EscrowAssumption DEF Owners
  <2>3. /\ escrow' \in [EscrowKeys -> EscrowAccount \cup {Absent}]
        /\ events' \in [EscrowKeys -> Seq(Event)]
        /\ LogMatchesStatus' /\ PayoutFollowsTerms' /\ AddressOfSponsor'
    BY <2>1, <2>2, LoggedStep
  <2>4. /\ tokens' \in [Owners -> Nat]
        /\ tokens'[k] = tokens[k] + escrow[k].amount
        /\ \A o \in Owners : o # u => tokens'[o] >= tokens[o]
    BY <2>1, <2>2, TransferEffect
  <2>5. /\ escrow'[k].amount = escrow[k].amount
        /\ \A j \in EscrowKeys : j # k => escrow'[j] = escrow[j]
    BY <2>1, SetStatusEffect DEF Status
  <2>6. VaultSolvent'
    <3>. SUFFICES ASSUME NEW j \in EscrowKeys, escrow'[j].status = "Funded"
                  PROVE  tokens'[j] >= escrow'[j].amount
      BY DEF VaultSolvent
    <3>1. j \in Owners /\ j # u /\ tokens[j] \in Nat /\ tokens'[j] \in Nat
      BY <2>4, EscrowAssumption DEF Owners, TypeOK
    <3>2. CASE j = k
      BY <2>2, <2>4, <2>5, <3>1, <3>2
    <3>3. CASE j # k
      <4>1. tokens[j] >= escrow[j].amount /\ escrow[j].amount \in Nat
        <5>1. escrow[j].status = "Funded" /\ escrow[j] # Absent
          BY <2>5, <3>3 DEF Absent
        <5>. QED  BY <5>1, StatusTyped DEF VaultSolvent
      <4>. QED  BY <2>4, <2>5, <3>1, <3>3, <4>1
    <3>. QED  BY <3>2, <3>3
  <2>. QED  BY <2>1, <2>3, <2>4, <2>6 DEF TypeOK
<1>4. ASSUME NEW k \in EscrowKeys, NEW u \in Users, Release(k, u)
      PROVE  EscrowInv'
  <2>. DEFINE c == escrow[k].contributor
  <2>1. /\ escrow[k] # Absent /\ escrow[k].status = "Funded"
        /\ now < escrow[k].expiry /\ Transfer(k, c, escrow[k].amount)
        /\ SetStatus(k, "Released") /\ Emit(k, "Released", c, escrow[k].amount)
        /\ UNCHANGED now
    BY <1>4 DEF Release, can_release
  <2>2. c \in Owners /\ escrow[k].amount \in Nat
    BY <2>1, StatusTyped DEF AddressOfSponsor
  <2>. HIDE DEF c
  <2>3. /\ escrow' \in [EscrowKeys -> EscrowAccount \cup {Absent}]
        /\ events' \in [EscrowKeys -> Seq(Event)]
        /\ LogMatchesStatus' /\ PayoutFollowsTerms' /\ AddressOfSponsor'
    BY <2>1, <2>2, LoggedStep DEF c
  <2>4. tokens' \in [Owners -> Nat] /\ VaultSolvent'
    BY <2>1, <2>2, PayoutKeepsOthersSolvent
  <2>. QED  BY <2>1, <2>3, <2>4 DEF TypeOK
<1>5. ASSUME NEW k \in EscrowKeys, NEW u \in Users, Refund(k, u)
      PROVE  EscrowInv'
  <2>1. /\ escrow[k] # Absent /\ escrow[k].status = "Funded"
        /\ now >= escrow[k].expiry /\ Transfer(k, u, escrow[k].amount)
        /\ SetStatus(k, "Refunded") /\ Emit(k, "Refunded", u, escrow[k].amount)
        /\ u = escrow[k].sponsor /\ UNCHANGED now
    BY <1>5 DEF Refund, can_refund, validate_sponsor
  <2>2. u \in Owners /\ escrow[k].amount \in Nat
    BY <2>1, StatusTyped DEF Owners
  <2>3. /\ escrow' \in [EscrowKeys -> EscrowAccount \cup {Absent}]
        /\ events' \in [EscrowKeys -> Seq(Event)]
        /\ LogMatchesStatus' /\ PayoutFollowsTerms' /\ AddressOfSponsor'
    BY <2>1, <2>2, LoggedStep
  <2>4. tokens' \in [Owners -> Nat] /\ VaultSolvent'
    BY <2>1, <2>2, PayoutKeepsOthersSolvent
  <2>. QED  BY <2>1, <2>3, <2>4 DEF TypeOK
<1>6. ASSUME NEW u \in Users, NEW o \in Owners, NEW a \in Amounts,
             TokenTransfer(u, o, a)
      PROVE  EscrowInv'
  <2>1. u \in Owners /\ a \in Nat /\ Transfer(u, o, a)
        /\ UNCHANGED <<now, escrow, events>>
    BY <1>6, EscrowAssumption DEF TokenTransfer, Owners
  <2>2. /\ tokens' \in [Owners -> Nat]
        /\ \A p \in Owners : p # u => tokens'[p] >= tokens[p]
    BY <2>1, TransferEffect
  <2>3. VaultSolvent'
    <3>. SUFFICES ASSUME NEW j \in EscrowKeys, escrow[j].status = "Funded"
                  PROVE  tokens'[j] >= escrow[j].amount
      BY <2>1 DEF VaultSolvent
    <3>1. j \in Owners /\ j # u /\ escrow[j] # Absent
      BY EscrowAssumption DEF Owners, Absent
    <3>2. /\ tokens[j] \in Nat /\ tokens'[j] \in Nat /\ escrow[j].amount \in Nat
          /\ tokens[j] >= escrow[j].amount
      BY <2>2, <3>1, StatusTyped DEF TypeOK, VaultSolvent
    <3>. QED  BY <2>2, <3>1, <3>2
  <2>4. LogMatchesStatus' /\ PayoutFollowsTerms' /\ AddressOfSponsor'
    BY <2>1 DEF LogMatchesStatus, PayoutFollowsTerms, AddressOfSponsor, Exists
  <2>. QED  BY <2>1, <2>2, <2>3, <2>4 DEF TypeOK
<1>7. CASE Tick
  <2>1. now' \in 0 .. MaxTime
    BY <1>7, EscrowAssumption DEF Tick, TypeOK
  <2>. QED
    BY <1>7, <2>1 DEF Tick, TypeOK, VaultSolvent, LogMatchesStatus,
                      PayoutFollowsTerms, AddressOfSponsor, Exists
<1>8. CASE UNCHANGED vars
  BY <1>8 DEF vars, TypeOK, VaultSolvent, LogMatchesStatus, PayoutFollowsTerms,
              AddressOfSponsor, Exists
<1>. QED  BY <1>1, <1>2, <1>3, <1>4, <1>5, <1>6, <1>7, <1>8 DEF Next

(* EscrowInv holds in every reachable state.                                *)
THEOREM EscrowInvariant == Spec => []EscrowInv
BY InitEstablishes, NextPreserves, PTL DEF Spec

(* Type correctness of the program's state, for any constants.              *)
THEOREM TypeCorrect == Spec => []TypeOK
<1>1. EscrowInv => TypeOK
  BY DEF EscrowInv
<1>. QED  BY <1>1, EscrowInvariant, PTL

(* No sequence of instructions and transfers, of any number of escrows, can *)
(* leave a funded escrow's vault short of its principal.                    *)
THEOREM Solvency == Spec => []VaultSolvent
<1>1. EscrowInv => VaultSolvent
  BY DEF EscrowInv
<1>. QED  BY <1>1, EscrowInvariant, PTL

(* Every payout went to the recorded party, on its side of the expiry.      *)
THEOREM PayoutsFollowTerms == Spec => []PayoutFollowsTerms
<1>1. EscrowInv => PayoutFollowsTerms
  BY DEF EscrowInv
<1>. QED  BY <1>1, EscrowInvariant, PTL

(* The log of an escrow is a deposit and at most one payout, or a lone      *)
(* cancellation: no terminal instruction is ever replayed.                  *)
THEOREM SettledOnce == Spec => []SettledAtMostOnce
<1>1. EscrowInv => SettledAtMostOnce
  <2>. SUFFICES ASSUME EscrowInv, NEW k \in EscrowKeys,
                       NEW i \in DOMAIN events[k], NEW j \in DOMAIN events[k]
                PROVE  /\ i = 1 => events[k][i].type \in {"Funded", "Cancelled"}
                       /\ i < j => /\ events[k][i].type = "Funded"
                                   /\ events[k][j].type \in {"Released", "Refunded"}
    BY DEF SettledAtMostOnce
  <2>1. TypeOK /\ LogMatchesStatus
    BY DEF EscrowInv
  <2>2. i \in 1 .. Len(events[k]) /\ j \in 1 .. Len(events[k])
        /\ Len(events[k]) \in Nat
    BY <2>1 DEF TypeOK
  <2>3. escrow[k].status \in Status \cup {"Absent"}
    BY <2>1, StatusTyped DEF Absent
  <2>4. CASE escrow[k].status \in {"Absent", "Initialized"}
    BY <2>1, <2>2, <2>4 DEF LogMatchesStatus
  <2>5. CASE escrow[k].status \in {"Funded", "Cancelled"}
    BY <2>1, <2>2, <2>5 DEF LogMatchesStatus
  <2>6. CASE escrow[k].status \in {"Released", "Refunded"}
    BY <2>1, <2>2, <2>6 DEF LogMatchesStatus
  <2>. QED  BY <2>3, <2>4, <2>5, <2>6 DEF Status
<1>. QED  BY <1>1, EscrowInvariant, PTL

(* Tokens leave a vault only as that escrow's principal, in the step that   *)
(* settles that escrow.                                                     *)
THEOREM VaultDebits == Spec => VaultDebitIsSettlement
<1>. DEFINE Debit(k) == tokens'[k] < tokens[k] =>
              /\ escrow[k].status = "Funded"
              /\ escrow'[k].status \in {"Released", "Refunded"}
              /\ tokens'[k] = tokens[k] - escrow[k].amount
<1>1. EscrowInv /\ [Next]_vars => [\A k \in EscrowKeys : Debit(k)]_vars
  <2>. SUFFICES ASSUME EscrowInv, Next, NEW k \in EscrowKeys, tokens'[k] < tokens[k]
                PROVE  Debit(k)
    OBVIOUS
  <2>. USE DEF EscrowInv
  <2>1. k \in Owners /\ k \notin Users /\ tokens[k] \in Nat
    BY EscrowAssumption DEF Owners, TypeOK
  <2>2. ASSUME NEW from \in Owners, NEW to \in Owners, NEW amount \in Nat,
               Transfer(from, to, amount)
        PROVE  from = k /\ tokens'[k] = tokens[k] - amount
    <3>1. tokens' \in [Owners -> Nat] /\ (from # k => tokens'[k] >= tokens[k])
          /\ (from # to => tokens'[from] = tokens[from] - amount)
          /\ (from = to => tokens' = tokens)
      BY <2>1, <2>2, TransferEffect
    <3>. QED  BY <2>1, <3>1
  <2>3. tokens' # tokens
    BY <2>1
  <2>4. ASSUME NEW j \in EscrowKeys, NEW u \in Users, FundEscrow(j, u)
        PROVE  FALSE
    <3>1. u \in Owners /\ j \in Owners /\ escrow[j].amount \in Nat
          /\ Transfer(u, j, escrow[j].amount)
      BY <2>4, StatusTyped DEF FundEscrow, Owners
    <3>. QED  BY <2>1, <2>2, <3>1
  <2>5. ASSUME NEW j \in EscrowKeys, NEW u \in Users, Release(j, u)
        PROVE  Debit(k)
    <3>1. /\ escrow[j] # Absent /\ escrow[j].status = "Funded"
          /\ Transfer(j, escrow[j].contributor, escrow[j].amount)
          /\ SetStatus(j, "Released")
      BY <2>5 DEF Release, can_release
    <3>2. j \in Owners /\ escrow[j].contributor \in Owners /\ escrow[j].amount \in Nat
      BY <3>1, StatusTyped DEF AddressOfSponsor, Owners
    <3>3. j = k /\ tokens'[k] = tokens[k] - escrow[j].amount
      BY <2>2, <3>1, <3>2
    <3>4. escrow'[j].status = "Released"
      BY <3>1, SetStatusEffect DEF Status
    <3>. QED  BY <3>1, <3>3, <3>4
  <2>6. ASSUME NEW j \in EscrowKeys, NEW u \in Users, Refund(j, u)
        PROVE  Debit(k)
    <3>1. /\ escrow[j] # Absent /\ escrow[j].status = "Funded"
          /\ Transfer(j, u, escrow[j].amount) /\ SetStatus(j, "Refunded")
      BY <2>6 DEF Refund, can_refund
    <3>2. j \in Owners /\ u \in Owners /\ escrow[j].amount \in Nat
      BY <3>1, StatusTyped DEF Owners
    <3>3. j = k /\ tokens'[k] = tokens[k] - escrow[j].amount
      BY <2>2, <3>1, <3>2
    <3>4. escrow'[j].status = "Refunded"
      BY <3>1, SetStatusEffect DEF Status
    <3>. QED  BY <3>1, <3>3, <3>4
  <2>7. ASSUME NEW u \in Users, NEW o \in Owners, NEW a \in Amounts,
               TokenTransfer(u, o, a)
        PROVE  FALSE
    <3>1. u \in Owners /\ a \in Nat /\ Transfer(u, o, a)
      BY <2>7, EscrowAssumption DEF TokenTransfer, Owners
    <3>. QED  BY <2>1, <2>2, <3>1
  <2>. QED
    BY <2>3, <2>4, <2>5, <2>6, <2>7 DEF Next, InitializeEscrow, Cancel, Tick
<1>. QED
  BY <1>1, EscrowInvariant, PTL DEF Spec, VaultDebitIsSettlement

(* The terms an escrow was opened with never change, accounts never go away *)
(* and terminal statuses are final.                                         *)
THEOREM TermsAreFrozen == Spec => TermsFrozen
<1>. DEFINE Frozen(k) == Exists(k) =>
              /\ escrow'[k] = [escrow[k] EXCEPT !.status = escrow'[k].status]
              /\ escrow[k].status \in Terminal => escrow'[k] = escrow[k]
<1>1. EscrowInv /\ [Next]_vars => [\A k \in EscrowKeys : Frozen(k)]_vars
  <2>. SUFFICES ASSUME EscrowInv, Next, NEW k \in EscrowKeys, Exists(k)
                PROVE  Frozen(k)
    OBVIOUS
  <2>1. /\ escrow[k] # Absent
        /\ escrow \in [EscrowKeys -> EscrowAccount \cup {Absent}]
        /\ escrow[k] \in EscrowAccount
    BY DEF EscrowInv, TypeOK, Exists
  <2>2. ASSUME escrow' = escrow
        PROVE  Frozen(k)
    BY <2>1, <2>2 DEF EscrowAccount
  <2>3. ASSUME NEW j \in EscrowKeys, NEW s \in Status, SetStatus(j, s),
               escrow[j].status \notin Terminal
        PROVE  Frozen(k)
    BY <2>1, <2>3 DEF SetStatus, EscrowAccount
  <2>4. ASSUME NEW s \in Users, NEW r \in Refs, NEW a \in Amounts,
               NEW x \in 0 .. MaxTime, NEW m \in Maintainers, NEW c \in Contributors,
               InitializeEscrow(s, r, a, x, m, c)
        PROVE  Frozen(k)
    <3>1. escrow'[k] = escrow[k]
      BY <2>1, <2>4 DEF InitializeEscrow
    <3>. QED  BY <2>1, <3>1 DEF EscrowAccount
  <2>5. ASSUME NEW j \in EscrowKeys, NEW u \in Users, Cancel(j, u)
        PROVE  Frozen(k)
    BY <2>3, <2>5 DEF Cancel, can_cancel, Status, Terminal
  <2>6. ASSUME NEW j \in EscrowKeys, NEW u \in Users, FundEscrow(j, u)
        PROVE  Frozen(k)
    BY <2>3, <2>6 DEF FundEscrow, can_fund, Status, Terminal
  <2>7. ASSUME NEW j \in EscrowKeys, NEW u \in Users, Release(j, u)
        PROVE  Frozen(k)
    BY <2>3, <2>7 DEF Release, can_release, Status, Terminal
  <2>8. ASSUME NEW j \in EscrowKeys, NEW u \in Users, Refund(j, u)
        PROVE  Frozen(k)
    BY <2>3, <2>8 DEF Refund, can_refund, Status, Terminal
  <2>. QED
    BY <2>2, <2>4, <2>5, <2>6, <2>7, <2>8 DEF Next, TokenTransfer, Tick
<1>. QED
  BY <1>1, EscrowInvariant, PTL DEF Spec, TermsFrozen

-------------------------------------------------------------------------------
(* The refinement of IdealEscrow                                             *)

(* A status set by an instruction is a phase of the deal, and custody of the *)
(* principal starts and ends with the status "Funded".                       *)
LEMMA DealMoves ==
    ASSUME TypeOK, NEW k \in EscrowKeys, escrow[k] # Absent,
           NEW st \in Status, SetStatus(k, st)
    PROVE  /\ Deal' = [Deal EXCEPT ![k].phase = Phase[st]]
           /\ Held' = [Held EXCEPT ![k] =
                          IF st = "Funded" THEN escrow[k].amount ELSE 0]
           /\ Principal(k)' = IF st = "Funded" THEN escrow[k].amount ELSE 0
           /\ \A j \in EscrowKeys : j # k => Principal(j)' = Principal(j)
<1>1. /\ escrow'[k].status = st /\ escrow'[k] # Absent
      /\ escrow'[k].sponsor = escrow[k].sponsor
      /\ escrow'[k].contributor = escrow[k].contributor
      /\ escrow'[k].amount = escrow[k].amount
      /\ escrow'[k].expiry = escrow[k].expiry
      /\ \A j \in EscrowKeys : j # k => escrow'[j] = escrow[j]
  BY SetStatusEffect
<1>2. /\ Principal(k)' = IF st = "Funded" THEN escrow[k].amount ELSE 0
      /\ \A j \in EscrowKeys : j # k => Principal(j)' = Principal(j)
  BY <1>1 DEF Principal
<1>3. Held' = [Held EXCEPT ![k] = IF st = "Funded" THEN escrow[k].amount ELSE 0]
  BY <1>2 DEF Held
<1>4. Deal[k] = [depositor |-> escrow[k].sponsor, payee |-> escrow[k].contributor,
                 amount |-> escrow[k].amount, deadline |-> escrow[k].expiry,
                 phase |-> Phase[escrow[k].status]]
  BY DEF Deal
<1>5. Deal'[k] = [depositor |-> escrow[k].sponsor, payee |-> escrow[k].contributor,
                  amount |-> escrow[k].amount, deadline |-> escrow[k].expiry,
                  phase |-> Phase[st]]
  BY <1>1 DEF Deal
<1>6. Deal'[k] = [Deal[k] EXCEPT !.phase = Phase[st]]
  BY <1>4, <1>5
<1>7. \A j \in EscrowKeys : j # k => Deal'[j] = Deal[j]
  BY <1>1 DEF Deal
<1>8. /\ Deal = [j \in EscrowKeys |-> Deal[j]]
      /\ Deal' = [j \in EscrowKeys |-> Deal'[j]]
  BY DEF Deal
<1>9. Deal' = [Deal EXCEPT ![k] = [Deal[k] EXCEPT !.phase = Phase[st]]]
  BY <1>6, <1>7, <1>8
<1>. QED  BY <1>2, <1>3, <1>9

(* An account as the deal it stands for.                                     *)
LEMMA DealOf ==
    ASSUME TypeOK, NEW k \in EscrowKeys, escrow[k] # Absent
    PROVE  /\ Deal[k] # [phase |-> "none"]
           /\ Deal[k].depositor = escrow[k].sponsor
           /\ Deal[k].payee = escrow[k].contributor
           /\ Deal[k].amount = escrow[k].amount
           /\ Deal[k].deadline = escrow[k].expiry
           /\ Deal[k].phase = Phase[escrow[k].status]
<1>1. escrow[k].status \in Status
  BY StatusTyped
<1>2. Phase[escrow[k].status] # "none"
  BY <1>1 DEF Phase, Status
<1>. HIDE DEF Phase
<1>3. Deal[k] = [depositor |-> escrow[k].sponsor, payee |-> escrow[k].contributor,
                 amount |-> escrow[k].amount, deadline |-> escrow[k].expiry,
                 phase |-> Phase[escrow[k].status]]
  BY DEF Deal
<1>. QED  BY <1>2, <1>3

LEMMA InitIsIdeal == Init => Ideal!IdealInit
<1>. SUFFICES ASSUME Init PROVE Ideal!IdealInit
  OBVIOUS
<1>1. Deal = [d \in EscrowKeys |-> [phase |-> "none"]]
  BY DEF Init, Deal
<1>2. \A k \in EscrowKeys : Principal(k) = 0 /\ tokens[k] = 0
  BY EscrowAssumption DEF Init, Principal, Absent, Owners
<1>3. Held = [d \in EscrowKeys |-> 0] /\ Gifts = [d \in EscrowKeys |-> 0]
  BY <1>2 DEF Held, Gifts
<1>4. Purse \in [Users -> Nat]
  BY EscrowAssumption DEF Init, Purse, Owners
<1>. QED  BY <1>1, <1>3, <1>4 DEF Init, Ideal!IdealInit

(* What a transfer does to the purses and the gifts.  The gifts move with the*)
(* tokens, less what the principal in custody moved.                         *)
LEMMA PurseOfTransfer ==
    ASSUME TypeOK, NEW from \in Owners, NEW to \in Owners, NEW amount \in Nat,
           Transfer(from, to, amount), from # to
    PROVE  /\ from \in Users /\ to \in Users =>
                 Purse' = [Purse EXCEPT ![from] = @ - amount, ![to] = @ + amount]
           /\ from \in Users /\ to \notin Users =>
                 Purse' = [Purse EXCEPT ![from] = @ - amount]
           /\ from \notin Users /\ to \in Users =>
                 Purse' = [Purse EXCEPT ![to] = @ + amount]
           /\ from \notin Users /\ to \notin Users => Purse' = Purse
<1>1. /\ \A o \in Owners : o # from /\ o # to => tokens'[o] = tokens[o]
      /\ tokens'[from] = tokens[from] - amount
      /\ tokens'[to] = tokens[to] + amount
  BY TransferEffect
<1>2. \A u \in Users : u \in Owners
  BY DEF Owners
<1>. QED  BY <1>1, <1>2 DEF Purse

LEMMA CancelIsWithdraw ==
    ASSUME EscrowInv, NEW k \in EscrowKeys, NEW u \in Users, Cancel(k, u)
    PROVE  Ideal!Withdraw(k)
<1>1. /\ TypeOK /\ escrow[k] # Absent /\ escrow[k].status = "Initialized"
      /\ SetStatus(k, "Cancelled") /\ UNCHANGED <<now, tokens>>
  BY DEF Cancel, can_cancel, EscrowInv
<1>2. /\ Deal' = [Deal EXCEPT ![k].phase = Phase["Cancelled"]]
      /\ Principal(k)' = 0
      /\ \A j \in EscrowKeys : j # k => Principal(j)' = Principal(j)
  BY <1>1, DealMoves DEF Status
<1>3. \A j \in EscrowKeys : Principal(j)' = Principal(j)
  BY <1>1, <1>2 DEF Principal
<1>4. Held' = Held /\ Gifts' = Gifts /\ Purse' = Purse
  BY <1>1, <1>3 DEF Held, Gifts, Purse
<1>5. Deal[k] # [phase |-> "none"] /\ Deal[k].phase = "open"
  BY <1>1, DealOf DEF Phase
<1>6. Phase["Cancelled"] = "withdrawn"
  BY DEF Phase
<1>. QED  BY <1>1, <1>2, <1>4, <1>5, <1>6 DEF Ideal!Withdraw, Ideal!Closed

LEMMA FundIsDeposit ==
    ASSUME EscrowInv, NEW k \in EscrowKeys, NEW u \in Users, FundEscrow(k, u)
    PROVE  Ideal!Deposit(k)
<1>. DEFINE a == escrow[k].amount
<1>1. /\ TypeOK /\ escrow[k] # Absent /\ escrow[k].status = "Initialized"
      /\ now < escrow[k].expiry /\ u = escrow[k].sponsor
      /\ Transfer(u, k, a) /\ tokens[u] >= a
      /\ SetStatus(k, "Funded") /\ UNCHANGED now
  BY DEF FundEscrow, can_fund, validate_sponsor, Transfer, EscrowInv
<1>2. /\ u \in Owners /\ k \in Owners /\ u # k /\ k \notin Users /\ a \in Nat
      /\ tokens \in [Owners -> Nat] /\ \A j \in EscrowKeys : j \in Owners /\ j # u
  BY <1>1, StatusTyped, EscrowAssumption DEF Owners, TypeOK
<1>. HIDE DEF a
<1>3. Purse' = [Purse EXCEPT ![u] = @ - a]
  BY <1>1, <1>2, PurseOfTransfer
<1>4. /\ Deal' = [Deal EXCEPT ![k].phase = Phase["Funded"]]
      /\ Held' = [Held EXCEPT ![k] = a] /\ Principal(k)' = a
      /\ \A j \in EscrowKeys : j # k => Principal(j)' = Principal(j)
  BY <1>1, DealMoves DEF Status, a
<1>5. Principal(k) = 0
  BY <1>1 DEF Principal
<1>6. /\ tokens'[k] = tokens[k] + a
      /\ \A o \in Owners : o # u /\ o # k => tokens'[o] = tokens[o]
  BY <1>1, <1>2, TransferEffect
<1>7. \A j \in EscrowKeys : tokens'[j] - Principal(j)' = tokens[j] - Principal(j)
  BY <1>2, <1>4, <1>5, <1>6
<1>8. Gifts' = Gifts
  BY <1>7 DEF Gifts
<1>9. /\ Deal[k] # [phase |-> "none"] /\ Deal[k].phase = "open"
      /\ Deal[k].depositor = u /\ Deal[k].amount = a
      /\ Deal[k].deadline = escrow[k].expiry
  BY <1>1, DealOf DEF Phase, a
<1>10. Purse[u] >= a /\ Phase["Funded"] = "held"
  BY <1>1 DEF Purse, Phase
<1>. QED
  BY <1>1, <1>3, <1>4, <1>8, <1>9, <1>10 DEF Ideal!Deposit, Ideal!Closed

LEMMA ReleaseIsPay ==
    ASSUME EscrowInv, NEW k \in EscrowKeys, NEW u \in Users, Release(k, u)
    PROVE  Ideal!Pay(k)
<1>. DEFINE a == escrow[k].amount
            c == escrow[k].contributor
<1>1. /\ TypeOK /\ escrow[k] # Absent /\ escrow[k].status = "Funded"
      /\ now < escrow[k].expiry /\ Transfer(k, c, a)
      /\ SetStatus(k, "Released") /\ UNCHANGED now
  BY DEF Release, can_release, EscrowInv
<1>2. /\ c \in Owners /\ k \in Owners /\ k \notin Users /\ a \in Nat
      /\ tokens \in [Owners -> Nat] /\ \A j \in EscrowKeys : j \in Owners
  BY <1>1, StatusTyped, EscrowAssumption DEF Owners, TypeOK, AddressOfSponsor, EscrowInv
<1>3. /\ Deal' = [Deal EXCEPT ![k].phase = Phase["Released"]]
      /\ Held' = [Held EXCEPT ![k] = 0] /\ Principal(k)' = 0
      /\ \A j \in EscrowKeys : j # k => Principal(j)' = Principal(j)
  BY <1>1, DealMoves DEF Status
<1>4. Principal(k) = a /\ \A j \in EscrowKeys : Principal(j) \in Nat
  <2>1. ASSUME NEW j \in EscrowKeys
        PROVE  Principal(j) \in Nat
    BY <1>1, StatusTyped DEF Principal, Absent
  <2>. QED  BY <1>1, <2>1 DEF Principal
<1>5. /\ Deal[k] # [phase |-> "none"] /\ Deal[k].phase = "held"
      /\ Deal[k].payee = c /\ Deal[k].amount = a
      /\ Deal[k].deadline = escrow[k].expiry
  BY <1>1, DealOf DEF Phase
<1>6. Phase["Released"] = "paid"
  BY DEF Phase
<1>. HIDE DEF a, c
<1>7. /\ tokens' \in [Owners -> Nat]
      /\ \A o \in Owners : o # k /\ o # c => tokens'[o] = tokens[o]
      /\ k # c => tokens'[k] = tokens[k] - a /\ tokens'[c] = tokens[c] + a
      /\ k = c => tokens' = tokens
  BY <1>1, <1>2, TransferEffect
<1>8. CASE c \in Users
  <2>1. Purse' = [Purse EXCEPT ![c] = @ + a]
    BY <1>1, <1>2, <1>8, PurseOfTransfer
  <2>2. \A j \in EscrowKeys : tokens'[j] - Principal(j)' = tokens[j] - Principal(j)
    BY <1>2, <1>3, <1>4, <1>7, <1>8, EscrowAssumption
  <2>3. Gifts' = Gifts
    BY <2>2 DEF Gifts
  <2>. QED
    BY <1>1, <1>3, <1>5, <1>6, <1>8, <2>1, <2>3 DEF Ideal!Pay, Ideal!Closed
<1>9. ASSUME NEW d \in EscrowKeys, c = d
      PROVE  Ideal!Pay(k)
  <2>1. Purse' = Purse
    <3>1. CASE d = k
      BY <1>7, <1>9, <3>1 DEF Purse
    <3>2. CASE d # k
      BY <1>1, <1>2, <1>9, <3>2, PurseOfTransfer, EscrowAssumption
    <3>. QED  BY <3>1, <3>2
  <2>2. tokens'[d] - Principal(d)' = (tokens[d] - Principal(d)) + a
    <3>1. CASE d = k
      BY <1>2, <1>3, <1>4, <1>7, <1>9, <3>1
    <3>2. CASE d # k
      BY <1>2, <1>3, <1>4, <1>7, <1>9, <3>2
    <3>. QED  BY <3>1, <3>2
  <2>3. \A j \in EscrowKeys : j # d =>
              tokens'[j] - Principal(j)' = tokens[j] - Principal(j)
    BY <1>2, <1>3, <1>4, <1>7, <1>9
  <2>4. Gifts' = [Gifts EXCEPT ![d] = @ + a]
    BY <2>2, <2>3 DEF Gifts
  <2>. QED
    BY <1>1, <1>3, <1>5, <1>6, <1>9, <2>1, <2>4 DEF Ideal!Pay, Ideal!Closed
<1>. QED  BY <1>2, <1>8, <1>9 DEF Owners

LEMMA RefundIsReturn ==
    ASSUME EscrowInv, NEW k \in EscrowKeys, NEW u \in Users, Refund(k, u)
    PROVE  Ideal!Return(k)
<1>. DEFINE a == escrow[k].amount
<1>1. /\ TypeOK /\ escrow[k] # Absent /\ escrow[k].status = "Funded"
      /\ now >= escrow[k].expiry /\ u = escrow[k].sponsor /\ Transfer(k, u, a)
      /\ SetStatus(k, "Refunded") /\ UNCHANGED now
  BY DEF Refund, can_refund, validate_sponsor, EscrowInv
<1>2. /\ u \in Owners /\ k \in Owners /\ k \notin Users /\ k # u /\ a \in Nat
      /\ tokens \in [Owners -> Nat] /\ \A j \in EscrowKeys : j \in Owners /\ j # u
  BY <1>1, StatusTyped, EscrowAssumption DEF Owners, TypeOK
<1>3. /\ Deal' = [Deal EXCEPT ![k].phase = Phase["Refunded"]]
      /\ Held' = [Held EXCEPT ![k] = 0] /\ Principal(k)' = 0
      /\ \A j \in EscrowKeys : j # k => Principal(j)' = Principal(j)
  BY <1>1, DealMoves DEF Status
<1>4. Principal(k) = a
  BY <1>1 DEF Principal
<1>5. /\ Deal[k] # [phase |-> "none"] /\ Deal[k].phase = "held"
      /\ Deal[k].depositor = u /\ Deal[k].amount = a
      /\ Deal[k].deadline = escrow[k].expiry
  BY <1>1, DealOf DEF Phase
<1>6. Phase["Refunded"] = "returned"
  BY DEF Phase
<1>. HIDE DEF a
<1>7. /\ tokens'[k] = tokens[k] - a
      /\ \A o \in Owners : o # k /\ o # u => tokens'[o] = tokens[o]
  BY <1>1, <1>2, TransferEffect
<1>8. Purse' = [Purse EXCEPT ![u] = @ + a]
  BY <1>1, <1>2, PurseOfTransfer
<1>9. \A j \in EscrowKeys : tokens'[j] - Principal(j)' = tokens[j] - Principal(j)
  BY <1>2, <1>3, <1>4, <1>7
<1>10. Gifts' = Gifts
  BY <1>9 DEF Gifts
<1>. QED
  BY <1>1, <1>3, <1>5, <1>6, <1>8, <1>10 DEF Ideal!Return, Ideal!Closed

LEMMA TransferIsGive ==
    ASSUME EscrowInv, NEW u \in Users, NEW o \in Owners, NEW a \in Amounts,
           TokenTransfer(u, o, a)
    PROVE  Ideal!Give(u, o, Purse[u] - Purse'[u])
<1>1. /\ TypeOK /\ u \in Owners /\ a \in Nat /\ u # o
      /\ Transfer(u, o, a) /\ tokens[u] >= a /\ UNCHANGED <<now, escrow>>
  BY EscrowAssumption DEF TokenTransfer, Transfer, Owners, EscrowInv
<1>2. /\ tokens \in [Owners -> Nat] /\ Purse[u] = tokens[u]
      /\ Purse'[u] = tokens'[u] /\ \A j \in EscrowKeys : j \in Owners /\ j # u
  BY <1>1, EscrowAssumption DEF TypeOK, Purse, Owners
<1>3. /\ \A p \in Owners : p # u /\ p # o => tokens'[p] = tokens[p]
      /\ tokens'[u] = tokens[u] - a /\ tokens'[o] = tokens[o] + a
  BY <1>1, TransferEffect
<1>4. Purse[u] - Purse'[u] = a
  BY <1>1, <1>2, <1>3
<1>5. \A j \in EscrowKeys : Principal(j)' = Principal(j)
  BY <1>1 DEF Principal
<1>6. Deal' = Deal /\ Held' = Held
  BY <1>1, <1>5 DEF Deal, Held
<1>7. \A j \in EscrowKeys : Principal(j) \in Nat
  BY <1>1, StatusTyped DEF Principal, Absent
<1>8. ASSUME o \in Users
      PROVE  Ideal!Give(u, o, a)
  <2>1. Purse' = [Purse EXCEPT ![u] = @ - a, ![o] = @ + a]
    BY <1>1, <1>8, PurseOfTransfer
  <2>2. \A j \in EscrowKeys : tokens'[j] = tokens[j]
    BY <1>2, <1>3, <1>8, EscrowAssumption
  <2>3. Gifts' = Gifts
    BY <1>5, <2>2 DEF Gifts
  <2>. QED
    BY <1>1, <1>2, <1>6, <1>8, <2>1, <2>3 DEF Ideal!Give
<1>9. ASSUME o \in EscrowKeys
      PROVE  Ideal!Give(u, o, a)
  <2>1. Purse' = [Purse EXCEPT ![u] = @ - a]
    BY <1>1, <1>9, EscrowAssumption, PurseOfTransfer
  <2>2. /\ tokens'[o] - Principal(o)' = (tokens[o] - Principal(o)) + a
        /\ \A j \in EscrowKeys : j # o =>
              tokens'[j] - Principal(j)' = tokens[j] - Principal(j)
    BY <1>1, <1>2, <1>3, <1>5, <1>7, <1>9
  <2>3. Gifts' = [Gifts EXCEPT ![o] = @ + a]
    BY <1>9, <2>2 DEF Gifts
  <2>. QED
    BY <1>1, <1>2, <1>6, <1>9, <2>1, <2>3 DEF Ideal!Give
<1>10. Ideal!Give(u, o, a)
  BY <1>8, <1>9 DEF Owners
<1>. QED  BY <1>4, <1>10

LEMMA InitializeIsOpen ==
    ASSUME EscrowInv, NEW s \in Users, NEW r \in Refs, NEW a \in Amounts,
           NEW x \in 0 .. MaxTime, NEW m \in Maintainers, NEW c \in Contributors,
           InitializeEscrow(s, r, a, x, m, c)
    PROVE  \E d \in EscrowKeys :
              /\ Deal'[d] # [phase |-> "none"]
              /\ Ideal!Open(d, Deal'[d].depositor, Deal'[d].payee,
                            Deal'[d].amount, Deal'[d].deadline)
<1>. DEFINE k == <<s, r>>
            e == [sponsor |-> s, maintainer |-> m, contributor |-> c,
                  amount |-> a, expiry |-> x, status |-> "Initialized"]
            d == [depositor |-> s, payee |-> c, amount |-> a, deadline |-> x,
                  phase |-> "open"]
<1>1. /\ TypeOK /\ k \in EscrowKeys /\ escrow[k] = Absent
      /\ a \in Nat /\ a # 0 /\ x > now /\ UNCHANGED <<now, tokens>>
  BY EscrowAssumption
  DEF InitializeEscrow, validate_initialization, EscrowKeys, EscrowInv
<1>2. escrow' = [escrow EXCEPT ![k] = e]
  BY DEF InitializeEscrow
<1>3. /\ e # Absent /\ e.status = "Initialized"
      /\ d = [depositor |-> e.sponsor, payee |-> e.contributor,
              amount |-> e.amount, deadline |-> e.expiry, phase |-> Phase[e.status]]
  BY DEF Absent, Phase
<1>4. d # [phase |-> "none"] /\ d.depositor = s /\ d.payee = c /\ d.amount = a
      /\ d.deadline = x
  OBVIOUS
<1>. HIDE DEF k, e
<1>5. escrow'[k] = e /\ \A j \in EscrowKeys : j # k => escrow'[j] = escrow[j]
  BY <1>1, <1>2 DEF TypeOK
<1>6. Deal'[k] = d
  BY <1>1, <1>3, <1>5 DEF Deal
<1>7. Deal[k] = [phase |-> "none"]
  BY <1>1 DEF Deal
<1>8. \A j \in EscrowKeys : j # k => Deal'[j] = Deal[j]
  BY <1>5 DEF Deal
<1>. HIDE DEF d
<1>9. Deal' = [Deal EXCEPT ![k] = d]
  <2>1. /\ Deal = [j \in EscrowKeys |-> Deal[j]]
        /\ Deal' = [j \in EscrowKeys |-> Deal'[j]]
    BY DEF Deal
  <2>. QED  BY <1>6, <1>8, <2>1
<1>10. \A j \in EscrowKeys : Principal(j)' = Principal(j)
  BY <1>1, <1>3, <1>5 DEF Principal, Absent
<1>11. Held' = Held /\ Gifts' = Gifts /\ Purse' = Purse
  BY <1>1, <1>10 DEF Held, Gifts, Purse
<1>12. a > 0
  BY <1>1
<1>13. Ideal!Open(k, s, c, a, x)
  BY <1>1, <1>7, <1>9, <1>11, <1>12 DEF Ideal!Open, d
<1>. QED  BY <1>1, <1>4, <1>6, <1>13

LEMMA StepIsIdeal == EscrowInv /\ [Next]_vars => [Ideal!IdealNext]_Ideal!ideal
<1>. SUFFICES ASSUME EscrowInv, [Next]_vars PROVE [Ideal!IdealNext]_Ideal!ideal
  OBVIOUS
<1>1. ASSUME NEW s \in Users, NEW r \in Refs, NEW a \in Amounts,
             NEW x \in 0 .. MaxTime, NEW m \in Maintainers, NEW c \in Contributors,
             InitializeEscrow(s, r, a, x, m, c)
      PROVE  Ideal!IdealNext
  BY <1>1, InitializeIsOpen DEF Ideal!IdealNext
<1>2. ASSUME NEW k \in EscrowKeys, NEW u \in Users,
             Cancel(k, u) \/ FundEscrow(k, u) \/ Release(k, u) \/ Refund(k, u)
      PROVE  Ideal!IdealNext
  BY <1>2, CancelIsWithdraw, FundIsDeposit, ReleaseIsPay, RefundIsReturn
  DEF Ideal!IdealNext
<1>3. ASSUME NEW u \in Users, NEW o \in Owners, NEW a \in Amounts,
             TokenTransfer(u, o, a)
      PROVE  Ideal!IdealNext
  BY <1>3, TransferIsGive DEF Ideal!IdealNext, Owners
<1>4. ASSUME UNCHANGED <<escrow, tokens>>
      PROVE  UNCHANGED <<Deal, Purse, Held, Gifts>>
  <2>1. \A j \in EscrowKeys : Principal(j)' = Principal(j)
    BY <1>4 DEF Principal
  <2>. QED  BY <1>4, <2>1 DEF Deal, Purse, Held, Gifts
<1>5. CASE Tick
  <2>1. now' > now
    BY <1>5, EscrowAssumption DEF Tick, EscrowInv, TypeOK
  <2>. QED
    BY <1>4, <1>5, <2>1 DEF Tick, Ideal!IdealNext, Ideal!Pass
<1>6. CASE UNCHANGED vars
  BY <1>4, <1>6 DEF vars, Ideal!ideal
<1>. QED  BY <1>1, <1>2, <1>3, <1>5, <1>6 DEF Next

(* The program implements the trusted third party of IdealEscrow, for any   *)
(* set of escrows: every instruction is a move of the third party, with     *)
(* unsolicited tokens kept apart from the principals.                       *)
THEOREM ProgramIsEscrow == Spec => ImplementsIdeal
BY InitIsIdeal, StepIsIdeal, EscrowInvariant, PTL
   DEF Spec, ImplementsIdeal, Ideal!IdealSpec
===============================================================================
