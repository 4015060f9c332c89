-------------------------------- MODULE Escrow --------------------------------
(***************************************************************************)
(* The on-chain program: programs/oss-bounty-escrow/src/{lib,rules}.rs.    *)
(*                                                                         *)
(* A sponsor opens an escrow for one external reference, deposits exactly  *)
(* the recorded amount into the escrow's vault, and the maintainer may pay *)
(* it to the contributor strictly before the expiry; at or after the       *)
(* expiry the sponsor may take it back.  An unfunded escrow may be         *)
(* cancelled.                                                              *)
(*                                                                         *)
(* One action is one successful instruction.  A failing instruction rolls  *)
(* the whole transaction back (Solana runtime), so it is a stutter.        *)
(***************************************************************************)
EXTENDS Integers, Sequences, FiniteSets

CONSTANTS
    Users,        \* keys that can sign transactions and own one token account
    DefaultKey,   \* Pubkey::default(), the all-zero key
    Refs,         \* external reference hashes, the all-zero one included
    ZeroRef,      \* [0; 32]
    Amounts,      \* bound: amounts tried by initialize_escrow and transfers
    Maintainers,  \* bound: keys tried as the maintainer
    Contributors, \* bound: keys tried as the contributor
    MaxTime,      \* bound: the last unix_timestamp
    Supply        \* tokens each user starts with

(* seeds = [b"escrow", sponsor, external_ref_hash]: the address of an escrow *)
(* is a function of its sponsor and its reference, and only of those.        *)
EscrowKeys == Users \X Refs

(* A token account is named by its owner.  The wallet of a user is owned by  *)
(* the user; the vault of an escrow is owned by the escrow's address.        *)
Owners == Users \cup EscrowKeys

(* Keys that an initialize_escrow argument may name.                         *)
Keys == Owners \cup {DefaultKey}

ASSUME EscrowAssumption ==
    /\ DefaultKey \notin Owners
    /\ Users \cap EscrowKeys = {}
    /\ ZeroRef \in Refs
    /\ Amounts \subseteq Nat
    /\ Maintainers \subseteq Keys
    /\ Contributors \subseteq Keys
    /\ MaxTime \in Nat
    /\ Supply \in [Users -> Nat]

Status == {"Initialized", "Funded", "Released", "Refunded", "Cancelled"}

Terminal == {"Released", "Refunded", "Cancelled"}

EscrowAccount ==
    [sponsor : Users, maintainer : Keys, contributor : Keys,
     amount : Nat, expiry : Nat, status : Status]

Absent == [status |-> "Absent"]

VARIABLES
    now,      \* Clock::get()?.unix_timestamp
    escrow,   \* escrow[k]: the account at address k, or Absent
    tokens,   \* tokens[o]: the balance of the token account owned by o
    events    \* events[k]: what emit! logged for escrow k, oldest first

vars == <<now, escrow, tokens, events>>

Event == [type : {"Funded", "Released", "Refunded", "Cancelled"},
          to : Owners, amount : Nat, at : Nat]

TypeOK ==
    /\ now \in 0..MaxTime
    /\ escrow \in [EscrowKeys -> EscrowAccount \cup {Absent}]
    /\ tokens \in [Owners -> Nat]
    /\ events \in [EscrowKeys -> Seq(Event)]

Init ==
    /\ now = 0
    /\ escrow = [k \in EscrowKeys |-> Absent]
    /\ tokens = [o \in Owners |-> IF o \in Users THEN Supply[o] ELSE 0]
    /\ events = [k \in EscrowKeys |-> << >>]

-------------------------------------------------------------------------------
(* The checks of rules.rs                                                    *)

validate_initialization(ref, amount, expiry, maintainer, contributor) ==
    /\ ref # ZeroRef
    /\ amount # 0
    /\ expiry > now
    /\ maintainer # DefaultKey
    /\ contributor # DefaultKey

(* Mutant of validate_sponsor: the signer is not compared.                   *)
AnySponsor(e, signer) == TRUE

validate_sponsor(e, signer) == signer = e.sponsor

can_fund(e) == e.status = "Initialized" /\ now < e.expiry

(* Mutant of can_release: the expiry itself still counts as before it.       *)
ReleaseAtExpiry(e) == e.status = "Funded" /\ now <= e.expiry

can_release(e) == e.status = "Funded" /\ now < e.expiry

can_refund(e) == e.status = "Funded" /\ now >= e.expiry

(* Mutant of can_cancel: a funded escrow may be cancelled as well.           *)
CancelFunded(e) == e.status \in {"Initialized", "Funded"}

can_cancel(e) == e.status = "Initialized"

-------------------------------------------------------------------------------
(* token::transfer_checked of the SPL token program.  It fails when the      *)
(* source does not hold the amount or the destination does not exist (a      *)
(* vault exists from its escrow's initialization on); a transfer of an       *)
(* account to itself is accepted and changes nothing.                        *)
Transfer(from, to, amount) ==
    /\ to \in EscrowKeys => escrow[to] # Absent
    /\ tokens[from] >= amount
    /\ tokens' = IF from = to THEN tokens
                 ELSE [tokens EXCEPT ![from] = @ - amount, ![to] = @ + amount]

Emit(k, type, to, amount) ==
    events' = [events EXCEPT ![k] =
        Append(@, [type |-> type, to |-> to, amount |-> amount, at |-> now])]

SetStatus(k, status) == escrow' = [escrow EXCEPT ![k].status = status]

-------------------------------------------------------------------------------
(* The instructions of lib.rs                                                *)

(* `init` refuses an address that already holds an account, so a (sponsor,   *)
(* reference) pair is initialized at most once: accounts are never closed.   *)
InitializeEscrow(sponsor, ref, amount, expiry, maintainer, contributor) ==
    /\ escrow[<<sponsor, ref>>] = Absent
    /\ validate_initialization(ref, amount, expiry, maintainer, contributor)
    /\ escrow' = [escrow EXCEPT ![<<sponsor, ref>>] =
           [sponsor |-> sponsor, maintainer |-> maintainer,
            contributor |-> contributor, amount |-> amount,
            expiry |-> expiry, status |-> "Initialized"]]
    /\ UNCHANGED <<now, tokens, events>>

(* has_one = sponsor; no clock is read: an unfunded escrow may be cancelled  *)
(* after its expiry as well.                                                 *)
Cancel(k, signer) ==
    /\ escrow[k] # Absent
    /\ validate_sponsor(escrow[k], signer)
    /\ can_cancel(escrow[k])
    /\ SetStatus(k, "Cancelled")
    /\ Emit(k, "Cancelled", signer, 0)
    /\ UNCHANGED <<now, tokens>>

(* Mutant of FundEscrow: the status changes and no token moves.              *)
FundWithoutTransfer(k, signer) ==
    /\ escrow[k] # Absent
    /\ validate_sponsor(escrow[k], signer)
    /\ can_fund(escrow[k])
    /\ SetStatus(k, "Funded")
    /\ Emit(k, "Funded", k, escrow[k].amount)
    /\ UNCHANGED <<now, tokens>>

(* has_one = sponsor and token::authority = sponsor on the paying account    *)
FundEscrow(k, signer) ==
    /\ escrow[k] # Absent
    /\ validate_sponsor(escrow[k], signer)
    /\ can_fund(escrow[k])
    /\ Transfer(signer, k, escrow[k].amount)
    /\ SetStatus(k, "Funded")
    /\ Emit(k, "Funded", k, escrow[k].amount)
    /\ UNCHANGED now

(* Mutant of Release: the whole vault is paid out.                           *)
ReleaseWholeVault(k, signer) ==
    /\ escrow[k] # Absent
    /\ signer = escrow[k].maintainer
    /\ can_release(escrow[k])
    /\ Transfer(k, escrow[k].contributor, tokens[k])
    /\ SetStatus(k, "Released")
    /\ Emit(k, "Released", escrow[k].contributor, escrow[k].amount)
    /\ UNCHANGED now

(* has_one = maintainer; contributor_token.owner == escrow.contributor       *)
Release(k, signer) ==
    /\ escrow[k] # Absent
    /\ signer = escrow[k].maintainer
    /\ can_release(escrow[k])
    /\ Transfer(k, escrow[k].contributor, escrow[k].amount)
    /\ SetStatus(k, "Released")
    /\ Emit(k, "Released", escrow[k].contributor, escrow[k].amount)
    /\ UNCHANGED now

(* Mutant of Refund: the vault must hold exactly the amount.                 *)
RefundExactVault(k, signer) ==
    /\ escrow[k] # Absent
    /\ tokens[k] = escrow[k].amount
    /\ validate_sponsor(escrow[k], signer)
    /\ can_refund(escrow[k])
    /\ Transfer(k, signer, escrow[k].amount)
    /\ SetStatus(k, "Refunded")
    /\ Emit(k, "Refunded", signer, escrow[k].amount)
    /\ UNCHANGED now

(* validate_sponsor; token::authority = sponsor on the receiving account     *)
Refund(k, signer) ==
    /\ escrow[k] # Absent
    /\ validate_sponsor(escrow[k], signer)
    /\ can_refund(escrow[k])
    /\ Transfer(k, signer, escrow[k].amount)
    /\ SetStatus(k, "Refunded")
    /\ Emit(k, "Refunded", signer, escrow[k].amount)
    /\ UNCHANGED now

-------------------------------------------------------------------------------
(* The environment: the token program lets a user send its own tokens to any *)
(* token account, an initialized vault included; the cluster's clock moves.  *)

TokenTransfer(user, to, amount) ==
    /\ user # to
    /\ Transfer(user, to, amount)
    /\ UNCHANGED <<now, escrow, events>>

Tick ==
    /\ now < MaxTime
    /\ now' = now + 1
    /\ UNCHANGED <<escrow, tokens, events>>

Next ==
    \/ \E s \in Users, r \in Refs, a \in Amounts, x \in 0..MaxTime,
          m \in Maintainers, c \in Contributors :
          InitializeEscrow(s, r, a, x, m, c)
    \/ \E k \in EscrowKeys, u \in Users : Cancel(k, u)
    \/ \E k \in EscrowKeys, u \in Users : FundEscrow(k, u)
    \/ \E k \in EscrowKeys, u \in Users : Release(k, u)
    \/ \E k \in EscrowKeys, u \in Users : Refund(k, u)
    \/ \E u \in Users, o \in Owners, a \in Amounts : TokenTransfer(u, o, a)
    \/ Tick

Spec == Init /\ [][Next]_vars

(* Liveness needs two parties outside the program to act: the cluster's      *)
(* clock, and a sponsor who asks for the refund once it is available.        *)
Fairness ==
    /\ WF_vars(Tick)
    /\ \A k \in EscrowKeys : WF_vars(Refund(k, k[1]))

FairSpec == Spec /\ Fairness

-------------------------------------------------------------------------------
(* Properties                                                                *)

Exists(k) == escrow[k] # Absent

(* The principal of every funded escrow is in its own vault, whatever the    *)
(* other escrows, unsolicited transfers and earlier payouts did: release and *)
(* refund of lib.rs can never fail for lack of tokens.                       *)
VaultSolvent ==
    \A k \in EscrowKeys :
        escrow[k].status = "Funded" => tokens[k] >= escrow[k].amount

(* The state machine of README.md as what the log of an escrow can be: a     *)
(* deposit and then at most one payout of that same amount, or a             *)
(* cancellation and nothing else.  No terminal action is ever replayed.      *)
SettledAtMostOnce ==
    \A k \in EscrowKeys : \A i, j \in DOMAIN events[k] :
        /\ i = 1 => events[k][i].type \in {"Funded", "Cancelled"}
        /\ i < j => /\ events[k][i].type = "Funded"
                    /\ events[k][j].type \in {"Released", "Refunded"}

(* Every payout went to the party the recorded terms name, on the right side *)
(* of the expiry (at the expiry itself only the refund is possible), and for *)
(* exactly the recorded amount.                                              *)
PayoutFollowsTerms ==
    \A k \in EscrowKeys : \A i \in DOMAIN events[k] :
        LET ev == events[k][i]
        IN  /\ Exists(k)
            /\ ev.type = "Funded"
                  => ev.at < escrow[k].expiry /\ ev.amount = escrow[k].amount
            /\ ev.type = "Released"
                  => /\ ev.to = escrow[k].contributor
                     /\ ev.at < escrow[k].expiry
                     /\ ev.amount = escrow[k].amount
            /\ ev.type = "Refunded"
                  => /\ ev.to = escrow[k].sponsor
                     /\ ev.at >= escrow[k].expiry
                     /\ ev.amount = escrow[k].amount

(* The terms an escrow was opened with never change, an account never goes   *)
(* away, and a terminal status is final.                                     *)
TermsFrozen ==
    [][\A k \in EscrowKeys :
          Exists(k) =>
            /\ escrow'[k] = [escrow[k] EXCEPT !.status = escrow'[k].status]
            /\ escrow[k].status \in Terminal => escrow'[k] = escrow[k]]_vars

(* The tokens of a vault only ever leave it as that escrow's recorded        *)
(* amount, in the step that settles that escrow: unsolicited tokens cannot   *)
(* be drawn, and no escrow can spend another one's principal.                *)
VaultDebitIsSettlement ==
    [][\A k \in EscrowKeys :
          tokens'[k] < tokens[k] =>
            /\ escrow[k].status = "Funded"
            /\ escrow'[k].status \in {"Released", "Refunded"}
            /\ tokens'[k] = tokens[k] - escrow[k].amount]_vars

(* A funded escrow does not keep its principal for ever: the maintainer pays *)
(* it, or the sponsor's refund succeeds once the expiry is reached.          *)
FundedEventuallySettled ==
    \A k \in EscrowKeys :
        escrow[k].status = "Funded" ~> escrow[k].status \in {"Released", "Refunded"}
-------------------------------------------------------------------------------
(* The principal in custody and the rest of a vault, as the terms and the   *)
(* status say: the balances themselves only enter through what is left.     *)
Principal(k) == IF escrow[k].status = "Funded" THEN escrow[k].amount ELSE 0

Phase == [Initialized |-> "open", Funded |-> "held", Released |-> "paid",
          Refunded |-> "returned", Cancelled |-> "withdrawn"]

Deal == [k \in EscrowKeys |->
    IF escrow[k] = Absent THEN [phase |-> "none"]
    ELSE [depositor |-> escrow[k].sponsor, payee |-> escrow[k].contributor,
          amount |-> escrow[k].amount, deadline |-> escrow[k].expiry,
          phase |-> Phase[escrow[k].status]]]

Purse == [u \in Users |-> tokens[u]]

Held == [k \in EscrowKeys |-> Principal(k)]

Gifts == [k \in EscrowKeys |-> tokens[k] - Principal(k)]

Ideal == INSTANCE IdealEscrow WITH
    Deals <- EscrowKeys, Parties <- Users, Nobody <- [phase |-> "none"],
    time <- now, deal <- Deal, purse <- Purse, held <- Held, gifts <- Gifts

(* The program behaves as the trusted third party of IdealEscrow: custody   *)
(* of the principals is exact and kept apart from unsolicited tokens.       *)
ImplementsIdeal == Ideal!IdealSpec
===============================================================================
