-------------------------- MODULE SettlementLedger --------------------------
(***************************************************************************)
(* The in-memory ledger of settlements, settlement_ledger.rs: a bounded    *)
(* queue of records with an index by transaction and one by payer.  Every  *)
(* method is one section of the ledger's mutex, so one action.             *)
(*                                                                         *)
(* A payer is an account written in some spelling; the code folds it with  *)
(* to_lowercase where it fills the index and with to_ascii_lowercase where *)
(* it prunes it.  A transaction hash folds one way only, so its spellings  *)
(* are left out.                                                           *)
(***************************************************************************)
EXTENDS Naturals, Sequences, SequencesExt

CONSTANTS Networks, Hashes, Accounts, Amounts,
          Spellings,         \* how payers may be written
          NoHash,            \* a blank transaction hash
          NoRecord,
          RequestedRecords,  \* max_records, as the caller asks for it
          LeastRecords,      \* 100 in the code
          MaxVolume          \* the last value of total_settled_volume, u64::MAX

ASSUME LedgerAssumption ==
    /\ NoHash \notin Hashes
    /\ Amounts \subseteq 0..MaxVolume
    /\ Spellings \subseteq {"lower", "ascii_upper", "unicode_upper"} /\ "lower" \in Spellings
    /\ NoRecord \notin [tx : Hashes \cup {NoHash},
                       payer : [account : Accounts, spelling : Spellings],
                       network : Networks, amount : Amounts, success : BOOLEAN]
    /\ RequestedRecords \in Nat /\ LeastRecords \in Nat \ {0} /\ MaxVolume \in Nat

VARIABLE ledger  \* Inner, but for max_records

Payers  == [account : Accounts, spelling : Spellings]
Lower   == [a \in Accounts |-> [account |-> a, spelling |-> "lower"]]
Keyed   == Networks \X Hashes

SettlementRecord == [tx : Hashes \cup {NoHash}, payer : Payers, network : Networks,
                     amount : Amounts, success : BOOLEAN]

(* max_records.max(100)                                                    *)
MaxRecords == IF RequestedRecords >= LeastRecords THEN RequestedRecords ELSE LeastRecords

(* to_lowercase and to_ascii_lowercase.                                    *)
ToLower(payer) == Lower[payer.account]
ToAsciiLower(payer) == IF payer.spelling = "unicode_upper" THEN payer ELSE ToLower(payer)

LedgerTypeOK ==
    /\ ledger.records \in Seq(SettlementRecord)
    /\ ledger.by_tx \in [Keyed -> SettlementRecord \cup {NoRecord}]
    /\ ledger.by_payer \in [Payers -> Seq(SettlementRecord)]

(* An absent key of an index is NoRecord, or the empty sequence.           *)
LedgerInit ==
    ledger = [records  |-> <<>>,
              by_tx    |-> [k \in Keyed |-> NoRecord],
              by_payer |-> [p \in Payers |-> <<>>]]

transaction_key(r) == <<r.network, r.tx>>
HasKey(r) == r.tx # NoHash

Previous(inner, r) == IF HasKey(r) THEN inner.by_tx[transaction_key(r)] ELSE NoRecord

remove_indexes(inner, r) ==
    [records  |-> inner.records,
     by_tx    |-> IF HasKey(r) THEN [inner.by_tx EXCEPT ![transaction_key(r)] = NoRecord]
                               ELSE inner.by_tx,
     by_payer |-> [inner.by_payer EXCEPT ![ToAsciiLower(r.payer)] = RemoveFirst(@, r)]]

(* Leave the queue and the indexes.                                        *)
Discard(inner, r) ==
    remove_indexes([inner EXCEPT !.records = RemoveFirst(@, r)], r)

(* Faulty: the record that is replaced stays in the queue.                 *)
SupersedeIndexOnly(inner, r) ==
    IF Previous(inner, r) = NoRecord THEN inner
                                     ELSE remove_indexes(inner, Previous(inner, r))

Supersede(inner, r) ==
    IF Previous(inner, r) = NoRecord THEN inner ELSE Discard(inner, Previous(inner, r))

MakeRoom(inner) ==
    IF Len(inner.records) >= MaxRecords THEN Discard(inner, Head(inner.records)) ELSE inner

Insert(inner, r) ==
    [records  |-> Append(inner.records, r),
     by_tx    |-> IF HasKey(r) THEN [inner.by_tx EXCEPT ![transaction_key(r)] = r]
                               ELSE inner.by_tx,
     by_payer |-> [inner.by_payer EXCEPT ![ToLower(r.payer)] = Append(@, r)]]

(* Faulty: any known transaction is replaced.                              *)
AnyReplaceable(r) == TRUE

(* A confirmation of the same transaction is final: the call returns.      *)
Replaceable(r) == Previous(ledger, r) # NoRecord => ~Previous(ledger, r).success

Record(r) ==
    /\ Replaceable(r)
    /\ ledger' = Insert(MakeRoom(Supersede(ledger, r)), r)

LedgerNext == \E r \in SettlementRecord : Record(r)

LedgerSpec == LedgerInit /\ [][LedgerNext]_ledger

---------------------------------------------------------------------------
(* What the readers answer.                                                *)

get_by_network_tx(n, h) == ledger.by_tx[<<n, h>>]

(* Only when the hash is known on a single network.                        *)
get_by_tx(h) ==
    LET known == {n \in Networks : ledger.by_tx[<<n, h>>] # NoRecord}
    IN  IF \E n \in known : known = {n}
        THEN ledger.by_tx[<<CHOOSE n \in known : TRUE, h>>]
        ELSE NoRecord

find_by_payer(payer) == ledger.by_payer[ToLower(payer)]

(* saturating_add                                                          *)
AddVolume(sum, amount) == IF sum + amount > MaxVolume THEN MaxVolume ELSE sum + amount

summary ==
    LET counted[n \in Nat] ==
            IF n = 0
            THEN [total_settled_volume |-> 0, successful_count |-> 0, failed_count |-> 0]
            ELSE LET sum == counted[n - 1]  r == ledger.records[n]
                 IN  IF r.success
                     THEN [total_settled_volume |-> AddVolume(sum.total_settled_volume, r.amount),
                           successful_count |-> sum.successful_count + 1,
                           failed_count |-> sum.failed_count]
                     ELSE [sum EXCEPT !.failed_count = @ + 1]
    IN  counted[Len(ledger.records)]

---------------------------------------------------------------------------
(* Properties.                                                             *)

Retained == {ledger.records[i] : i \in 1..Len(ledger.records)}

(* Those of a sequence that are in a set, in the sequence's order.         *)
Those(s, S) ==
    LET kept[n \in Nat] ==
            IF n = 0 THEN <<>>
            ELSE IF s[n] \in S THEN Append(kept[n - 1], s[n]) ELSE kept[n - 1]
    IN  kept[Len(s)]

Confirmed     == {r \in SettlementRecord : r.success}
OfKey(n, h)   == {r \in SettlementRecord : r.network = n /\ r.tx = h}
InAscii(a)    == {r \in SettlementRecord : r.payer.account = a /\ r.payer.spelling # "unicode_upper"}
OfAccount(a)  == {r \in SettlementRecord : r.payer.account = a}

(* Replacement and eviction keep the queue within its capacity and in step *)
(* with the index by transaction: a transaction is retained once, and      *)
(* looking it up, with or without its network, never answers a record that *)
(* is gone nor picks one of two networks.                                  *)
TransactionsAgree ==
    /\ Len(ledger.records) <= MaxRecords
    /\ \A n \in Networks, h \in Hashes :
          Those(ledger.records, OfKey(n, h)) =
              IF get_by_network_tx(n, h) = NoRecord THEN <<>> ELSE <<get_by_network_tx(n, h)>>
    /\ \A h \in Hashes :
          LET homes == {r.network : r \in {q \in Retained : q.tx = h}}
          IN  /\ get_by_tx(h) # NoRecord => get_by_tx(h) \in Retained
              /\ get_by_tx(h) # NoRecord <=> \E n \in Networks : homes = {n}
    /\ LET sum == summary
       IN  /\ sum.successful_count = Len(Those(ledger.records, Confirmed))
           /\ sum.successful_count + sum.failed_count = Len(ledger.records)

(* For payers written in ASCII, whatever their case, the payer's records   *)
(* are exactly the retained ones, in the order they were recorded.         *)
PayersAgree ==
    \A a \in Accounts :
        Those(find_by_payer(Lower[a]), InAscii(a)) = Those(ledger.records, InAscii(a))

(* Both of the above: every way to look a record up agrees with the queue. *)
LookupsAgree == LedgerTypeOK /\ TransactionsAgree /\ PayersAgree

(* A confirmation is immutable: it stays until, the oldest of a full       *)
(* ledger, it is evicted for a record of another transaction.              *)
ConfirmationImmutable ==
    [][\A i \in 1..Len(ledger.records) :
          LET r == ledger.records[i]
          IN  r.success /\ HasKey(r) /\ (i > 1 \/ Len(ledger.records) < MaxRecords)
              => ledger'.by_tx[transaction_key(r)] = r]_ledger

(* settlement_ledger.rs: find_by_payer "Returns all records for a given    *)
(* payer address", of those the ledger retains.                            *)
PayerRecordsRetained ==
    \A a \in Accounts : Len(find_by_payer(Lower[a])) =
        Len(Those(ledger.records, OfAccount(a)))
=============================================================================
