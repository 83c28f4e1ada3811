------------------------------- MODULE Price -------------------------------
(***************************************************************************)
(* The price of a call, kite.rs: the text of PRICE_USD and the name of     *)
(* KITE_NETWORK turned into units of the network's stablecoin, by string   *)
(* arithmetic.  A text is a sequence of characters.                        *)
(***************************************************************************)
EXTENDS Integers, FiniteSetsExt, SequencesExt

CONSTANTS Alphabet,         \* characters of a price
          MaxLength,        \* bound: characters of a price
          MainnetDecimals,  \* asset_decimals of KITE_MAINNET, 6
          TestnetDecimals   \* asset_decimals of KITE_TESTNET, 18

ASSUME PriceAssumption ==
    MaxLength \in Nat /\ MainnetDecimals \in Nat /\ TestnetDecimals \in Nat

VARIABLES price_usd, network_name,
          priced   \* the amount in units, or why there is none

pricing == <<price_usd, network_name, priced>>

Digit == [c \in {"0", "1", "2", "3", "4", "5", "6", "7", "8", "9"} |->
             CASE c = "0" -> 0 [] c = "1" -> 1 [] c = "2" -> 2 [] c = "3" -> 3
               [] c = "4" -> 4 [] c = "5" -> 5 [] c = "6" -> 6 [] c = "7" -> 7
               [] c = "8" -> 8 [] c = "9" -> 9]

Texts == UNION {[1..n -> Alphabet] : n \in 0..MaxLength}

(* kite_chain_by_name, of the chain what the amount depends on.            *)
kite_chain_by_name(name) ==
    CASE name \in {"", "mainnet"} -> MainnetDecimals
      [] name = "testnet"         -> TestnetDecimals
      [] OTHER                    -> -1

(* s without the c's it starts with.                                       *)
trim_start(s, c) ==
    LET kept == {i \in DOMAIN s : s[i] # c}
    IN  IF kept = {} THEN <<>> ELSE SubSeq(s, Min(kept), Len(s))

trim(s) == Reverse(trim_start(Reverse(trim_start(s, " ")), " "))

strip_prefix(s) == IF s # <<>> /\ Head(s) = "$" THEN Tail(s) ELSE s

Dots(s) == {i \in DOMAIN s : s[i] = "."}

is_plain_positive_decimal(s) ==
    /\ s # <<>>
    /\ ToSet(s) \subseteq DOMAIN Digit \cup {"."}
    /\ Cardinality(Dots(s)) <= 1
    /\ Dots(s) \cap {1, Len(s)} = {}

Whole(s) == IF Dots(s) = {} THEN s ELSE SubSeq(s, 1, Min(Dots(s)) - 1)
Frac(s)  == IF Dots(s) = {} THEN <<>> ELSE SubSeq(s, Min(Dots(s)) + 1, Len(s))

Zeros(n) == [i \in 1..n |-> "0"]

(* Faulty: scales by the fraction's length instead of what it lacks.       *)
UnitsUnpadded(s, decimals) == trim_start(Whole(s) \o Frac(s) \o Zeros(decimals), "0")

Units(s, decimals) ==
    trim_start(Whole(s) \o Frac(s) \o Zeros(decimals - Len(Frac(s))), "0")

parse_price(text, decimals) ==
    LET s == strip_prefix(trim(text))
    IN  IF ~is_plain_positive_decimal(s)      THEN [error |-> "invalid", units |-> <<>>]
        ELSE IF Len(Frac(s)) > decimals       THEN [error |-> "too_many_decimals", units |-> <<>>]
        ELSE IF Units(s, decimals) = <<>>     THEN [error |-> "below_one_unit", units |-> <<>>]
        ELSE [error |-> "", units |-> Units(s, decimals)]

Unpriced == [error |-> "unpriced", units |-> <<>>]

PriceInit ==
    /\ price_usd \in Texts
    /\ network_name \in {"", "mainnet", "testnet", "goerli"}
    /\ priced = Unpriced

(* An unknown network: the service does not start.                         *)
SetPrice ==
    /\ priced = Unpriced
    /\ priced' = IF kite_chain_by_name(network_name) = -1
                 THEN [error |-> "unknown_network", units |-> <<>>]
                 ELSE parse_price(price_usd, kite_chain_by_name(network_name))
    /\ UNCHANGED <<price_usd, network_name>>

PriceSet == priced # Unpriced /\ UNCHANGED pricing

PriceNext == SetPrice \/ PriceSet

PriceSpec == PriceInit /\ [][PriceNext]_pricing

---------------------------------------------------------------------------
(* The number a sequence of digits denotes.                                *)
ValueOf(s) ==
    LET sum[n \in Nat] == IF n = 0 THEN 0 ELSE 10 * sum[n - 1] + Digit[s[n]]
    IN  sum[Len(s)]

Pow10[n \in Nat] == IF n = 0 THEN 1 ELSE 10 * Pow10[n - 1]

Numeral(text, i, j) == \A n \in i..j : text[n] \in DOMAIN Digit

(* Digits after the point, when the digits before it end at j.             *)
Places(j, k) == IF k = j THEN 0 ELSE k - j - 1

(* The ways to read an amount in a text: blanks, perhaps a dollar sign,    *)
(* digits i to j, perhaps a point and digits up to k, and blanks.          *)
Readings(text, decimals) ==
    {r \in [i : DOMAIN text, j : DOMAIN text, k : DOMAIN text] :
        /\ r.i <= r.j /\ Numeral(text, r.i, r.j)
        /\ \A n \in 1..(r.i - 1) : text[n] = " " \/ (n = r.i - 1 /\ text[n] = "$")
        /\ r.k = r.j \/ (r.k > r.j + 1 /\ text[r.j + 1] = "." /\ Numeral(text, r.j + 2, r.k))
        /\ \A n \in (r.k + 1)..Len(text) : text[n] = " "
        /\ Places(r.j, r.k) <= decimals}

(* The amounts of units a text denotes.                                    *)
Denoted(text, decimals) ==
    {ValueOf(SubSeq(text, r.i, r.j) \o SubSeq(text, r.j + 2, r.k))
        * Pow10[decimals - Places(r.j, r.k)] : r \in Readings(text, decimals)}

(* A price is charged to the unit: what the operator wrote, neither more   *)
(* nor less, on the network the operator named, as a numeral without       *)
(* leading zeros; and it is refused only when it is no such amount of at   *)
(* least a unit.                                                           *)
PricedExactly ==
    priced # Unpriced =>
        LET named == {n \in {MainnetDecimals, TestnetDecimals} :
                         IF network_name = "testnet" THEN n = TestnetDecimals
                         ELSE network_name \in {"", "mainnet"} /\ n = MainnetDecimals}
            meant == (UNION {Denoted(price_usd, n) : n \in named}) \ {0}
        IN  IF priced.error = "" THEN /\ meant = {ValueOf(priced.units)}
                                      /\ Head(priced.units) # "0"
                                 ELSE meant = {}
=============================================================================
