---------------------------- MODULE RequestProofs ----------------------------
(***************************************************************************)
(* What decides one request or one call: the address rules, the client's   *)
(* address, the origin it comes from, the expiration of its payment, the   *)
(* calls of the facilitator and of the upstream, the price it is charged   *)
(* and the settings all of them start with; for any addresses, prefixes,   *)
(* limits, texts and bounds.                                               *)
(***************************************************************************)
EXTENDS Proxy, Cors, Startup, Facilitator, Firewall, ForwardedClient, Expiration,
        Price, FiniteSetTheorems, SequenceTheorems, NaturalsInduction, WellFoundedInduction, TLAPS

(* A set of naturals that holds 0 and each successor of its members.        *)
LEMMA NatSet ==
    ASSUME NEW S \in SUBSET Nat, 0 \in S, \A n \in S : n + 1 \in S
    PROVE  S = Nat
<1> DEFINE R == OpToRel(<, Nat)
           T == Nat \ S
<1>1. IsWellFoundedOn(R, Nat)
  BY NatLessThanWellFounded
<1>2. \A x, y \in Nat : y < x => <<y, x>> \in R
  BY DEF OpToRel
<1>3. SUFFICES ASSUME T # {} PROVE FALSE
  OBVIOUS
<1>4. PICK x \in T : \A y \in T : ~ (<<y, x>> \in R)
  <2> HIDE DEF R
  <2> QED BY <1>1, <1>3, WFMin
<1>5. x # 0 /\ x - 1 \in Nat /\ x - 1 < x
  OBVIOUS
<1>6. x - 1 \in T
  BY <1>5
<1> HIDE DEF R
<1> QED
  BY <1>2, <1>4, <1>5, <1>6

---------------------------------------------------------------------------
(* Numbers and their bits.                                                 *)

(* Division leaves a remainder below the divisor.                          *)
LEMMA DivMod ==
    ASSUME NEW a \in Nat, NEW m \in Nat, m > 0
    PROVE  /\ a \div m \in Nat /\ a % m \in Nat /\ a % m < m
           /\ a = (a \div m) * m + (a % m)
OBVIOUS

LEMMA MulMono ==
    ASSUME NEW m \in Nat, NEW x \in Int, NEW y \in Int, x <= y
    PROVE  x * m <= y * m
OBVIOUS

(* Quotient and remainder are unique.                                      *)
LEMMA DivUnique ==
    ASSUME NEW a \in Nat, NEW m \in Nat, m > 0, NEW q \in Nat, NEW r \in Nat, r < m,
           a = q * m + r
    PROVE  a \div m = q
<1> DEFINE d == a \div m  e == a % m
<1>1. d \in Nat /\ e \in Nat /\ e < m /\ a = d * m + e
  BY DivMod
<1> HIDE DEF d, e
<1>2. CASE d < q
  <2>1. d + 1 <= q BY <1>1, <1>2
  <2>2. (d + 1) * m <= q * m BY <2>1, <1>1, MulMono
  <2>3. (d + 1) * m = d * m + m BY <1>1
  <2>4. d * m \in Nat /\ q * m \in Nat BY <1>1
  <2> QED BY <2>2, <2>3, <2>4, <1>1
<1>3. CASE q < d
  <2>1. q + 1 <= d BY <1>1, <1>3
  <2>2. (q + 1) * m <= d * m BY <2>1, <1>1, MulMono
  <2>3. (q + 1) * m = q * m + m OBVIOUS
  <2>4. d * m \in Nat /\ q * m \in Nat BY <1>1
  <2> QED BY <2>2, <2>3, <2>4, <1>1
<1> QED BY <1>1, <1>2, <1>3 DEF d

(* Halving a quotient is dividing by twice as much.                        *)
LEMMA DivTwice ==
    ASSUME NEW a \in Nat, NEW m \in Nat, m > 0
    PROVE  a \div (2 * m) = (a \div m) \div 2
<1> DEFINE x == a \div m  e == a % m  q == x \div 2  b == x % 2
<1>1. x \in Nat /\ e \in Nat /\ e < m /\ a = x * m + e
  BY DivMod
<1>2. q \in Nat /\ b \in {0, 1} /\ x = 2 * q + b
  <2> HIDE DEF x
  <2> QED BY <1>1
<1> HIDE DEF x, e, q, b
<1>3. a = q * (2 * m) + (b * m + e)
  <2>1. x * m = (2 * q + b) * m BY <1>2
  <2>2. (2 * q + b) * m = q * (2 * m) + b * m BY <1>2
  <2>3. q * (2 * m) \in Nat /\ b * m \in Nat BY <1>2
  <2> QED BY <1>1, <1>2, <2>1, <2>2, <2>3
<1>4. b * m + e \in Nat /\ b * m + e < 2 * m /\ 2 * m \in Nat /\ 2 * m > 0
  BY <1>1, <1>2
<1>5. a \div (2 * m) = q
  <2> DEFINE r == b * m + e  n == 2 * m
  <2> HIDE DEF r, n
  <2> QED BY <1>2, <1>3, <1>4, DivUnique DEF r, n
<1> QED BY <1>5 DEF q, x

(* 1 << n doubles with n.                                                  *)
LEMMA Pow2Doubles ==
    /\ Pow2[0] = 1
    /\ \A n \in Nat : Pow2[n + 1] = 2 * Pow2[n]
<1> DEFINE Doubled(v, n) == 2 * v
<1>1. NatInductiveDefHypothesis(Pow2, 1, Doubled)
  BY DEF NatInductiveDefHypothesis, Pow2
<1>2. NatInductiveDefConclusion(Pow2, 1, Doubled)
  BY <1>1, NatInductiveDef
<1>3. Pow2[0] = 1
  BY <1>2 DEF NatInductiveDefConclusion
<1>4. ASSUME NEW n \in Nat PROVE Pow2[n + 1] = Doubled(Pow2[n], n + 1)
  <2>1. n + 1 \in Nat /\ n + 1 # 0 /\ (n + 1) - 1 = n
    OBVIOUS
  <2> QED BY <1>2, <2>1 DEF NatInductiveDefConclusion
<1> QED BY <1>3, <1>4

LEMMA Pow2Positive == \A n \in Nat : Pow2[n] \in Nat /\ Pow2[n] > 0
<1> DEFINE S == {n \in Nat : Pow2[n] \in Nat /\ Pow2[n] > 0}
<1>1. S \in SUBSET Nat /\ 0 \in S
  BY Pow2Doubles
<1>2. ASSUME NEW n \in S PROVE n + 1 \in S
  BY Pow2Doubles
<1>3. S = Nat
  <2> HIDE DEF S
  <2> QED BY <1>1, <1>2, NatSet
<1> QED BY <1>3

(* Two numbers of a width share their first p bits if they are the same    *)
(* when the others are shifted out.                                        *)
LEMMA SamePrefix ==
    ASSUME NEW W \in Nat, NEW a \in Nat, NEW b \in Nat, a < Pow2[W], b < Pow2[W],
           NEW p \in 0..W
    PROVE  a \div Pow2[W - p] = b \div Pow2[W - p]
              <=> \A i \in 1..p : (a \div Pow2[W - i]) % 2 = (b \div Pow2[W - i]) % 2
<1> DEFINE X(i) == a \div Pow2[W - i]  Y(i) == b \div Pow2[W - i]
           Same(n) == n <= W => (X(n) = Y(n) <=> \A i \in 1..n : X(i) % 2 = Y(i) % 2)
           S == {n \in Nat : Same(n)}
<1>1. Same(0)
  <2>1. W - 0 = W /\ Pow2[W] \in Nat /\ Pow2[W] > 0
    BY Pow2Positive
  <2>2. a \div Pow2[W] = 0 /\ b \div Pow2[W] = 0
    <3> DEFINE m == Pow2[W]
    <3> HIDE DEF m
    <3>1. m \in Nat /\ m > 0 /\ a < m /\ b < m /\ a = 0 * m + a /\ b = 0 * m + b
      BY <2>1 DEF m
    <3>2. a \div m = 0 /\ b \div m = 0
      BY <3>1, DivUnique
    <3> QED BY <3>2 DEF m
  <2> QED BY <2>1, <2>2
<1>2. ASSUME NEW n \in Nat, Same(n) PROVE Same(n + 1)
  <2> SUFFICES ASSUME n + 1 <= W
               PROVE  X(n + 1) = Y(n + 1) <=> \A i \in 1..(n + 1) : X(i) % 2 = Y(i) % 2
    OBVIOUS
  <2>1. W - (n + 1) \in Nat /\ W - n = (W - (n + 1)) + 1 /\ n <= W
    OBVIOUS
  <2>2. Pow2[W - n] = 2 * Pow2[W - (n + 1)]
    BY <2>1, Pow2Doubles
  <2>3. X(n) = X(n + 1) \div 2 /\ Y(n) = Y(n + 1) \div 2
    <3> DEFINE m == Pow2[W - (n + 1)]
    <3>1. m \in Nat /\ m > 0
      BY <2>1, Pow2Positive
    <3>2. X(n) = a \div (2 * m) /\ Y(n) = b \div (2 * m)
      BY <2>2
    <3> HIDE DEF m
    <3>3. a \div (2 * m) = (a \div m) \div 2 /\ b \div (2 * m) = (b \div m) \div 2
      BY <3>1, DivTwice
    <3> QED BY <3>2, <3>3 DEF m
  <2>4. X(n + 1) \in Nat /\ Y(n + 1) \in Nat
    BY <2>1, DivMod, Pow2Positive
  <2>5. X(n + 1) = Y(n + 1) <=> X(n) = Y(n) /\ X(n + 1) % 2 = Y(n + 1) % 2
    <3> HIDE DEF X, Y
    <3> QED BY <2>3, <2>4
  <2>6. X(n) = Y(n) <=> \A i \in 1..n : X(i) % 2 = Y(i) % 2
    BY <1>2, <2>1
  <2> HIDE DEF X, Y
  <2>7. (\A i \in 1..(n + 1) : X(i) % 2 = Y(i) % 2)
          <=> (\A i \in 1..n : X(i) % 2 = Y(i) % 2) /\ X(n + 1) % 2 = Y(n + 1) % 2
    <3>1. \A i \in 1..(n + 1) : i \in 1..n \/ i = n + 1
      OBVIOUS
    <3>2. \A i \in 1..n : i \in 1..(n + 1)
      OBVIOUS
    <3>3. n + 1 \in 1..(n + 1)
      OBVIOUS
    <3> DEFINE P(i) == X(i) % 2 = Y(i) % 2
    <3>4. (\A i \in 1..(n + 1) : P(i)) <=> (\A i \in 1..n : P(i)) /\ P(n + 1)
      <4> HIDE DEF P
      <4> QED BY <3>1, <3>2, <3>3, Zenon
    <3> QED BY <3>4
  <2> QED BY <2>5, <2>6, <2>7
<1> HIDE DEF Same
<1>3. S = Nat
  <2>1. S \in SUBSET Nat /\ 0 \in S /\ \A n \in S : n + 1 \in S
    BY <1>1, <1>2
  <2> HIDE DEF S
  <2> QED BY <2>1, NatSet
<1>4. Same(p)
  BY <1>3
<1> QED BY <1>4 DEF Same

(* Bits that are not of the prefix are masked out, not only shifted.       *)
LEMMA SameMasked ==
    ASSUME NEW a \in Nat, NEW b \in Nat, NEW m \in Nat, m > 0
    PROVE  a - (a % m) = b - (b % m) <=> a \div m = b \div m
<1> DEFINE x == a \div m  y == b \div m  c == a % m  d == b % m
<1>1. x \in Nat /\ c \in Nat /\ a = x * m + c
  BY DivMod
<1>2. y \in Nat /\ d \in Nat /\ b = y * m + d
  BY DivMod
<1> HIDE DEF x, y, c, d
<1>3. a - c = x * m /\ b - d = y * m
  <2>1. x * m \in Nat /\ y * m \in Nat
    BY <1>1, <1>2
  <2> QED BY <1>1, <1>2, <2>1
<1>4. x * m = y * m <=> x = y
  <2>1. CASE x < y
    <3>1. (x + 1) * m <= y * m /\ (x + 1) * m = x * m + m /\ x * m \in Nat
      BY <2>1, <1>1, <1>2, MulMono
    <3> QED BY <3>1, <2>1, <1>1, <1>2
  <2>2. CASE y < x
    <3>1. (y + 1) * m <= x * m /\ (y + 1) * m = y * m + m /\ y * m \in Nat
      BY <2>2, <1>1, <1>2, MulMono
    <3> QED BY <3>1, <2>2, <1>1, <1>2
  <2> QED BY <2>1, <2>2, <1>1, <1>2
<1> QED BY <1>3, <1>4 DEF x, y, c, d

---------------------------------------------------------------------------
(* The firewall.                                                           *)

LEMMA PowersPositive ==
    ASSUME NEW W \in Nat, NEW p \in 0..W
    PROVE  W - p \in Nat /\ Pow2[W - p] \in Nat /\ Pow2[W - p] > 0
<1>1. W - p \in Nat
  OBVIOUS
<1>2. QED
  BY <1>1, Pow2Positive

(* The masks of matches compare the first bits, neither more nor fewer.    *)
LEMMA MatchesBlock ==
    ASSUME NEW r \in Rules, NEW ip \in IPs
    PROVE  matches(r, ip) <=> ip \in Block(r)
<1>1. CASE r.exact
  BY <1>1 DEF matches, Block
<1>2. CASE ~r.exact
  <2> DEFINE a == r.ip.bits  b == ip.bits  p == r.prefix  W == IpWidth
  <2>1. W \in Nat /\ p \in 0..W
    BY <1>2, FirewallAssumption DEF Rules
  <2>2. r.ip \in IPs
    BY <1>2 DEF Rules
  <2>3. a \in Nat /\ b \in Nat /\ a < Pow2[W] /\ b < Pow2[W]
    <3>1. Pow2[W] \in Nat
      BY <2>1, Pow2Positive
    <3>2. a \in 0..(Pow2[W] - 1) /\ b \in 0..(Pow2[W] - 1)
      BY <2>2 DEF IPs
    <3> HIDE DEF a, b, W
    <3>3. QED
      BY <3>1, <3>2
  <2>4. matches(r, ip) <=> ip.v4 /\ (p = 0 \/ a - (a % Pow2[W - p]) = b - (b % Pow2[W - p]))
    BY <1>2 DEF matches, Masked
  <2>5. ip \in Block(r) <=> ip.v4 /\ \A i \in 1..p : (b \div Pow2[W - i]) % 2 = (a \div Pow2[W - i]) % 2
    BY <1>2 DEF Block, Bit
  <2> HIDE DEF a, b, p, W
  <2>6. W - p \in Nat /\ Pow2[W - p] \in Nat /\ Pow2[W - p] > 0
    BY <2>1, PowersPositive
  <2>7. a - (a % Pow2[W - p]) = b - (b % Pow2[W - p]) <=> a \div Pow2[W - p] = b \div Pow2[W - p]
    BY <2>3, <2>6, SameMasked
  <2>8. a \div Pow2[W - p] = b \div Pow2[W - p]
           <=> \A i \in 1..p : (a \div Pow2[W - i]) % 2 = (b \div Pow2[W - i]) % 2
    BY <2>1, <2>3, SamePrefix, Zenon
  <2>9. p = 0 => \A i \in 1..p : (b \div Pow2[W - i]) % 2 = (a \div Pow2[W - i]) % 2
    OBVIOUS
  <2> DEFINE A(i) == (a \div Pow2[W - i]) % 2  B(i) == (b \div Pow2[W - i]) % 2
  <2>10. (\A i \in 1..p : A(i) = B(i)) <=> (\A i \in 1..p : B(i) = A(i))
    <3> HIDE DEF A, B
    <3> QED OBVIOUS
  <2>11. QED
    BY <2>4, <2>5, <2>7, <2>8, <2>9, <2>10
<1>3. QED
  BY <1>1, <1>2

FirewallIInv ==
    /\ allow_rules \subseteq Rules /\ deny_rules \subseteq Rules
    /\ \A ip \in IPs : ip \in shut <=> \E r \in deny_rules : ip \in Block(r)
    /\ \A ip \in IPs : ip \in let_in <=> \E r \in allow_rules : ip \in Block(r)

(* The constructor cuts a prefix that is too long.                         *)
LEMMA SubnetIsRule ==
    ASSUME NEW ip \in IPs, ip.v4, NEW p \in 0..(IpWidth + 1)
    PROVE  subnet_v4(ip, p) \in Rules
<1>1. (IF p < IpWidth THEN p ELSE IpWidth) \in 0..IpWidth
  BY FirewallAssumption
<1>2. QED
  BY <1>1 DEF subnet_v4, Rules

LEMMA DenyKeeps ==
    ASSUME FirewallIInv, NEW rule \in Rules, deny(rule)
    PROVE  FirewallIInv'
BY DEF FirewallIInv, deny

LEMMA AllowKeeps ==
    ASSUME FirewallIInv, NEW rule \in Rules, allow(rule)
    PROVE  FirewallIInv'
BY DEF FirewallIInv, allow

(* What evaluate says, by the blocks of the rules.                         *)
LEMMA WallSound == FirewallIInv => DenialsHold
<1> SUFFICES ASSUME FirewallIInv, NEW ip \in IPs
             PROVE  /\ ip \in shut => evaluate(ip) = "deny"
                    /\ allow_rules # {} /\ ip \notin let_in => evaluate(ip) = "deny"
                    /\ ip \in let_in \ shut => evaluate(ip) = "allow"
                    /\ allow_rules = {} /\ ip \notin shut => evaluate(ip) = default_action
  BY DEF DenialsHold
<1>1. ip \in shut <=> \E r \in deny_rules : matches(r, ip)
  BY MatchesBlock DEF FirewallIInv
<1>2. ip \in let_in <=> \E r \in allow_rules : matches(r, ip)
  BY MatchesBlock DEF FirewallIInv
<1>3. QED
  BY <1>1, <1>2 DEF evaluate

(* For any width and any rules, added in any order: an address of a denied *)
(* block is out for good (firewall.rs, evaluate and matches).              *)
THEOREM DenialsEnforced == FirewallSpec => []DenialsHold
<1>1. FirewallInit => FirewallIInv
  BY DEF FirewallInit, FirewallIInv
<1>2. FirewallIInv /\ [FirewallNext]_wall => FirewallIInv'
  <2> SUFFICES ASSUME FirewallIInv, [FirewallNext]_wall PROVE FirewallIInv'
    OBVIOUS
  <2>1. CASE \E rule \in {r \in Rules : r.exact} : deny(rule) \/ allow(rule)
    BY <2>1, DenyKeeps, AllowKeeps
  <2>2. CASE \E ip \in {ip \in IPs : ip.v4}, p \in 0..(IpWidth + 1) :
                deny(subnet_v4(ip, p)) \/ allow(subnet_v4(ip, p))
    BY <2>2, SubnetIsRule, DenyKeeps, AllowKeeps
  <2>3. CASE UNCHANGED wall
    BY <2>3 DEF FirewallIInv, wall
  <2>4. QED
    BY <2>1, <2>2, <2>3 DEF FirewallNext
<1>3. QED
  BY <1>1, <1>2, WallSound, PTL DEF FirewallSpec

---------------------------------------------------------------------------
(* The address a request counts against.                                   *)

Hops == Addresses \cup {Garbage, Unreadable}

(* f is the walk along a line, or along the lines, hop by hop.             *)
WalksLine(f, at, line) ==
    /\ f[0] = at
    /\ \A n \in Nat : f[n + 1] = Nearer(f[n], line[Len(line) + 1 - (n + 1)])
    /\ AlongLine(at, line) = f[Len(line)]

WalksLines(f, at, lines) ==
    /\ f[0] = at
    /\ \A n \in Nat : f[n + 1] = AlongLine(f[n], Line(lines[Len(lines) + 1 - (n + 1)]))
    /\ AlongLines(at, lines) = f[Len(lines)]

(* The definitions by recursion are such walks.                            *)
LEMMA LineReached ==
    \A at, line : \E f : WalksLine(f, at, line)
<1> SUFFICES ASSUME NEW at, NEW line
             PROVE  \E f : WalksLine(f, at, line)
  OBVIOUS
<1> DEFINE reached[n \in Nat] ==
               IF n = 0 THEN at ELSE Nearer(reached[n - 1], line[Len(line) + 1 - n])
           Next1(v, n) == Nearer(v, line[Len(line) + 1 - n])
<1>1. AlongLine(at, line) = reached[Len(line)]
  BY DEF AlongLine
<1>2. NatInductiveDefHypothesis(reached, at, Next1)
  BY DEF NatInductiveDefHypothesis
<1> HIDE DEF reached, Next1
<1>3. NatInductiveDefConclusion(reached, at, Next1)
  BY <1>2, NatInductiveDef
<1>4. /\ reached[0] = at
      /\ \A n \in Nat : reached[n + 1] = Next1(reached[n], n + 1)
  BY <1>3 DEF NatInductiveDefConclusion
<1>5. QED
  BY <1>1, <1>4 DEF Next1, WalksLine

LEMMA LinesReached ==
    \A at, lines : \E f : WalksLines(f, at, lines)
<1> SUFFICES ASSUME NEW at, NEW lines
             PROVE  \E f : WalksLines(f, at, lines)
  OBVIOUS
<1> DEFINE reached[n \in Nat] ==
               IF n = 0 THEN at
               ELSE AlongLine(reached[n - 1], Line(lines[Len(lines) + 1 - n]))
           Next1(v, n) == AlongLine(v, Line(lines[Len(lines) + 1 - n]))
<1>1. AlongLines(at, lines) = reached[Len(lines)]
  BY DEF AlongLines
<1>2. NatInductiveDefHypothesis(reached, at, Next1)
  BY DEF NatInductiveDefHypothesis
<1> HIDE DEF reached, Next1
<1>3. NatInductiveDefConclusion(reached, at, Next1)
  BY <1>2, NatInductiveDef
<1>4. /\ reached[0] = at
      /\ \A n \in Nat : reached[n + 1] = Next1(reached[n], n + 1)
  BY <1>3 DEF NatInductiveDefConclusion
<1>5. QED
  BY <1>1, <1>4 DEF Next1, WalksLines

(* A walk ends at the first address that is not trusted.                   *)
LEMMA LineStays ==
    \A at : at = Error \/ ~contains(at) =>
        \A line : Len(line) \in Nat => AlongLine(at, line) = at
<1> SUFFICES ASSUME NEW at, at = Error \/ ~contains(at), NEW line, Len(line) \in Nat
             PROVE  AlongLine(at, line) = at
  OBVIOUS
<1>1. PICK f : WalksLine(f, at, line)
  BY LineReached
<1> DEFINE S == {n \in Nat : f[n] = at}
<1>2. S \in SUBSET Nat /\ 0 \in S
  BY <1>1 DEF WalksLine
<1>3. ASSUME NEW n \in S PROVE n + 1 \in S
  <2>1. n \in Nat /\ n + 1 \in Nat /\ f[n] = at
    OBVIOUS
  <2>2. f[n + 1] = Nearer(at, line[Len(line) + 1 - (n + 1)])
    BY <1>1, <2>1 DEF WalksLine
  <2>3. f[n + 1] = at
    BY <2>2 DEF Nearer
  <2>4. QED
    BY <2>1, <2>3
<1>4. S = Nat
  <2> HIDE DEF S
  <2> QED BY <1>2, <1>3, NatSet
<1>5. QED
  BY <1>1, <1>4 DEF WalksLine

LEMMA LinesStay ==
    \A at : at = Error \/ ~contains(at) =>
        \A lines \in Seq(Seq(Hops)) : AlongLines(at, lines) = at
<1> SUFFICES ASSUME NEW at, at = Error \/ ~contains(at), NEW lines \in Seq(Seq(Hops))
             PROVE  AlongLines(at, lines) = at
  OBVIOUS
<1>1. PICK f : WalksLines(f, at, lines)
  BY LinesReached
<1> DEFINE S == {n \in Nat : n <= Len(lines) => f[n] = at}
<1>2. S \in SUBSET Nat /\ 0 \in S
  BY <1>1 DEF WalksLines
<1>3. ASSUME NEW n \in S PROVE n + 1 \in S
  <2> SUFFICES ASSUME n + 1 <= Len(lines) PROVE f[n + 1] = at
    OBVIOUS
  <2> DEFINE k == Len(lines) + 1 - (n + 1)  l == lines[k]
  <2>1. Len(Line(l)) \in Nat
    <3>1. k \in 1..Len(lines)
      OBVIOUS
    <3> HIDE DEF k
    <3>2. l \in Seq(Hops)
      BY <3>1
    <3>3. QED
      BY <3>2 DEF Line
  <2>2. f[n] = at
    OBVIOUS
  <2>3. f[n + 1] = AlongLine(f[n], Line(l))
    BY <1>1 DEF WalksLines
  <2> HIDE DEF l
  <2>4. QED
    BY <2>1, <2>2, <2>3, LineStays
<1>4. S = Nat
  <2> HIDE DEF S
  <2> QED BY <1>2, <1>3, NatSet
<1>5. \A n \in Nat : n <= Len(lines) => f[n] = at
  BY <1>4
<1> HIDE DEF S
<1>6. Len(lines) \in Nat /\ Len(lines) <= Len(lines)
  OBVIOUS
<1>7. f[Len(lines)] = at
  BY <1>5, <1>6
<1>8. QED
  BY <1>1, <1>7 DEF WalksLines

(* A hop more at the end of a line is the first to be considered.          *)
LEMMA LineAppend ==
    \A at, hop : \A line \in Seq(Hops) : hop \in Hops =>
        AlongLine(at, Append(line, hop)) = AlongLine(Nearer(at, hop), line)
<1> SUFFICES ASSUME NEW at, NEW hop \in Hops, NEW line \in Seq(Hops)
             PROVE  AlongLine(at, Append(line, hop)) = AlongLine(Nearer(at, hop), line)
  OBVIOUS
<1> DEFINE longer == Append(line, hop)  m == Len(line)
<1>3. /\ m \in Nat /\ Len(longer) = m + 1 /\ longer[m + 1] = hop
      /\ \A i \in 1..m : longer[i] = line[i]
  OBVIOUS
<1> HIDE DEF longer
<1>1. PICK g : WalksLine(g, at, longer)
  BY LineReached
<1>2. PICK f : WalksLine(f, Nearer(at, hop), line)
  BY LineReached
<1>4. g[1] = Nearer(at, hop)
  <2> HIDE DEF longer, m
  <2>1. g[0 + 1] = Nearer(g[0], longer[Len(longer) + 1 - (0 + 1)])
    BY <1>1 DEF WalksLine
  <2>2. Len(longer) + 1 - (0 + 1) = m + 1 /\ 0 + 1 = 1
    BY <1>3
  <2>3. QED
    BY <1>1, <1>3, <2>1, <2>2 DEF WalksLine
<1> DEFINE S == {n \in Nat : n <= m => g[n + 1] = f[n]}
<1>5. S \in SUBSET Nat /\ 0 \in S
  <2>1. g[0 + 1] = f[0]
    BY <1>2, <1>4 DEF WalksLine
  <2>2. QED
    BY <2>1
<1>6. ASSUME NEW n \in S PROVE n + 1 \in S
  <2> HIDE DEF longer, m
  <2> SUFFICES ASSUME n + 1 <= m PROVE g[n + 1 + 1] = f[n + 1]
    OBVIOUS
  <2>1. n \in Nat /\ n + 1 \in Nat /\ g[n + 1] = f[n]
    BY <1>3
  <2>2. g[n + 1 + 1] = Nearer(g[n + 1], longer[Len(longer) + 1 - (n + 1 + 1)])
    BY <1>1, <2>1 DEF WalksLine
  <2>3. f[n + 1] = Nearer(f[n], line[Len(line) + 1 - (n + 1)])
    BY <1>2, <2>1 DEF WalksLine
  <2>4. /\ Len(longer) + 1 - (n + 1 + 1) = m - n
        /\ m + 1 - (n + 1) = m - n
        /\ m - n \in 1..m
    BY <1>3, <2>1
  <2>5. QED
    BY <1>3, <2>1, <2>2, <2>3, <2>4 DEF m
<1>7. S = Nat
  <2> HIDE DEF S
  <2> QED BY <1>5, <1>6, NatSet
<1>8. g[m + 1] = f[m]
  BY <1>3, <1>7
<1>9. QED
  BY <1>1, <1>2, <1>3, <1>8 DEF WalksLine, longer

(* A line more is the first to be considered.                              *)
LEMMA LinesAppend ==
    \A at : \A line \in Seq(Hops) : \A lines \in Seq(Seq(Hops)) :
        AlongLines(at, Append(lines, line)) = AlongLines(AlongLine(at, Line(line)), lines)
<1> SUFFICES ASSUME NEW at, NEW line \in Seq(Hops), NEW lines \in Seq(Seq(Hops))
             PROVE  AlongLines(at, Append(lines, line))
                       = AlongLines(AlongLine(at, Line(line)), lines)
  OBVIOUS
<1> DEFINE longer == Append(lines, line)  m == Len(lines)  first == AlongLine(at, Line(line))
<1>3. /\ m \in Nat /\ Len(longer) = m + 1 /\ longer[m + 1] = line
      /\ \A i \in 1..m : longer[i] = lines[i]
  OBVIOUS
<1> HIDE DEF longer, first
<1>1. PICK g : WalksLines(g, at, longer)
  BY LinesReached
<1>2. PICK f : WalksLines(f, first, lines)
  BY LinesReached
<1>4. g[1] = first
  <2> HIDE DEF longer, m
  <2>1. g[0 + 1] = AlongLine(g[0], Line(longer[Len(longer) + 1 - (0 + 1)]))
    BY <1>1 DEF WalksLines
  <2>2. Len(longer) + 1 - (0 + 1) = m + 1 /\ 0 + 1 = 1
    BY <1>3
  <2>3. QED
    BY <1>1, <1>3, <2>1, <2>2 DEF WalksLines, first
<1> DEFINE S == {n \in Nat : n <= m => g[n + 1] = f[n]}
<1>5. S \in SUBSET Nat /\ 0 \in S
  <2>1. g[0 + 1] = f[0]
    BY <1>2, <1>4 DEF WalksLines
  <2>2. QED
    BY <2>1
<1>6. ASSUME NEW n \in S PROVE n + 1 \in S
  <2> HIDE DEF longer, m
  <2> SUFFICES ASSUME n + 1 <= m PROVE g[n + 1 + 1] = f[n + 1]
    OBVIOUS
  <2>1. n \in Nat /\ n + 1 \in Nat /\ g[n + 1] = f[n]
    BY <1>3
  <2>2. g[n + 1 + 1] = AlongLine(g[n + 1], Line(longer[Len(longer) + 1 - (n + 1 + 1)]))
    BY <1>1, <2>1 DEF WalksLines
  <2>3. f[n + 1] = AlongLine(f[n], Line(lines[Len(lines) + 1 - (n + 1)]))
    BY <1>2, <2>1 DEF WalksLines
  <2>4. /\ Len(longer) + 1 - (n + 1 + 1) = m - n
        /\ m + 1 - (n + 1) = m - n
        /\ m - n \in 1..m
    BY <1>3, <2>1
  <2>5. QED
    BY <1>3, <2>1, <2>2, <2>3, <2>4 DEF m
<1>7. S = Nat
  <2> HIDE DEF S
  <2> QED BY <1>5, <1>6, NatSet
<1>8. g[m + 1] = f[m]
  BY <1>3, <1>7
<1>9. QED
  BY <1>1, <1>2, <1>3, <1>8 DEF first, WalksLines, longer

(* No hop, no step.                                                        *)
LEMMA LineEmpty == \A at : AlongLine(at, << >>) = at
<1> SUFFICES ASSUME NEW at PROVE AlongLine(at, << >>) = at
  OBVIOUS
<1>1. Len(<< >>) = 0
  OBVIOUS
<1>2. QED
  BY <1>1, LineReached DEF WalksLine

LEMMA LinesEmpty == \A at : AlongLines(at, << >>) = at
<1> SUFFICES ASSUME NEW at PROVE AlongLines(at, << >>) = at
  OBVIOUS
<1>1. Len(<< >>) = 0
  OBVIOUS
<1>2. QED
  BY <1>1, LinesReached DEF WalksLines

(* The walks of a step's two states are the same: the networks are.        *)
LEMMA LineSame ==
    ASSUME proxies' = proxies
    PROVE  \A at, line : Len(line) \in Nat => AlongLine(at, line)' = AlongLine(at, line)
<1>1. (\A at, line : \E f : WalksLine(f, at, line))'
  BY LineReached, PTL
<1>2. SUFFICES ASSUME NEW at, NEW line, Len(line) \in Nat
               PROVE  AlongLine(at, line)' = AlongLine(at, line)
  OBVIOUS
<1>3. PICK f : WalksLine(f, at, line)
  BY LineReached
<1>4. PICK g : WalksLine(g, at, line)'
  BY <1>1
<1>5. \A x, hop : Nearer(x, hop)' = Nearer(x, hop)
  BY DEF Nearer, contains
<1>6. /\ f[0] = at /\ g[0] = at
      /\ \A n \in Nat : f[n + 1] = Nearer(f[n], line[Len(line) + 1 - (n + 1)])
      /\ \A n \in Nat : g[n + 1] = Nearer(g[n], line[Len(line) + 1 - (n + 1)])
      /\ AlongLine(at, line) = f[Len(line)]
      /\ AlongLine(at, line)' = g[Len(line)]
  BY <1>3, <1>4, <1>5 DEF WalksLine
<1> DEFINE S == {n \in Nat : f[n] = g[n]}
<1>7. S \in SUBSET Nat /\ 0 \in S
  BY <1>6
<1>8. ASSUME NEW n \in S PROVE n + 1 \in S
  BY <1>6
<1>9. S = Nat
  <2> HIDE DEF S
  <2> QED BY <1>7, <1>8, NatSet
<1>10. QED
  BY <1>2, <1>6, <1>9

LEMMA LinesSame ==
    ASSUME proxies' = proxies
    PROVE  \A at : \A lines \in Seq(Seq(Hops)) :
              AlongLines(at, lines)' = AlongLines(at, lines)
<1>1. (\A at, lines : \E f : WalksLines(f, at, lines))'
  BY LinesReached, PTL
<1>2. SUFFICES ASSUME NEW at, NEW lines \in Seq(Seq(Hops))
               PROVE  AlongLines(at, lines)' = AlongLines(at, lines)
  OBVIOUS
<1>3. PICK f : WalksLines(f, at, lines)
  BY LinesReached
<1>4. PICK g : WalksLines(g, at, lines)'
  BY <1>1
<1>5. \A x, line : Len(line) \in Nat => AlongLine(x, line)' = AlongLine(x, line)
  BY LineSame
<1> DEFINE m == Len(lines)
<1>6. /\ f[0] = at /\ g[0] = at
      /\ \A n \in Nat : f[n + 1] = AlongLine(f[n], Line(lines[m + 1 - (n + 1)]))
      /\ \A n \in Nat : g[n + 1] = AlongLine(g[n], Line(lines[m + 1 - (n + 1)]))'
      /\ AlongLines(at, lines) = f[m]
      /\ AlongLines(at, lines)' = g[m]
  BY <1>3, <1>4 DEF WalksLines
<1> DEFINE S == {n \in Nat : n <= m => f[n] = g[n]}
<1>7. S \in SUBSET Nat /\ 0 \in S
  BY <1>6
<1>8. ASSUME NEW n \in S PROVE n + 1 \in S
  <2> SUFFICES ASSUME n + 1 <= m PROVE f[n + 1] = g[n + 1]
    OBVIOUS
  <2> DEFINE k == m + 1 - (n + 1)  l == lines[k]
  <2>1. k \in 1..m /\ n \in Nat /\ f[n] = g[n]
    OBVIOUS
  <2>2. Len(Line(l)) \in Nat
    <3> HIDE DEF k
    <3>1. l \in Seq(Hops)
      BY <2>1
    <3>2. QED
      BY <3>1 DEF Line
  <2>3. f[n + 1] = AlongLine(f[n], Line(l)) /\ g[n + 1] = AlongLine(g[n], Line(l))'
    BY <1>6, <2>1
  <2> HIDE DEF l
  <2>4. QED
    BY <1>5, <2>1, <2>2, <2>3
<1>9. S = Nat
  <2> HIDE DEF S
  <2> QED BY <1>7, <1>8, NatSet
<1>10. m \in Nat /\ m <= m
  OBVIOUS
<1>11. f[m] = g[m]
  BY <1>9, <1>10
<1>12. QED
  BY <1>2, <1>6, <1>11

LEMMA NormalAddress ==
    \A ip \in Addresses :
        /\ normalize_ip(ip) \in Addresses
        /\ normalize_ip(ip).bits = ip.bits
        /\ normalize_ip(ip).family \in {"v4", "v6"}
        /\ normalize_ip(ip).family = "v6" <=> ip.family = "v6"
        /\ normalize_ip(normalize_ip(ip)) = normalize_ip(ip)
        /\ normalize_ip(ip) # Error
<1> SUFFICES ASSUME NEW ip \in Addresses
             PROVE  /\ normalize_ip(ip) \in Addresses
                    /\ normalize_ip(ip).bits = ip.bits
                    /\ normalize_ip(ip).family \in {"v4", "v6"}
                    /\ normalize_ip(ip).family = "v6" <=> ip.family = "v6"
                    /\ normalize_ip(normalize_ip(ip)) = normalize_ip(ip)
                    /\ normalize_ip(ip) # Error
  OBVIOUS
<1>1. Addresses \subseteq [family : {"v4", "v6", "mapped"}, bits : Nat]
  BY Pow2Positive, ForwardedAssumption DEF Addresses
<1>2. CASE ip.family = "mapped"
  <2>1. normalize_ip(ip) = [family |-> "v4", bits |-> ip.bits]
    BY <1>2 DEF normalize_ip, Addresses
  <2>2. QED
    BY <1>1, <2>1, ForwardedAssumption DEF normalize_ip, Addresses
<1>3. CASE ip.family # "mapped"
  BY <1>1, <1>3, ForwardedAssumption DEF normalize_ip, Addresses
<1>4. QED
  BY <1>2, <1>3

LEMMA AddressNotHop ==
    ASSUME NEW ip \in Addresses
    PROVE  ip \notin {Garbage, Unreadable, Error}
<1>1. Addresses \subseteq [family : {"v4", "v6", "mapped"}, bits : Nat]
  BY Pow2Positive, ForwardedAssumption DEF Addresses
<1>2. QED
  BY <1>1, ForwardedAssumption

(* TrustedProxies::contains trusts nothing the operator did not write.     *)
LEMMA ContainsCovered ==
    ASSUME written \subseteq Entries, proxies = parse(written), proxies # Error,
           NEW ip \in Addresses, contains(ip)
    PROVE  \E n \in written : Covers(n, ip)
<1>1. /\ \A n \in written : WellFormed(n)
      /\ proxies = {[address |-> normalize_ip(n.address),
                     prefix  |-> IF n.address.family = "mapped" THEN n.prefix - MappedBits
                                                                ELSE n.prefix] : n \in written}
  BY DEF parse
<1>2. PICK n \in written :
         LET m == [address |-> normalize_ip(n.address),
                   prefix  |-> IF n.address.family = "mapped" THEN n.prefix - MappedBits
                                                              ELSE n.prefix]
         IN  /\ m.address.family = normalize_ip(ip).family
             /\ m.prefix = 0 \/ Shifted(m.address, m.prefix) = Shifted(normalize_ip(ip), m.prefix)
  BY <1>1 DEF contains
<1> DEFINE off == IF n.address.family = "mapped" THEN MappedBits ELSE 0
           p == n.prefix - off  a == n.address.bits  b == ip.bits
<1>3. n.address \in Addresses /\ n.prefix \in 0..(MappedBits + Width) /\ WellFormed(n)
  BY <1>1 DEF Entries
<1>4. p \in 0..Width /\ off \in Nat
  BY <1>3, ForwardedAssumption DEF WellFormed
<1>5. /\ normalize_ip(n.address).family = normalize_ip(ip).family
      /\ p = 0 \/ Shifted(normalize_ip(n.address), p) = Shifted(normalize_ip(ip), p)
  BY <1>2, <1>3, ForwardedAssumption
<1>6. (n.address.family = "v6") <=> (ip.family = "v6")
  BY <1>3, <1>5, NormalAddress
<1>7. a \in Nat /\ b \in Nat /\ a < Pow2[Width] /\ b < Pow2[Width]
  <2>1. Pow2[Width] \in Nat
    BY Pow2Positive, ForwardedAssumption
  <2>2. a \in 0..(Pow2[Width] - 1) /\ b \in 0..(Pow2[Width] - 1)
    BY <1>3 DEF Addresses
  <2> HIDE DEF a, b
  <2>3. QED
    BY <2>1, <2>2
<1>8. p # 0 => a \div Pow2[Width - p] = b \div Pow2[Width - p]
  BY <1>3, <1>5, NormalAddress DEF Shifted
<1>9. \A i \in 1..Width : i + off <= n.prefix
          => (a \div Pow2[Width - i]) % 2 = (b \div Pow2[Width - i]) % 2
  <2> SUFFICES ASSUME NEW i \in 1..Width, i + off <= n.prefix
               PROVE  (a \div Pow2[Width - i]) % 2 = (b \div Pow2[Width - i]) % 2
    OBVIOUS
  <2>1. i \in 1..p /\ p # 0
    BY <1>3, <1>4, ForwardedAssumption
  <2> HIDE DEF p, a, b
  <2>2. a \div Pow2[Width - p] = b \div Pow2[Width - p]
    BY <1>8, <2>1
  <2>3. Width \in Nat
    BY ForwardedAssumption
  <2>4. a \div Pow2[Width - p] = b \div Pow2[Width - p]
           <=> \A j \in 1..p : (a \div Pow2[Width - j]) % 2 = (b \div Pow2[Width - j]) % 2
    BY <1>4, <1>7, <2>3, SamePrefix, Zenon
  <2>5. QED
    BY <2>1, <2>2, <2>4
<1>10. Covers(n, ip)
  BY <1>6, <1>9 DEF Covers, Bit
<1>11. QED
  BY <1>10

(* The client is outside the networks of a service that started.           *)
Outside == proxies # Error /\ ~contains(sender.address)

Due(client) ==
    \/ client = normalize_ip(sender.address)
    \/ client = Error /\ ~sender.legible

ForwardedIInv ==
    /\ written \subseteq Entries /\ proxies = parse(written)
    /\ sender.address \in Addresses /\ peer \in Addresses
    /\ xff \in Seq(Seq(Hops))
    /\ passed \in 0..MaxProxies \cup {Error}
    /\ passed = 0 => peer = sender.address
    /\ passed \in 1..(MaxProxies - 1) => xff # << >>
    /\ sender.legible => \A i \in DOMAIN xff : Unreadable \notin ToSet(xff[i])
    /\ passed = Error => proxies # Error
    /\ passed # Error /\ Outside => Due(client_ip)
    /\ passed = Error /\ Outside => Due(judged)

LEMMA ForwardedSound == ForwardedIInv => NotFooled
BY ContainsCovered DEF ForwardedIInv, NotFooled, Outside, Due

LEMMA ForwardedStarts == ForwardedInit => ForwardedIInv
<1> SUFFICES ASSUME ForwardedInit PROVE ForwardedIInv
  OBVIOUS
<1>1. written \subseteq Entries /\ Forgeable \subseteq Hops
  BY DEF ForwardedInit, Forgeable, Hops, Entries
<1>2. xff \in Seq(Seq(Hops))
  <2>1. CASE xff = << >>
    BY <2>1
  <2>2. ASSUME NEW hop \in Forgeable, xff = <<<<hop>>>> PROVE xff \in Seq(Seq(Hops))
    BY <1>1, <2>2
  <2>3. QED
    BY <2>1, <2>2 DEF ForwardedInit
<1>3. sender.legible => \A i \in DOMAIN xff : Unreadable \notin ToSet(xff[i])
  <2>1. CASE xff = << >>
    BY <2>1
  <2>2. ASSUME NEW hop \in Forgeable, xff = <<<<hop>>>>, sender.legible
        PROVE  \A i \in DOMAIN xff : Unreadable \notin ToSet(xff[i])
    <3>1. hop # Unreadable
      BY <2>2 DEF ForwardedInit
    <3>2. QED
      BY <2>2, <3>1 DEF ToSet
  <2>3. QED
    BY <2>1, <2>2 DEF ForwardedInit
<1>4. passed = 0 /\ 0 \in 0..MaxProxies /\ passed # Error /\ peer \in Addresses
  BY ForwardedAssumption DEF ForwardedInit
<1>5. sender.address = peer
  BY DEF ForwardedInit
<1>6. Outside => Due(client_ip)
  BY <1>5 DEF Outside, Due, client_ip
<1>7. QED
  BY <1>1, <1>2, <1>3, <1>4, <1>5, <1>6 DEF ForwardedInit, ForwardedIInv

LEMMA JudgeKeeps == ForwardedIInv /\ proxies # Error /\ Judge => ForwardedIInv'
<1> SUFFICES ASSUME ForwardedIInv, proxies # Error, Judge PROVE ForwardedIInv'
  OBVIOUS
<1>1. /\ UNCHANGED <<written, proxies, sender, peer, xff, real_ip>>
      /\ passed' = Error /\ judged' = client_ip /\ passed # Error
  BY DEF Judge
<1>2. Outside' = Outside
  BY <1>1 DEF Outside, contains
<1>3. Outside => Due(judged)'
  BY <1>1 DEF ForwardedIInv, Due
<1>4. Error \notin 0..MaxProxies /\ Error \notin 1..(MaxProxies - 1) /\ Error # 0
  BY ForwardedAssumption
<1>5. parse(written)' = parse(written)
  BY <1>1
<1>6. QED
  BY <1>1, <1>2, <1>3, <1>4, <1>5 DEF ForwardedIInv

LEMMA RealIpKeeps ==
    ASSUME ForwardedIInv, proxies # Error, NEW p \in Addresses, Set_RealIp(p)
    PROVE  ForwardedIInv'
<1>1. /\ UNCHANGED <<written, proxies, sender, judged>>
      /\ passed = 0 /\ MaxProxies > 0 /\ contains(p)
      /\ xff' = << >> /\ real_ip' = <<peer>> /\ peer' = p /\ passed' = MaxProxies
  BY DEF Set_RealIp
<1>2. parse(written)' = parse(written)
  BY <1>1
<1>3. peer = sender.address /\ peer \in Addresses
  BY <1>1 DEF ForwardedIInv
<1>4. client_ip' = normalize_ip(sender.address)
  <2>1. contains(peer)'
    BY <1>1 DEF contains
  <2>2. client_ip' = Parsed(peer)
    BY <1>1, <2>1 DEF client_ip
  <2>3. QED
    BY <1>3, <2>2, AddressNotHop DEF Parsed
<1>5. Due(client_ip)'
  BY <1>1, <1>4 DEF Due
<1>6. /\ MaxProxies # Error /\ MaxProxies \in 0..MaxProxies
      /\ MaxProxies \notin 1..(MaxProxies - 1) /\ MaxProxies # 0
  BY <1>1, ForwardedAssumption
<1>7. xff' \in Seq(Seq(Hops)) /\ DOMAIN xff' = {}
  BY <1>1
<1>8. QED
  BY <1>1, <1>2, <1>3, <1>5, <1>6, <1>7 DEF ForwardedIInv

(* What the service will say after one proxy more, by cases of where that  *)
(* proxy writes.                                                           *)
LEMMA NearestIsPeer ==
    ASSUME NEW ip \in Addresses, NEW p \in Addresses, contains(p)
    PROVE  Nearer(normalize_ip(p), ip) = normalize_ip(ip)
<1>1. contains(normalize_ip(p)) /\ normalize_ip(p) # Error
  BY NormalAddress DEF contains
<1>2. QED
  BY <1>1, AddressNotHop DEF Nearer, Parsed

LEMMA LineOfOne ==
    \A at : \A hop \in Hops : AlongLine(at, <<hop>>) = Nearer(at, hop)
<1> SUFFICES ASSUME NEW at, NEW hop \in Hops PROVE AlongLine(at, <<hop>>) = Nearer(at, hop)
  OBVIOUS
<1>1. <<hop>> = Append(<< >>, hop) /\ << >> \in Seq(Hops)
  OBVIOUS
<1>2. AlongLine(at, Append(<< >>, hop)) = AlongLine(Nearer(at, hop), << >>)
  BY <1>1, LineAppend
<1>3. AlongLine(Nearer(at, hop), << >>) = Nearer(at, hop)
  BY LineEmpty
<1>4. QED
  BY <1>1, <1>2, <1>3

(* The walk from the peer ends at the client, or in an error of its        *)
(* making.                                                                 *)
LEMMA AfterPeer ==
    ASSUME ForwardedIInv, Outside, passed # Error, contains(peer) => xff # << >>
    PROVE  Due(AlongLines(normalize_ip(peer), xff))
<1>1. Due(client_ip) /\ peer \in Addresses /\ xff \in Seq(Seq(Hops))
  BY DEF ForwardedIInv
<1>2. CASE contains(peer)
  BY <1>1, <1>2 DEF client_ip
<1>3. CASE ~contains(peer)
  <2>1. ~contains(normalize_ip(peer))
    BY <1>1, <1>3, NormalAddress DEF contains
  <2>2. AlongLines(normalize_ip(peer), xff) = normalize_ip(peer)
    BY <1>1, <2>1, LinesStay
  <2>3. client_ip = normalize_ip(peer)
    BY <1>3 DEF client_ip
  <2>4. QED
    BY <1>1, <2>2, <2>3
<1>4. QED
  BY <1>2, <1>3

LEMMA AppendedLine ==
    ASSUME ForwardedIInv, Outside, passed # Error, contains(peer) => xff # << >>,
           NEW p \in Addresses, contains(p)
    PROVE  Due(AlongLines(normalize_ip(p), Append(xff, <<peer>>)))
<1>1. peer \in Addresses /\ xff \in Seq(Seq(Hops))
  BY DEF ForwardedIInv
<1>2. <<peer>> \in Seq(Hops) /\ peer \in Hops
  BY <1>1 DEF Hops
<1>3. Line(<<peer>>) = <<peer>>
  BY <1>1, AddressNotHop DEF Line, ToSet
<1>4. AlongLine(normalize_ip(p), <<peer>>) = normalize_ip(peer)
  BY <1>1, <1>2, LineOfOne, NearestIsPeer
<1>5. AlongLines(normalize_ip(p), Append(xff, <<peer>>)) = AlongLines(normalize_ip(peer), xff)
  <2> DEFINE l == <<peer>>
  <2>1. l \in Seq(Hops) /\ AlongLine(normalize_ip(p), Line(l)) = normalize_ip(peer)
    BY <1>2, <1>3, <1>4
  <2> HIDE DEF l
  <2>2. AlongLines(normalize_ip(p), Append(xff, l))
           = AlongLines(AlongLine(normalize_ip(p), Line(l)), xff)
    BY <1>1, <2>1, LinesAppend
  <2>3. QED
    BY <2>1, <2>2 DEF l
<1>6. QED
  BY <1>5, AfterPeer

LEMMA AppendedToLast ==
    ASSUME ForwardedIInv, Outside, passed # Error, xff # << >>,
           NEW p \in Addresses, contains(p)
    PROVE  Due(AlongLines(normalize_ip(p), [xff EXCEPT ![Len(xff)] = Append(@, peer)]))
<1> DEFINE m == Len(xff)  front == [i \in 1..(m - 1) |-> xff[i]]  last == xff[m]
<1>1. peer \in Addresses /\ xff \in Seq(Seq(Hops)) /\ peer \in Hops
  BY DEF ForwardedIInv, Hops
<1>2. m \in Nat \ {0} /\ last \in Seq(Hops) /\ front \in Seq(Seq(Hops))
  <2>1. m \in Nat \ {0}
    BY <1>1
  <2>2. last \in Seq(Hops)
    BY <1>1, <2>1
  <2>3. front \in Seq(Seq(Hops))
    BY <1>1, <2>1
  <2>4. QED
    BY <2>1, <2>2, <2>3
<1>3. xff = Append(front, last)
  BY <1>1, <1>2
<1>4. [xff EXCEPT ![m] = Append(@, peer)] = Append(front, Append(last, peer))
  BY <1>1, <1>2
<1> HIDE DEF m, front, last
<1>5. Append(last, peer) \in Seq(Hops)
  BY <1>1, <1>2
<1>6. AlongLines(normalize_ip(p), Append(front, Append(last, peer)))
         = AlongLines(AlongLine(normalize_ip(p), Line(Append(last, peer))), front)
  BY <1>2, <1>5, LinesAppend
<1>7. CASE Unreadable \in ToSet(last)
  <2>1. Unreadable \in ToSet(Append(last, peer))
    <3>1. PICK i \in DOMAIN last : last[i] = Unreadable
      BY <1>7 DEF ToSet
    <3>2. i \in DOMAIN Append(last, peer) /\ Append(last, peer)[i] = last[i]
      BY <1>1, <1>2
    <3>3. QED
      BY <3>1, <3>2 DEF ToSet
  <2>2. AlongLine(normalize_ip(p), <<Unreadable>>) = Error
    <3>1. contains(normalize_ip(p)) /\ normalize_ip(p) # Error
      BY NormalAddress DEF contains
    <3>2. Nearer(normalize_ip(p), Unreadable) = Error
      BY <3>1 DEF Nearer, Parsed
    <3>3. Unreadable \in Hops
      BY DEF Hops
    <3>4. QED
      BY <3>2, <3>3, LineOfOne
  <2>3. AlongLines(Error, front) = Error
    BY <1>2, LinesStay
  <2>4. ~sender.legible
    BY <1>1, <1>2, <1>7 DEF ForwardedIInv, m, last
  <2>5. QED
    BY <1>4, <1>6, <2>1, <2>2, <2>3, <2>4 DEF Due, Line, m
<1>8. CASE Unreadable \notin ToSet(last)
  <2>1. Unreadable \notin ToSet(Append(last, peer))
    BY <1>1, <1>2, <1>8, AddressNotHop DEF ToSet
  <2>2. AlongLine(normalize_ip(p), Append(last, peer)) = AlongLine(normalize_ip(peer), last)
    BY <1>1, <1>2, LineAppend, NearestIsPeer
  <2>3. AlongLines(normalize_ip(peer), xff)
           = AlongLines(AlongLine(normalize_ip(peer), last), front)
    BY <1>2, <1>3, <1>8, LinesAppend DEF Line
  <2>4. Due(AlongLines(normalize_ip(peer), xff))
    BY AfterPeer
  <2>5. QED
    BY <1>4, <1>6, <2>1, <2>2, <2>3, <2>4 DEF Line, m
<1>9. QED
  BY <1>7, <1>8

LEMMA AppendKeeps ==
    ASSUME ForwardedIInv, proxies # Error, NEW p \in Addresses, NEW new_line \in BOOLEAN,
           Append_XFF(p, new_line)
    PROVE  ForwardedIInv'
<1>1. /\ UNCHANGED <<written, proxies, sender, real_ip, judged>>
      /\ passed \in 0..(MaxProxies - 1) /\ passed' = passed + 1
      /\ contains(p) /\ peer' = p
      /\ xff' = IF new_line \/ xff = << >> THEN Append(xff, <<peer>>)
                ELSE [xff EXCEPT ![Len(xff)] = Append(@, peer)]
  BY DEF Append_XFF
<1>2. parse(written)' = parse(written) /\ (Outside' <=> Outside)
  BY <1>1 DEF Outside, contains
<1>3. /\ peer \in Addresses /\ xff \in Seq(Seq(Hops)) /\ peer \in Hops
      /\ peer \notin {Unreadable}
  BY AddressNotHop DEF ForwardedIInv, Hops
<1>4. /\ passed' \in 1..MaxProxies /\ passed' # Error /\ passed # Error /\ passed' # 0
      /\ passed # 0 => passed \in 1..(MaxProxies - 1)
  BY <1>1, ForwardedAssumption
<1>5. xff' \in Seq(Seq(Hops)) /\ xff' # << >>
  <2>1. CASE new_line \/ xff = << >>
    BY <1>1, <1>3, <2>1
  <2>2. CASE ~(new_line \/ xff = << >>)
    <3>1. Len(xff) \in 1..Len(xff) /\ Append(xff[Len(xff)], peer) \in Seq(Hops)
      BY <1>3, <2>2
    <3>2. QED
      BY <1>1, <1>3, <2>2, <3>1
  <2>3. QED
    BY <2>1, <2>2
<1>6. sender.legible => \A i \in DOMAIN xff' : Unreadable \notin ToSet(xff'[i])
  <2> SUFFICES ASSUME sender.legible, NEW i \in DOMAIN xff'
               PROVE  Unreadable \notin ToSet(xff'[i])
    OBVIOUS
  <2>1. \A k \in DOMAIN xff : Unreadable \notin ToSet(xff[k])
    BY DEF ForwardedIInv
  <2>2. CASE new_line \/ xff = << >>
    BY <1>1, <1>3, <2>1, <2>2 DEF ToSet
  <2>3. CASE ~(new_line \/ xff = << >>)
    <3>1. i \in DOMAIN xff /\ xff[i] \in Seq(Hops)
      BY <1>1, <1>3, <2>3
    <3>2. CASE i = Len(xff)
      BY <1>1, <1>3, <2>1, <2>3, <3>1, <3>2 DEF ToSet
    <3>3. CASE i # Len(xff)
      BY <1>1, <1>3, <2>1, <2>3, <3>1, <3>3
    <3>4. QED
      BY <3>2, <3>3
  <2>4. QED
    BY <2>2, <2>3
<1>7. ASSUME Outside PROVE Due(client_ip)'
  <2>1. contains(peer) => xff # << >>
    BY <1>1, <1>4, <1>7 DEF ForwardedIInv, Outside
  <2> PICK lines : lines = xff'
    OBVIOUS
  <2>2. Due(AlongLines(normalize_ip(p), lines))
    BY <1>1, <1>4, <1>7, <2>1, AppendedLine, AppendedToLast
  <2>3. AlongLines(normalize_ip(p), lines)' = AlongLines(normalize_ip(p), lines)
    BY <1>1, <1>5, LinesSame
  <2>4. client_ip' = AlongLines(normalize_ip(p), lines)'
    <3>1. contains(peer)' /\ normalize_ip(peer)' = normalize_ip(p)
      BY <1>1 DEF contains
    <3>2. client_ip' = AlongLines(normalize_ip(peer), xff)'
      BY <1>5, <3>1 DEF client_ip
    <3>3. AlongLines(normalize_ip(peer), xff)' = AlongLines(normalize_ip(p), lines)'
      BY <1>1 DEF AlongLines
    <3>4. QED
      BY <3>2, <3>3
  <2>5. QED
    BY <1>1, <2>2, <2>3, <2>4 DEF Due
<1>8. QED
  BY <1>1, <1>2, <1>3, <1>4, <1>5, <1>6, <1>7 DEF ForwardedIInv

(* For any width, any trusted networks and any number of proxies: a client *)
(* outside them is counted by its own address, whatever headers it sends   *)
(* (rate_limit.rs, client_ip).                                             *)
THEOREM ClientsOwnBucket == ForwardedSpec => []NotFooled
<1>1. ForwardedIInv /\ [ForwardedNext]_journey => ForwardedIInv'
  <2> SUFFICES ASSUME ForwardedIInv, [ForwardedNext]_journey PROVE ForwardedIInv'
    OBVIOUS
  <2>1. CASE proxies # Error /\ Judge
    BY <2>1, JudgeKeeps
  <2>2. ASSUME proxies # Error, NEW p \in Addresses, Set_RealIp(p) PROVE ForwardedIInv'
    BY <2>2, RealIpKeeps
  <2>3. ASSUME proxies # Error, NEW p \in Addresses, NEW new_line \in BOOLEAN,
               Append_XFF(p, new_line)
        PROVE  ForwardedIInv'
    BY <2>3, AppendKeeps
  <2>4. CASE UNCHANGED journey
    <3>1. /\ UNCHANGED <<written, proxies, sender, peer, xff, real_ip, passed, judged>>
          /\ parse(written)' = parse(written) /\ (Outside' <=> Outside)
      BY <2>4 DEF journey, Outside, contains
    <3>2. client_ip' = client_ip
      BY <3>1, LinesSame DEF client_ip, contains, ForwardedIInv
    <3>3. QED
      BY <3>1, <3>2 DEF ForwardedIInv, Due
  <2>5. QED
    BY <2>1, <2>2, <2>3, <2>4 DEF ForwardedNext, NotStarted, Judged
<1>2. QED
  BY <1>1, ForwardedStarts, ForwardedSound, PTL DEF ForwardedSpec

---------------------------------------------------------------------------
(* The facilitator client.                                                 *)

(* The factor doubles until it saturates.                                  *)
LEMMA FactorDoubles ==
    /\ Factor[0] = 1
    /\ \A n \in Nat : Factor[n + 1] = IF 2 * Factor[n] > MaxFactor THEN MaxFactor
                                                                  ELSE 2 * Factor[n]
<1> DEFINE Doubled(v, n) == IF 2 * v > MaxFactor THEN MaxFactor ELSE 2 * v
<1>1. NatInductiveDefHypothesis(Factor, 1, Doubled)
  BY DEF NatInductiveDefHypothesis, Factor
<1>2. NatInductiveDefConclusion(Factor, 1, Doubled)
  BY <1>1, NatInductiveDef
<1>3. Factor[0] = 1
  BY <1>2 DEF NatInductiveDefConclusion
<1>4. ASSUME NEW n \in Nat PROVE Factor[n + 1] = Doubled(Factor[n], n + 1)
  <2>1. n + 1 \in Nat /\ n + 1 # 0 /\ (n + 1) - 1 = n
    OBVIOUS
  <2> QED BY <1>2, <2>1 DEF NatInductiveDefConclusion
<1> QED BY <1>3, <1>4

(* It stays within its type and never shrinks.                             *)
LEMMA FactorGrows ==
    \A n \in Nat : /\ Factor[n] \in Nat /\ Factor[n] <= MaxFactor
                   /\ Factor[n] <= Factor[n + 1]
<1> DEFINE S == {n \in Nat : Factor[n] \in Nat /\ Factor[n] <= MaxFactor /\ Factor[n] >= 1}
<1>0. MaxFactor \in Nat /\ MaxFactor >= 1
  BY FacilitatorAssumption
<1>1. 0 \in S
  BY <1>0, FactorDoubles
<1>2. ASSUME NEW n \in S PROVE n + 1 \in S
  BY <1>0, FactorDoubles
<1>3. S = Nat
  <2> HIDE DEF S
  <2>1. S \in SUBSET Nat
    BY DEF S
  <2> QED BY <1>1, <1>2, <2>1, NatSet
<1>4. ASSUME NEW n \in Nat
      PROVE  Factor[n] \in Nat /\ Factor[n] <= MaxFactor /\ Factor[n] <= Factor[n + 1]
  <2>1. n \in S
    BY <1>3
  <2> QED BY <2>1, <1>0, FactorDoubles
<1> QED BY <1>4

LEMMA ScaledGrows ==
    ASSUME NEW a \in Nat, NEW x \in Nat, NEW y \in Nat, x <= y
    PROVE  a * x \in Nat /\ a * y \in Nat /\ a * x <= a * y
OBVIOUS

(* A backoff never shrinks, not where the factor or the product saturates, *)
(* and never passes the cap.                                               *)
LEMMA BackoffGrows ==
    ASSUME retry_config.initial_backoff \in Nat, NEW n \in Nat
    PROVE  /\ calculate_backoff(n) \in Nat /\ calculate_backoff(n) <= MaxBackoff
           /\ calculate_backoff(n) <= calculate_backoff(n + 1)
<1> DEFINE a == retry_config.initial_backoff
<1>1. /\ Factor[n] \in Nat /\ Factor[n + 1] \in Nat /\ Factor[n] <= Factor[n + 1]
  BY FactorGrows
<1>2. /\ a * Factor[n] \in Nat /\ a * Factor[n + 1] \in Nat
      /\ a * Factor[n] <= a * Factor[n + 1]
  BY <1>1, ScaledGrows
<1>3. MaxBackoff \in Nat /\ MaxDuration \in Nat
  BY FacilitatorAssumption
<1> QED BY <1>2, <1>3 DEF calculate_backoff

FacilitatorIInv ==
    /\ retry_config.max_retries \in Nat /\ retry_config.initial_backoff \in Nat
    /\ op \in {"verify", "settle", "probe"}
    /\ exchange \in {"sending", "sleeping", "ok", "failed"}
    /\ attempt \in 0..Retries
    /\ replies \in Seq(Replies)
    /\ Len(replies) = attempt + (IF exchange = "sending" THEN 0 ELSE 1)
    /\ \A i \in 1..attempt : IsTransient(replies[i])
    /\ Len(delays) = attempt + (IF exchange = "sleeping" THEN 1 ELSE 0)
    /\ delays \in Seq(Nat)
    /\ \A i \in 1..Len(delays) : delays[i] = calculate_backoff(i - 1)
    /\ exchange = "sleeping" => IsTransient(replies[attempt + 1]) /\ attempt < Retries
    /\ exchange = "ok" => replies[attempt + 1] = "answer"
    /\ exchange = "ok" /\ op = "probe" => Offers(kinds, wanted)
    /\ exchange = "failed" /\ op # "probe" =>
          /\ replies[attempt + 1] # "answer"
          /\ IsTransient(replies[attempt + 1]) => attempt = Retries

(* Only verify is retried.                                                 *)
LEMMA RetriesBounded ==
    ASSUME retry_config.max_retries \in Nat
    PROVE  /\ Retries \in Nat /\ Retries <= retry_config.max_retries
           /\ op # "verify" => Retries = 0
           /\ op = "verify" => Retries = retry_config.max_retries
BY DEF Retries

LEMMA CallInitially == FacilitatorInit => FacilitatorIInv
<1> SUFFICES ASSUME FacilitatorInit PROVE FacilitatorIInv
  OBVIOUS
<1>1. retry_config.max_retries \in Nat /\ retry_config.initial_backoff \in Nat
  BY FacilitatorAssumption DEF FacilitatorInit
<1> QED
  BY <1>1, RetriesBounded DEF FacilitatorInit, FacilitatorIInv

(* An answer, or none in time: the call ends, sleeps or goes on.           *)
LEMMA ReplyStep ==
    ASSUME FacilitatorIInv, NEW reply \in Replies, Reply(reply)
    PROVE  FacilitatorIInv'
<1> DEFINE n == Len(replies)  m == Len(delays)
<1>1. /\ replies' = Append(replies, reply) /\ exchange = "sending" /\ op # "probe"
      /\ UNCHANGED <<retry_config, op, attempt, wanted, kinds>>
  BY DEF Reply
<1>2. /\ replies \in Seq(Replies) /\ delays \in Seq(Nat) /\ n = attempt /\ m = attempt
      /\ attempt \in Nat /\ attempt \in 0..Retries
      /\ retry_config.max_retries \in Nat /\ retry_config.initial_backoff \in Nat
  BY <1>1, RetriesBounded DEF FacilitatorIInv
<1>3. /\ replies' \in Seq(Replies) /\ Len(replies') = attempt + 1
      /\ replies'[attempt + 1] = reply
      /\ \A i \in 1..attempt : replies'[i] = replies[i]
  BY <1>1, <1>2
<1>4. \A i \in 1..attempt : IsTransient(replies'[i])
  BY <1>3 DEF FacilitatorIInv
<1>5. Retries' = Retries /\ \A i \in Nat : calculate_backoff(i)' = calculate_backoff(i)
  BY <1>1 DEF Retries, calculate_backoff
<1>6. \A i \in 1..m : delays[i] = calculate_backoff(i - 1)
  BY DEF FacilitatorIInv
<1>7. CASE reply # "answer" /\ attempt < Retries /\ IsTransient(reply)
  <2>1. exchange' = "sleeping" /\ delays' = Append(delays, calculate_backoff(attempt))
    BY <1>7 DEF Reply
  <2>2. calculate_backoff(attempt) \in Nat
    BY <1>2, BackoffGrows
  <2>3. /\ delays' \in Seq(Nat) /\ Len(delays') = attempt + 1
        /\ \A i \in 1..attempt : delays'[i] = delays[i]
        /\ delays'[attempt + 1] = calculate_backoff(attempt)
    BY <1>2, <2>1, <2>2
  <2>4. ASSUME NEW i \in 1..(attempt + 1) PROVE delays'[i] = calculate_backoff(i - 1)'
    <3>1. i - 1 \in Nat
      BY <1>2
    <3>2. CASE i \in 1..attempt
      BY <3>1, <3>2, <2>3, <1>2, <1>5, <1>6
    <3>3. CASE i = attempt + 1
      <4>1. i - 1 = attempt
        BY <3>3, <1>2
      <4> QED BY <3>3, <4>1, <2>3, <1>2, <1>5
    <3> QED BY <3>2, <3>3, <1>2
  <2> QED
    BY <1>1, <1>2, <1>3, <1>4, <1>5, <1>7, <2>1, <2>3, <2>4 DEF FacilitatorIInv
<1>8. CASE ~ (reply # "answer" /\ attempt < Retries /\ IsTransient(reply))
  <2>1. exchange' = (IF reply = "answer" THEN "ok" ELSE "failed") /\ delays' = delays
    BY <1>8 DEF Reply
  <2>2. \A i \in 1..Len(delays') : delays'[i] = calculate_backoff(i - 1)'
    <3>1. \A i \in 1..m : i - 1 \in Nat
      BY <1>2
    <3> QED BY <3>1, <2>1, <1>5, <1>6
  <2>3. reply # "answer" /\ IsTransient(reply) => attempt = Retries
    BY <1>8, <1>2, RetriesBounded
  <2> QED
    BY <1>1, <1>2, <1>3, <1>4, <1>5, <2>1, <2>2, <2>3 DEF FacilitatorIInv
<1> QED BY <1>7, <1>8

(* The sleep ends.                                                         *)
LEMMA WakeStep ==
    ASSUME FacilitatorIInv, Wake
    PROVE  FacilitatorIInv'
<1>1. /\ exchange = "sleeping" /\ exchange' = "sending" /\ attempt' = attempt + 1
      /\ UNCHANGED <<retry_config, op, wanted, replies, delays, kinds>>
  BY DEF Wake
<1>2. /\ Len(replies) = attempt + 1 /\ Len(delays) = attempt + 1
      /\ IsTransient(replies[attempt + 1]) /\ attempt < Retries
      /\ attempt \in 0..Retries /\ Retries \in Nat
  BY <1>1, RetriesBounded DEF FacilitatorIInv
<1>3. \A i \in 1..(attempt + 1) : IsTransient(replies[i])
  <2> SUFFICES ASSUME NEW i \in 1..(attempt + 1), i # attempt + 1 PROVE IsTransient(replies[i])
    BY <1>2
  <2>1. i \in 1..attempt
    BY <1>2
  <2> QED BY <2>1 DEF FacilitatorIInv
<1>4. Retries' = Retries /\ \A i : calculate_backoff(i)' = calculate_backoff(i)
  BY <1>1 DEF Retries, calculate_backoff
<1>5. \A i \in 1..Len(delays') : delays'[i] = calculate_backoff(i - 1)'
  BY <1>1, <1>4 DEF FacilitatorIInv
<1> QED
  BY <1>1, <1>2, <1>3, <1>4, <1>5 DEF FacilitatorIInv

(* The capability probe of the start.                                      *)
LEMMA ProbeStep ==
    ASSUME FacilitatorIInv, NEW reply \in Replies, NEW offered, ProbeReply(reply, offered)
    PROVE  FacilitatorIInv'
<1>1. /\ op = "probe" /\ exchange = "sending" /\ replies' = Append(replies, reply)
      /\ UNCHANGED <<retry_config, op, attempt, wanted, delays>>
  BY DEF ProbeReply
<1>2. /\ attempt = 0 /\ replies \in Seq(Replies) /\ Len(replies) = 0 /\ Len(delays) = 0
      /\ retry_config.max_retries \in Nat
  BY <1>1, RetriesBounded DEF FacilitatorIInv
<1>3. /\ replies' \in Seq(Replies) /\ Len(replies') = 1 /\ replies'[1] = reply
  BY <1>1, <1>2
<1>4. Retries' = 0 /\ Retries = 0
  BY <1>1 DEF Retries
<1>5. /\ exchange' \in {"ok", "failed"}
      /\ exchange' = "ok" => reply = "answer" /\ Offers(offered, wanted) /\ kinds' = offered
  BY DEF ProbeReply
<1>6. exchange' = "ok" => Offers(kinds', wanted')
  BY <1>1, <1>5
<1>7. attempt' = 0 /\ op' = "probe" /\ Len(delays') = 0 /\ attempt' + 1 = 1
  BY <1>1, <1>2
<1>8. \A i \in 1..Len(delays') : delays'[i] = calculate_backoff(i - 1)'
  BY <1>7
<1>9. \A i \in 1..attempt' : IsTransient(replies'[i])
  BY <1>7
<1>10. /\ retry_config'.max_retries \in Nat /\ retry_config'.initial_backoff \in Nat
       /\ delays' \in Seq(Nat) /\ attempt' \in 0..Retries'
  BY <1>1, <1>4, <1>7 DEF FacilitatorIInv
<1>11. (Offers(kinds, wanted))' <=> Offers(kinds', wanted')
  BY DEF Offers
<1> QED
  BY <1>3, <1>5, <1>6, <1>7, <1>8, <1>9, <1>10, <1>11 DEF FacilitatorIInv

LEMMA CallIInvHolds == FacilitatorSpec => []FacilitatorIInv
<1>1. FacilitatorIInv /\ [FacilitatorNext]_call => FacilitatorIInv'
  <2> SUFFICES ASSUME FacilitatorIInv, [FacilitatorNext]_call PROVE FacilitatorIInv'
    OBVIOUS
  <2>1. CASE Wake BY <2>1, WakeStep
  <2>2. CASE UNCHANGED call
    BY <2>2 DEF call, FacilitatorIInv, Retries, calculate_backoff, Offers
  <2>3. ASSUME NEW reply \in Replies, Reply(reply) PROVE FacilitatorIInv'
    BY <2>3, ReplyStep
  <2>4. ASSUME NEW reply \in Replies, NEW a \in Kinds, NEW b \in Kinds, ProbeReply(reply, {a, b})
        PROVE  FacilitatorIInv'
    BY <2>4, ProbeStep
  <2> QED BY <2>1, <2>2, <2>3, <2>4 DEF FacilitatorNext, CallOver
<1> QED BY <1>1, CallInitially, PTL DEF FacilitatorSpec

(* Every call of the facilitator client, whatever its retry settings,      *)
(* sends a settlement once, backs off in steps that never shrink, and ends *)
(* for a cause (facilitator.rs, the retry loop and probe_capability).      *)
THEOREM CallsHonest == FacilitatorSpec => []CallHonest
<1>1. FacilitatorIInv => CallHonest
  <2> SUFFICES ASSUME FacilitatorIInv PROVE CallBounded /\ EndsForCause
    BY DEF CallHonest
  <2>1. /\ retry_config.max_retries \in Nat /\ retry_config.initial_backoff \in Nat
        /\ Retries \in Nat /\ Retries <= retry_config.max_retries
        /\ attempt \in Nat /\ attempt <= Retries
        /\ op # "verify" => Retries = 0
        /\ op = "verify" => Retries = retry_config.max_retries
        /\ Len(replies) \in {attempt, attempt + 1} /\ Len(delays) \in Nat
    BY RetriesBounded DEF FacilitatorIInv
  <2>2. \A i \in 1..Len(delays) :
          /\ delays[i] <= MaxBackoff
          /\ i > 1 => delays[i - 1] <= delays[i]
    <3> SUFFICES ASSUME NEW i \in 1..Len(delays)
                 PROVE  delays[i] <= MaxBackoff /\ (i > 1 => delays[i - 1] <= delays[i])
      OBVIOUS
    <3>1. delays[i] = calculate_backoff(i - 1) /\ i - 1 \in Nat
      BY <2>1 DEF FacilitatorIInv
    <3>2. delays[i] <= MaxBackoff
      BY <2>1, <3>1, BackoffGrows
    <3>3. ASSUME i > 1 PROVE delays[i - 1] <= delays[i]
      <4>1. i - 1 \in 1..Len(delays) /\ i - 2 \in Nat /\ (i - 1) - 1 = i - 2 /\ (i - 2) + 1 = i - 1
        BY <2>1, <3>3
      <4>2. delays[i - 1] = calculate_backoff(i - 2)
        BY <4>1 DEF FacilitatorIInv
      <4>3. calculate_backoff(i - 2) <= calculate_backoff((i - 2) + 1)
        BY <2>1, <4>1, BackoffGrows
      <4> QED BY <3>1, <4>1, <4>2, <4>3
    <3> QED BY <3>2, <3>3
  <2>3. CallBounded
    BY <2>1, <2>2 DEF CallBounded
  <2>4. exchange \in {"ok", "failed"} => Len(replies) = attempt + 1
    BY DEF FacilitatorIInv
  <2>5. \A i \in 1..(Len(replies) - 1) : replies[i] \in {"connect", "timeout", "status_5xx"}
    <3> SUFFICES ASSUME NEW i \in 1..(Len(replies) - 1) PROVE IsTransient(replies[i])
      BY DEF IsTransient
    <3>1. i \in 1..attempt
      BY <2>1
    <3> QED BY <3>1 DEF FacilitatorIInv
  <2>6. exchange = "ok" => replies[Len(replies)] = "answer"
    BY <2>4 DEF FacilitatorIInv
  <2>7. exchange = "failed" /\ op # "probe" =>
          /\ replies[Len(replies)] # "answer"
          /\ replies[Len(replies)] \in {"connect", "timeout", "status_5xx"} /\ op = "verify"
                => Len(replies) = retry_config.max_retries + 1
    BY <2>1, <2>4 DEF FacilitatorIInv, IsTransient
  <2>8. exchange = "ok" /\ op = "probe" =>
          \E k \in kinds : k.version = 2 /\ k.exact /\ wanted \in {k.network, AnyNetwork}
    BY DEF FacilitatorIInv, Offers
  <2>9. EndsForCause
    BY <2>5, <2>6, <2>7, <2>8 DEF EndsForCause
  <2> QED BY <2>3, <2>9
<1> QED BY <1>1, CallIInvHolds, PTL

---------------------------------------------------------------------------
(* The upstream proxy.                                                     *)

(* What Forward sends of the buyer's request.                              *)
Sent == LET injected == IF with_auth THEN {AuthHeader} ELSE {}
        IN  [path |-> Forwarded, buyers |-> Kept(inbound) \ injected, services |-> injected]

(* A redirect may change the port and upgrade to https, once for all.      *)
Upgrades(from, to) == from.host = to.host /\ (from.scheme = "https" => to.scheme = "https")

ProxyInv ==
    /\ inbound \in Requests
    /\ inbound.connection # {} => "connection" \in inbound.headers
    /\ inbound.nested => inbound.path # <<>> /\ Head(inbound.path) = "v1"
    /\ with_auth \in BOOLEAN
    /\ leg \in {"received", "waiting", "reading", "answered"}
    /\ leg \in {"waiting", "reading"} => outbound = Sent
    /\ visited \in Seq(Origins) /\ Len(visited) > 0
    /\ \A i \in 1..Len(visited) : \A j \in 1..i : Upgrades(visited[j], visited[i])
    /\ buffered \in Nat /\ produced \in Nat /\ whole \in BOOLEAN
    /\ leg = "reading" => buffered = produced /\ buffered <= MAX_BODY
    /\ leg \in {"received", "waiting"} => buffered = 0 /\ produced = 0
    /\ ChargedForWhole

(* is_same_origin_hop lets only the scheme improve.                        *)
LEMMA RedirectUpgrades ==
    ASSUME NEW from \in Origins, NEW to \in Origins, is_same_origin_hop(from, to)
    PROVE  Upgrades(from, to)
BY DEF is_same_origin_hop, Upgrades, Origins

LEMMA InitProxyInv == ProxyInit => ProxyInv
<1> SUFFICES ASSUME ProxyInit PROVE ProxyInv
  OBVIOUS
<1>1. PICK o \in Origins : visited = <<o>>
  BY DEF ProxyInit
<1>2. /\ visited \in Seq(Origins) /\ Len(visited) = 1
      /\ \A i \in 1..Len(visited) : \A j \in 1..i : Upgrades(visited[j], visited[i])
  BY <1>1 DEF Upgrades
<1>3. /\ inbound \in Requests
      /\ inbound.connection # {} => "connection" \in inbound.headers
      /\ inbound.nested => inbound.path # <<>> /\ Head(inbound.path) = "v1"
  BY DEF ProxyInit
<1>4. /\ with_auth \in BOOLEAN /\ whole \in BOOLEAN /\ leg = "received"
      /\ buffered = 0 /\ produced = 0
  BY DEF ProxyInit
<1> QED
  BY <1>2, <1>3, <1>4 DEF ProxyInv, ChargedForWhole

LEMMA NextProxyInv == ProxyInv /\ [ProxyNext]_proxying => ProxyInv'
<1> SUFFICES ASSUME ProxyInv, [ProxyNext]_proxying PROVE ProxyInv'
  OBVIOUS
<1> USE ProxyAssumption DEF ProxyInv, ChargedForWhole
<1>1. CASE RefusePath \/ RefuseBody \/ TooManyRedirects \/ Unreachable \/ ResponseCut
  BY <1>1 DEF RefusePath, RefuseBody, TooManyRedirects, Unreachable, ResponseCut, Fail
<1>2. CASE Forward
  BY <1>2 DEF Forward, Sent, Forwarded, RequestPath, strip_v1_prefix, Kept, connection_options
<1>3. ASSUME NEW to \in Origins, FollowRedirect(to) PROVE ProxyInv'
  <2>1. /\ visited' \in Seq(Origins) /\ Len(visited') = Len(visited) + 1
        /\ \A i \in 1..Len(visited) : visited'[i] = visited[i]
        /\ visited'[Len(visited) + 1] = to
    BY <1>3 DEF FollowRedirect
  <2>2. Here \in Origins /\ Upgrades(Here, to)
    BY <1>3, RedirectUpgrades DEF Here, FollowRedirect
  <2>3. \A j \in 1..Len(visited) : Upgrades(visited[j], Here)
    BY DEF Here
  <2>4. \A i \in 1..Len(visited') : \A j \in 1..i : Upgrades(visited'[j], visited'[i])
    <3> SUFFICES ASSUME NEW i \in 1..Len(visited'), NEW j \in 1..i
                 PROVE  Upgrades(visited'[j], visited'[i])
      OBVIOUS
    <3>1. CASE i <= Len(visited)
      BY <3>1, <2>1
    <3>2. CASE i = Len(visited) + 1 /\ j <= Len(visited)
      BY <3>2, <2>1, <2>2, <2>3 DEF Upgrades
    <3>3. CASE i = Len(visited) + 1 /\ j = i
      BY <3>3, <2>1 DEF Upgrades
    <3> QED BY <3>1, <3>2, <3>3, <2>1
  <2> QED
    BY <1>3, <2>1, <2>4 DEF FollowRedirect, Sent, Forwarded, RequestPath, Kept
<1>4. ASSUME NEW code \in {"below_400", "from_400"}, ResponseHead(code) PROVE ProxyInv'
  BY <1>4 DEF ResponseHead, Sent, Forwarded, RequestPath, Kept
<1>5. ASSUME NEW n \in 1..Chunk, BufferChunk(n) \/ ResponseTooLarge(n) PROVE ProxyInv'
  BY <1>5 DEF BufferChunk, ResponseTooLarge, Fail, Room, Sent, Forwarded, RequestPath, Kept
<1>6. CASE ResponseEnds
  BY <1>6 DEF ResponseEnds
<1>7. CASE Proxied \/ UNCHANGED proxying
  BY <1>7 DEF Proxied, proxying, Sent, Forwarded, RequestPath, Kept
<1> QED
  BY <1>1, <1>2, <1>3, <1>4, <1>5, <1>6, <1>7 DEF ProxyNext

(* What is sent of a path is the path, or what follows the prefix.         *)
LEMMA ForwardedPath ==
    ASSUME ProxyInv
    PROVE  LET stripped == inbound.path # <<>> /\ Head(inbound.path) = "v1"
           IN  /\ Forwarded = IF stripped THEN Tail(inbound.path) ELSE inbound.path
               /\ strip_v1_prefix(inbound.path) = Forwarded
BY DEF ProxyInv, Forwarded, RequestPath, strip_v1_prefix

(* Each conjunct of the invariant holds of every request that is proxied.  *)
THEOREM ProxyInvariantHolds == ProxySpec => []ProxyInv
BY InitProxyInv, NextProxyInv, PTL DEF ProxySpec

(* A buyer is charged only for an answer that reached the gate whole       *)
(* (proxy.rs, the buffering of proxy and the answers it makes up).         *)
THEOREM WholeAnswers == ProxySpec => []ChargedForWhole
<1>1. ProxyInv => ChargedForWhole
  BY DEF ProxyInv
<1> QED BY <1>1, ProxyInvariantHolds, PTL

(* Whatever the path, the headers and the redirects: the upstream hears    *)
(* the path with its prefix off once, nothing of the buyer's payment or    *)
(* connection, and the service's credential, which no redirect takes to    *)
(* another host or off https (proxy.rs, the headers of proxy and           *)
(* is_same_origin_hop).                                                    *)
THEOREM UpstreamIsolated == ProxySpec => []UpstreamHears
<1>1. ProxyInv => UpstreamHears
  <2> SUFFICES ASSUME ProxyInv, leg \in {"waiting", "reading"}
               PROVE  /\ inbound.path \in {outbound.path, <<"v1">> \o outbound.path}
                      /\ Len(outbound.path) = Len(inbound.path)
                            <=> inbound.path = strip_v1_prefix(inbound.path)
                      /\ outbound.buyers \cap (PAYMENT_HEADERS \cup inbound.connection) = {}
                      /\ with_auth => AuthHeader \in outbound.services \ outbound.buyers
                      /\ \A i \in 1..Len(visited) :
                            /\ visited[i].host = visited[1].host
                            /\ \A j \in 1..i : visited[j].scheme = "https"
                                                    => visited[i].scheme = "https"
    BY DEF UpstreamHears
  <2>1. outbound = Sent
    BY DEF ProxyInv
  <2>2. inbound.path \in Seq(PathSegments)
    BY ProxyAssumption DEF ProxyInv, Requests, Paths
  <2>3. /\ inbound.path \in {outbound.path, <<"v1">> \o outbound.path}
        /\ Len(outbound.path) = Len(inbound.path) <=> inbound.path = strip_v1_prefix(inbound.path)
    <3>1. CASE inbound.path # <<>> /\ Head(inbound.path) = "v1"
      <4>1. outbound.path = Tail(inbound.path) /\ strip_v1_prefix(inbound.path) = Tail(inbound.path)
        BY <2>1, <3>1, ForwardedPath DEF Sent
      <4>2. Len(Tail(inbound.path)) # Len(inbound.path)
        BY <2>2, <3>1
      <4>3. inbound.path = <<"v1">> \o Tail(inbound.path)
        BY <2>2, <3>1
      <4> QED BY <4>1, <4>2, <4>3
    <3>2. CASE ~(inbound.path # <<>> /\ Head(inbound.path) = "v1")
      BY <2>1, <3>2, ForwardedPath DEF Sent
    <3> QED BY <3>1, <3>2
  <2>4. /\ outbound.buyers \cap (PAYMENT_HEADERS \cup inbound.connection) = {}
        /\ with_auth => AuthHeader \in outbound.services \ outbound.buyers
    BY <2>1 DEF Sent, Kept, connection_options, ProxyInv
  <2>5. \A i \in 1..Len(visited) :
           /\ visited[i].host = visited[1].host
           /\ \A j \in 1..i : visited[j].scheme = "https" => visited[i].scheme = "https"
    BY DEF ProxyInv, Upgrades
  <2> QED BY <2>3, <2>4, <2>5
<1> QED BY <1>1, ProxyInvariantHolds, PTL

---------------------------------------------------------------------------
(* Answers to browsers and the caches between.                             *)

(* The shared cache holds what the middleware answered to somebody.        *)
CorsInv ==
    /\ stored # Nothing =>
          \E o \in WebOrigins \cup {NoOrigin}, inner \in Inner :
              stored = [origin |-> o, own |-> inner.allow, response |-> Respond(o, inner)]
    /\ CachedAnswersFit

LEMMA NextCorsInv == CorsInv /\ [CorsNext]_browsing => CorsInv'
<1> SUFFICES ASSUME CorsInv, [CorsNext]_browsing PROVE CorsInv'
  OBVIOUS
<1> USE DEF CorsInv, CachedAnswersFit, Matched, match_origin, Listed
<1>1. ASSUME NEW o \in WebOrigins \cup {NoOrigin}, Preflight(o) PROVE CorsInv'
  BY <1>1 DEF Preflight, Respond, Vary
<1>2. ASSUME NEW o \in WebOrigins \cup {NoOrigin}, FromCache(o) PROVE CorsInv'
  <2>1. PICK q \in WebOrigins \cup {NoOrigin}, inner \in Inner :
           stored = [origin |-> q, own |-> inner.allow, response |-> Respond(q, inner)]
    BY <1>2 DEF FromCache, Reusable
  <2>2. /\ received' = [origin |-> o, own |-> inner.allow, allow |-> Respond(q, inner).allow]
        /\ UNCHANGED <<cors, stored>>
    BY <1>2, <2>1 DEF FromCache
  <2>3. cors.mode = "origins" => q = o
    <3>1. cors.mode = "origins" => Respond(q, inner).vary \in {"star", "origin"}
      BY DEF Respond, Vary
    <3> QED BY <1>2, <2>1, <3>1 DEF FromCache, Reusable
  <2>4. CachedAnswersFit'
    BY <2>2, <2>3, CorsAssumption DEF Respond
  <2>5. Respond(q, inner)' = Respond(q, inner)
    BY <2>2 DEF Respond, Vary
  <2> QED BY <2>1, <2>2, <2>4, <2>5
<1>3. ASSUME NEW o \in WebOrigins \cup {NoOrigin}, NEW inner \in Inner,
             FromService(o, inner)
      PROVE  CorsInv'
  <2>1. stored' = [origin |-> o, own |-> inner.allow, response |-> Respond(o, inner)'] /\ cors' = cors
    BY <1>3 DEF FromService, Respond, Vary
  <2>2. received' = [origin |-> o, own |-> inner.allow, allow |-> Respond(o, inner).allow]
    BY <1>3 DEF FromService
  <2>3. CachedAnswersFit'
    BY <2>1, <2>2, CorsAssumption DEF Respond
  <2> QED BY <2>1, <2>3
<1>4. CASE UNCHANGED browsing
  BY <1>4 DEF browsing, Respond, Vary
<1> QED
  BY <1>1, <1>2, <1>3, <1>4 DEF CorsNext

(* For any origins and policies: what a shared cache hands to a page       *)
(* permits it if its origin is listed, and otherwise no more and no less   *)
(* than the route's own answer does (cors.rs, the permission and the Vary  *)
(* header; proxy.rs, which hands on the upstream's permission).            *)
THEOREM AnswersFit == CorsSpec => []CachedAnswersFit
<1>1. CorsInit => CorsInv
  BY DEF CorsInit, CorsInv, CachedAnswersFit
<1>2. CorsInv => CachedAnswersFit
  BY DEF CorsInv
<1> QED BY <1>1, <1>2, NextCorsInv, PTL DEF CorsSpec

---------------------------------------------------------------------------
(* The settings of the service.                                            *)

StartupTypeOK ==
    /\ environ \in Environments
    /\ outcome \in {"starting", "refused", "serving"}
    /\ outcome = "refused" => ~Accepted
    /\ outcome = "serving" => Accepted /\ config = Configured

(* What is accepted is within the bounds, setting by setting.             *)
LEMMA SettingWithin ==
    ASSUME environ \in Environments, Accepted, NEW s \in DOMAIN Bounded
    PROVE  Setting(s) \in Int /\ Setting(s) >= Bounded[s].lo /\ Setting(s) <= Bounded[s].hi
<1>1. Within(Setting(s), Bounded[s].lo, Bounded[s].hi)
  BY DEF Accepted
<1>2. Setting(s) # Unparsable
  BY <1>1 DEF Within
<1>3. Bounded[s].default \in Int
  BY SMT DEF Bounded, Bounds
<1>4. s \in Settings
  BY DEF Settings
<1>5. Setting(s) \in Int
  BY <1>2, <1>3, <1>4, StartupAssumption DEF Setting, env_or, Environments
<1> QED
  BY <1>1, <1>5 DEF Within

LEMMA SettingBounds ==
    ASSUME environ \in Environments, Accepted
    PROVE  /\ \A s \in DOMAIN Bounded : Setting(s) \in Int
           /\ Setting("MAX_CLIENTS") >= 1 /\ Setting("IDLE_TIMEOUT") >= 1
           /\ Setting("MAX_CONCURRENT") >= 1
           /\ Setting("SETTLE_RETRIES") = 0
           /\ Setting("BACKOFF_MS") <= 3000
<1>1. \A s \in DOMAIN Bounded :
         Setting(s) \in Int /\ Setting(s) >= Bounded[s].lo /\ Setting(s) <= Bounded[s].hi
  BY SettingWithin
<1> QED
  BY <1>1, SMTT(60) DEF Bounded, Bounds

(* The defaults are accepted.                                              *)
LEMMA BlankAccepted ==
    ASSUME environ = [s \in Settings |-> Blank]
    PROVE  Accepted
<1>1. \A s \in DOMAIN Bounded : Within(Setting(s), Bounded[s].lo, Bounded[s].hi)
  BY StartupAssumption DEF Within, Setting, env_or, Settings, Bounded, Bounds
<1>2. rate_limit_rps = 0 /\ rate_limit_burst = 0 /\ environ["REPLAY_CACHE"] = Blank
  BY DEF rate_limit_rps, rate_limit_burst, env_or, Settings
<1> QED
  BY <1>1, <1>2, StartupAssumption DEF Accepted, NotNegative

LEMMA RatesNatural ==
    ASSUME environ \in Environments, Accepted
    PROVE  rate_limit_rps \in Nat /\ rate_limit_burst \in Nat
BY StartupAssumption
   DEF Accepted, NotNegative, rate_limit_rps, rate_limit_burst, env_or, Environments, Settings

(* Settings that are accepted configure parts that can be built of them.   *)
LEMMA ConfiguredSound ==
    ASSUME environ \in Environments, Accepted, config = Configured
    PROVE  PartsSound
<1>1. config.slots >= 1 /\ config.retry.initial_ms <= config.retry.max_ms
  BY SettingBounds DEF Configured
<1>2. rate_limit_rps \in Nat /\ rate_limit_burst \in Nat
  BY RatesNatural
<1>3. config.limiter # Off =>
         /\ config.limiter.rps > 0 /\ config.limiter.burst >= 2
         /\ config.limiter.max_clients >= 1 /\ config.limiter.idle_timeout >= 1
  BY <1>2, SettingBounds, SMT DEF Configured, Bounded
<1>4. config.replay # Off => config.replay.capacity >= 1
  BY DEF Configured, Accepted, Within
<1> QED
  BY <1>1, <1>3, <1>4 DEF PartsSound

(* They configure the protections that were asked for.                     *)
LEMMA ConfiguredAsAsked ==
    ASSUME environ \in Environments, Accepted, config = Configured
    PROVE  RunsAsAsked
<1>1. \A s \in Settings \ {"CLOCK_DRIFT"} : environ[s] # Unparsable
  BY StartupAssumption
     DEF Accepted, Within, NotNegative, Setting, rate_limit_rps, rate_limit_burst, env_or, Settings
<1>2. config.settle = 0 /\ (Legible("MAX_CONCURRENT") => config.slots = environ["MAX_CONCURRENT"])
  BY SettingBounds DEF Configured, Setting, env_or, Legible
<1>3. rate_limit_rps \in Nat /\ rate_limit_burst \in Nat
  BY RatesNatural
<1>4. config.limiter # Off <=> Legible("RPS") /\ environ["RPS"] # 0
  <2>1. Legible("RPS") /\ environ["RPS"] # 0 <=> rate_limit_rps # 0
    BY DEF rate_limit_rps, env_or, Legible
  <2>2. Setting("MAX_CLIENTS") \in Nat /\ Setting("IDLE_TIMEOUT") \in Nat
    BY SettingBounds DEF Bounded
  <2> QED
    BY <1>3, <2>1, <2>2, StartupAssumption DEF Configured
<1>5. config.limiter # Off =>
         /\ config.limiter.rps = environ["RPS"]
         /\ LET asked == IF Legible("BURST") THEN environ["BURST"] ELSE environ["RPS"]
            IN  config.limiter.burst = IF asked < 2 THEN 2 ELSE asked
  <2> SUFFICES ASSUME config.limiter # Off
               PROVE  /\ config.limiter.rps = environ["RPS"]
                      /\ LET asked == IF Legible("BURST") THEN environ["BURST"] ELSE environ["RPS"]
                         IN  config.limiter.burst = IF asked < 2 THEN 2 ELSE asked
    OBVIOUS
  <2>1. rate_limit_rps = environ["RPS"]
    BY <1>4 DEF rate_limit_rps, env_or, Legible
  <2>2. rate_limit_burst = IF Legible("BURST") THEN environ["BURST"] ELSE environ["RPS"]
    BY <2>1 DEF rate_limit_burst, env_or, Legible
  <2>3. /\ config.limiter.rps = rate_limit_rps
        /\ config.limiter.burst = IF rate_limit_burst < 2 THEN 2 ELSE rate_limit_burst
    BY DEF Configured
  <2> QED BY <2>1, <2>2, <2>3
<1>6. /\ config.replay # Off <=> environ["REPLAY_CACHE"] # Blank
      /\ config.replay # Off => config.replay.capacity = environ["REPLAY_CACHE"]
  <2>1. environ["REPLAY_CACHE"] # Blank => environ["REPLAY_CACHE"] \in Nat
    BY StartupAssumption DEF Accepted, Within, Environments, Settings
  <2> QED BY <2>1, StartupAssumption DEF Configured
<1>7. /\ config.expiration # Off <=> environ["CLOCK_DRIFT"] \in Nat
      /\ config.expiration # Off => config.expiration.drift = environ["CLOCK_DRIFT"]
  <2>1. DriftGiven <=> environ["CLOCK_DRIFT"] \in Nat
    BY StartupAssumption DEF DriftGiven, Environments, Settings
  <2> QED BY <2>1, StartupAssumption DEF Configured
<1> QED
  BY <1>1, <1>2, <1>4, <1>5, <1>6, <1>7 DEF RunsAsAsked

(* For any environment: a service that starts is built of parts within     *)
(* their limits and runs the protections it was asked for, to the figure,  *)
(* except those asked for in bytes that are not Unicode and a drift that   *)
(* is no number (main.rs, the settings and their checks).                  *)
THEOREM ServiceStartsSafely == StartupSpec => []StartedSafely
<1>1. environ \in Environments /\ Starting => StartupTypeOK
  BY DEF Starting, StartupTypeOK
<1>2. StartupTypeOK /\ [StartupNext]_starting => StartupTypeOK'
  BY DEF StartupTypeOK, StartupNext, Start, Started, starting, Accepted, Within, Setting, env_or,
         Configured, NotNegative, DriftGiven, rate_limit_rps, rate_limit_burst, Environments
<1>3. StartupTypeOK => StartedSafely
  <2> SUFFICES ASSUME StartupTypeOK PROVE StartedSafely
    OBVIOUS
  <2>1. CASE outcome = "refused"
    <3>1. \E s \in Settings : environ[s] # Blank
      BY <2>1, BlankAccepted DEF StartupTypeOK, Environments
    <3> QED BY <2>1, <3>1 DEF StartedSafely
  <2> QED
    BY <2>1, ConfiguredSound, ConfiguredAsAsked DEF StartedSafely, StartupTypeOK
<1> QED BY <1>1, <1>2, <1>3, PTL DEF StartupSpec

---------------------------------------------------------------------------
(* The expiration guard: its saturating arithmetic decides as unbounded    *)
(* integers would, and time moves its verdicts one way only.               *)

(* Bounds that can be read, and a configuration, are seconds.              *)
Readable == {valid_after, valid_before} \subseteq Seconds

EInv ==
    /\ drift \in Seconds /\ minimum \in Seconds
    /\ now \in Seconds /\ checked \in Seconds /\ checked <= now
    /\ Readable \/ Unread \in {valid_after, valid_before}
    /\ verdict \in GuardVerdicts
    /\ verdict \notin {"none", "skipped"} =>
          Readable /\ verdict = validate(valid_after, valid_before, checked)

---------------------------------------------------------------------------
(* What validate decides.                                                  *)

(* The saturated sums and differences compare as the exact ones do.        *)
LEMMA Saturation ==
    ASSUME NEW a \in Seconds, NEW b \in Seconds, NEW c \in Seconds
    PROVE  /\ a > saturating_add(b, c) <=> a > b + c
           /\ a < saturating_sub(b, c) <=> a + c < b
           /\ a <= b => (saturating_sub(b, a) < c <=> b < a + c)
BY ExpirationAssumption DEF Seconds, saturating_add, saturating_sub

(* The verdict in unbounded integers.                                      *)
LEMMA Verdicts ==
    ASSUME NEW a \in Seconds, NEW b \in Seconds, NEW t \in Seconds,
           drift \in Seconds, minimum \in Seconds
    PROVE  /\ validate(a, b, t) = "inverted" <=> a > b
           /\ validate(a, b, t) = "not_yet" <=> a <= b /\ t + drift < a
           /\ validate(a, b, t) = "expired" <=> a <= b /\ a <= t + drift /\ b < t
           /\ validate(a, b, t) = "insufficient" <=>
                 a <= b /\ a <= t + drift /\ t <= b /\ b < t + minimum
           /\ validate(a, b, t) = "ok" <=> a <= b /\ a <= t + drift /\ t + minimum <= b
           /\ validate(a, b, t) \in {"inverted", "not_yet", "ok", "insufficient", "expired"}
<1>1. /\ a > saturating_add(t, drift) <=> a > t + drift
      /\ b < saturating_sub(t, drift) <=> b + drift < t
      /\ t <= b => (saturating_sub(b, t) < minimum <=> b < t + minimum)
  BY Saturation
<1>2. a \in Nat /\ b \in Nat /\ t \in Nat /\ drift \in Nat /\ minimum \in Nat
  BY ExpirationAssumption DEF Seconds
<1> QED
  BY <1>1, <1>2 DEF validate

---------------------------------------------------------------------------
(* The invariant.                                                          *)

LEMMA InitEInv == ExpirationInit => EInv
BY ExpirationAssumption DEF ExpirationInit, EInv, Readable, GuardVerdicts, Seconds

LEMMA NextEInv == EInv /\ [ExpirationNext]_expiring => EInv'
<1> SUFFICES ASSUME EInv, [ExpirationNext]_expiring PROVE EInv'
  OBVIOUS
<1>1. CASE Tick
  BY <1>1, ExpirationAssumption DEF Tick, EInv, Readable, Seconds, validate, saturating_add,
     saturating_sub
<1>2. CASE Check
  <2>1. CASE Unread \in {valid_after, valid_before}
    BY <1>2, <2>1, ExpirationAssumption DEF Check, EInv, Readable, Seconds, GuardVerdicts
  <2>2. CASE Unread \notin {valid_after, valid_before}
    <3>1. Readable /\ Readable'
      BY <1>2, <2>2 DEF Check, EInv, Readable
    <3>2. verdict' = validate(valid_after, valid_before, now)
      BY <1>2, <2>2 DEF Check
    <3>3. verdict' \in {"inverted", "not_yet", "ok", "insufficient", "expired"}
      BY <3>1, <3>2, Verdicts DEF EInv, Readable
    <3>4. verdict' = validate(valid_after, valid_before, checked)'
      BY <1>2, <3>2 DEF Check, validate, saturating_add, saturating_sub
    <3> QED
      BY <1>2, <3>1, <3>3, <3>4, ExpirationAssumption DEF Check, EInv, Seconds, GuardVerdicts
  <2> QED
    BY <2>1, <2>2
<1>3. CASE UNCHANGED expiring
  BY <1>3 DEF expiring, EInv, Readable, validate, saturating_add, saturating_sub
<1> QED
  BY <1>1, <1>2, <1>3 DEF ExpirationNext

(* The verdict is the one of the instant it was given at (expiration.rs,   *)
(* ExpirationGuard::validate).                                             *)
THEOREM ExpirationInvariantHolds == ExpirationSpec => []EInv
<1> QED
  BY InitEInv, NextEInv, PTL DEF ExpirationSpec

---------------------------------------------------------------------------
(* What the guard promises.                                                *)

LEMMA Exact == EInv => VerdictExact
<1> SUFFICES ASSUME EInv, verdict \notin {"none", "skipped"} PROVE VerdictExact
  BY DEF VerdictExact
<1>1. /\ valid_after \in Nat /\ valid_before \in Nat /\ checked \in Nat
      /\ drift \in Nat /\ minimum \in Nat
  BY ExpirationAssumption DEF EInv, Readable, Seconds
<1>2. verdict = "ok" <=> /\ valid_after <= valid_before /\ valid_after <= checked + drift
                         /\ checked + minimum <= valid_before
  BY Verdicts DEF EInv, Readable
<1>3. verdict = "not_yet" <=> valid_after <= valid_before /\ checked + drift < valid_after
  BY Verdicts DEF EInv, Readable
<1>4. verdict = "expired" <=> /\ valid_after <= valid_before /\ valid_after <= checked + drift
                              /\ valid_before < checked
  BY Verdicts DEF EInv, Readable
<1> QED
  BY <1>1, <1>2, <1>3, <1>4 DEF VerdictExact

LEMMA Advance ==
    ASSUME EInv, [ExpirationNext]_expiring, verdict \in DOMAIN Stage
    PROVE  verdict' \in DOMAIN Stage /\ Stage[verdict] <= Stage[verdict']
<1>1. CASE UNCHANGED verdict
  BY <1>1 DEF Stage
<1>2. CASE Check
  <2>1. /\ Readable
        /\ verdict = validate(valid_after, valid_before, checked)
        /\ verdict' = validate(valid_after, valid_before, now)
    BY <1>2, ExpirationAssumption DEF Check, EInv, Readable, Stage, Seconds
  <2>2. /\ valid_after \in Nat /\ valid_before \in Nat /\ checked \in Nat /\ now \in Nat
        /\ drift \in Nat /\ minimum \in Nat /\ checked <= now
    BY <2>1, ExpirationAssumption DEF EInv, Readable, Seconds
  <2>3. /\ valid_after \in Seconds /\ valid_before \in Seconds
        /\ checked \in Seconds /\ now \in Seconds
        /\ drift \in Seconds /\ minimum \in Seconds
    BY <2>1 DEF EInv, Readable
  <2>4. verdict \in {"not_yet", "ok", "insufficient", "expired"}
    BY DEF Stage
  <2>5. DOMAIN Stage = {"not_yet", "ok", "insufficient", "expired"}
    BY DEF Stage
  <2>6. /\ verdict = "inverted" <=> valid_after > valid_before
        /\ verdict' = "inverted" <=> valid_after > valid_before
        /\ verdict' \in {"inverted", "not_yet", "ok", "insufficient", "expired"}
    BY <2>1, <2>3, Verdicts
  <2>7. verdict' \in DOMAIN Stage
    BY <2>4, <2>5, <2>6
  <2>8. verdict' = "not_yet" => verdict = "not_yet"
    <3>1. verdict' = "not_yet" => valid_after <= valid_before /\ now + drift < valid_after
      BY <2>1, <2>3, Verdicts
    <3>2. valid_after <= valid_before /\ checked + drift < valid_after => verdict = "not_yet"
      BY <2>1, <2>3, Verdicts
    <3> QED
      BY <2>2, <3>1, <3>2
  <2>9. verdict = "expired" => verdict' # "ok" /\ verdict' # "insufficient"
    <3>1. verdict = "expired" => valid_before < checked
      BY <2>1, <2>3, Verdicts
    <3>2. verdict' = "ok" => now + minimum <= valid_before
      BY <2>1, <2>3, Verdicts
    <3>3. verdict' = "insufficient" => now <= valid_before
      BY <2>1, <2>3, Verdicts
    <3> QED
      BY <2>2, <3>1, <3>2, <3>3
  <2>10. verdict = "insufficient" => verdict' # "ok"
    <3>1. verdict = "insufficient" => valid_before < checked + minimum
      BY <2>1, <2>3, Verdicts
    <3>2. verdict' = "ok" => now + minimum <= valid_before
      BY <2>1, <2>3, Verdicts
    <3> QED
      BY <2>2, <3>1, <3>2
  <2> QED
    BY <2>4, <2>5, <2>7, <2>8, <2>9, <2>10 DEF Stage
<1> QED
  BY <1>1, <1>2 DEF ExpirationNext, Tick, expiring

(* ExpirationGuard::validate: the verdict is the exact one, next           *)
(* to the last second of a u64 too, and only moves on as the clock runs.   *)
THEOREM WindowIsRespected == ExpirationSpec => WindowRespected
<1>1. EInv /\ [ExpirationNext]_expiring => VerdictExact'
  <2>1. EInv => VerdictExact
    BY Exact
  <2>2. EInv' => VerdictExact'
    BY <2>1, PTL
  <2> QED
    BY <2>2, NextEInv
<1>2. EInv /\ [ExpirationNext]_expiring => [VerdictExact' /\ VerdictAdvances]_expiring
  BY <1>1, Advance DEF VerdictAdvances
<1> QED
  BY <1>2, ExpirationInvariantHolds, PTL DEF ExpirationSpec, WindowRespected

---------------------------------------------------------------------------
(* Sequences that are cut and reversed, and the numbers digits denote.     *)

(* A nonempty set of naturals has a least element.                         *)
LEMMA LeastExists ==
    ASSUME NEW S \in SUBSET Nat, S # {}
    PROVE  Min(S) \in S /\ \A n \in S : Min(S) <= n
<1> DEFINE R == OpToRel(<, Nat)
<1>1. IsWellFoundedOn(R, Nat)
  BY NatLessThanWellFounded
<1>2. \A m, n \in Nat : m < n => <<m, n>> \in R
  BY DEF OpToRel
<1>3. PICK x \in S : \A y \in S : ~ (<<y, x>> \in R)
  <2> HIDE DEF R
  <2> QED BY <1>1, WFMin
<1> HIDE DEF R
<1>4. ASSUME NEW y \in S PROVE x <= y
  <2>1. ~ (y < x)
    BY <1>2, <1>3
  <2> QED BY <2>1
<1> QED
  BY <1>3, <1>4 DEF Min

(* t is what is left of s, from p on, when it starts with no more c's.     *)
LeftFrom(s, c, p, t) ==
    /\ Len(t) = Len(s) - p + 1
    /\ \A n \in 1..(Len(s) - p + 1) : t[n] = s[p + n - 1]
    /\ \A n \in 1..(p - 1) : s[n] = c
    /\ p <= Len(s) => s[p] # c

LEMMA TrimmedStart ==
    ASSUME NEW S, NEW s \in Seq(S), NEW c
    PROVE  /\ trim_start(s, c) \in Seq(S)
           /\ \E p \in 1..(Len(s) + 1) : LeftFrom(s, c, p, trim_start(s, c))
<1> DEFINE kept == {n \in DOMAIN s : s[n] # c}
<1>0. Len(s) \in Nat /\ DOMAIN s = 1..Len(s) /\ \A n \in 1..Len(s) : s[n] \in S
  BY LenProperties, ElementOfSeq
<1>1. CASE kept = {}
  <2>1. trim_start(s, c) = <<>>
    BY <1>1 DEF trim_start
  <2>2. <<>> \in Seq(S) /\ Len(<<>>) = 0
    OBVIOUS
  <2>3. \A n \in 1..Len(s) : s[n] = c
    BY <1>0, <1>1
  <2> DEFINE p == Len(s) + 1
  <2>4. p \in 1..(Len(s) + 1) /\ Len(s) - p + 1 = 0 /\ p - 1 = Len(s) /\ ~ (p <= Len(s))
    BY <1>0
  <2> HIDE DEF p
  <2>5. \A n \in 1..(Len(s) - p + 1) : <<>>[n] = s[p + n - 1]
    BY <2>4
  <2>6. LeftFrom(s, c, p, <<>>)
    BY <2>2, <2>3, <2>4, <2>5 DEF LeftFrom
  <2> QED BY <2>1, <2>2, <2>4, <2>6
<1>2. CASE kept # {}
  <2> DEFINE p == Min(kept)
  <2>1. kept \in SUBSET Nat
    BY <1>0
  <2>2. p \in kept /\ \A n \in kept : p <= n
    BY <1>2, <2>1, LeastExists
  <2>3. trim_start(s, c) = SubSeq(s, p, Len(s))
    BY <1>2 DEF trim_start
  <2>4. p \in 1..Len(s) /\ s[p] # c
    BY <1>0, <2>2
  <2>5. ASSUME NEW n \in 1..(p - 1) PROVE s[n] = c
    <3>1. n \in DOMAIN s /\ n < p
      BY <1>0, <2>4
    <3>2. n \notin kept
      <4> SUFFICES ASSUME n \in kept PROVE FALSE
        OBVIOUS
      <4>1. p <= n
        BY <2>2
      <4> QED BY <4>1, <3>1, <2>4
    <3> QED BY <3>1, <3>2
  <2> HIDE DEF p
  <2>6. /\ SubSeq(s, p, Len(s)) \in Seq(S)
        /\ Len(SubSeq(s, p, Len(s))) = Len(s) - p + 1
        /\ \A n \in 1..(Len(s) - p + 1) : SubSeq(s, p, Len(s))[n] = s[p + n - 1]
    BY <1>0, <2>4, SubSeqProperties
  <2>7. p \in 1..(Len(s) + 1)
    BY <1>0, <2>4
  <2>8. LeftFrom(s, c, p, SubSeq(s, p, Len(s)))
    BY <2>4, <2>5, <2>6 DEF LeftFrom
  <2> QED BY <2>3, <2>6, <2>7, <2>8
<1> QED BY <1>1, <1>2

LEMMA Reversed ==
    ASSUME NEW S, NEW s \in Seq(S)
    PROVE  /\ Reverse(s) \in Seq(S) /\ Len(Reverse(s)) = Len(s)
           /\ \A n \in 1..Len(s) : Reverse(s)[n] = s[Len(s) - n + 1]
<1>1. Len(s) \in Nat /\ \A n \in 1..Len(s) : s[n] \in S
  BY LenProperties, ElementOfSeq
<1>2. \A n \in 1..Len(s) : Len(s) - n + 1 \in 1..Len(s)
  BY <1>1
<1>3. Reverse(s) = [n \in 1..Len(s) |-> s[Len(s) - n + 1]]
  BY DEF Reverse
<1>4. Reverse(s) \in [1..Len(s) -> S]
  BY <1>1, <1>2, <1>3
<1>5. Reverse(s) \in Seq(S) /\ Len(Reverse(s)) = Len(s)
  BY <1>1, <1>4
<1> QED BY <1>3, <1>5

(* trim takes the blanks off both ends and nothing else.                   *)
LEMMA Trimmed ==
    ASSUME NEW S, NEW s \in Seq(S)
    PROVE  \E a \in 1..(Len(s) + 1), b \in 0..Len(s) :
              /\ a <= b + 1
              /\ trim(s) \in Seq(S) /\ Len(trim(s)) = b - a + 1
              /\ \A n \in 1..(b - a + 1) : trim(s)[n] = s[a + n - 1]
              /\ \A n \in 1..(a - 1) : s[n] = " "
              /\ \A n \in (b + 1)..Len(s) : s[n] = " "
              /\ a <= b => s[a] # " " /\ s[b] # " "
<1> DEFINE u == trim_start(s, " ")
           v == Reverse(u)
           w == trim_start(v, " ")
           L == Len(s)
<1>0. L \in Nat /\ trim(s) = Reverse(w)
  BY LenProperties DEF trim
<1>a. u \in Seq(S) /\ \E p \in 1..(L + 1) : LeftFrom(s, " ", p, u)
  BY TrimmedStart
<1> HIDE DEF u
<1>b. /\ v \in Seq(S) /\ Len(v) = Len(u)
      /\ \A n \in 1..Len(u) : v[n] = u[Len(u) - n + 1]
  BY <1>a, Reversed
<1> HIDE DEF v
<1>c. w \in Seq(S) /\ \E p \in 1..(Len(v) + 1) : LeftFrom(v, " ", p, w)
  BY <1>b, TrimmedStart
<1> HIDE DEF w, L
<1>d. PICK a \in 1..(L + 1) : LeftFrom(s, " ", a, u)
  BY <1>a
<1>e. PICK q \in 1..(Len(v) + 1) : LeftFrom(v, " ", q, w)
  BY <1>c
<1>f. Len(u) \in Nat /\ Len(v) \in Nat /\ Len(w) \in Nat
  BY <1>a, <1>b, <1>c, LenProperties
<1>1. /\ Len(u) = L - a + 1
      /\ \A n \in 1..(L - a + 1) : u[n] = s[a + n - 1]
      /\ \A n \in 1..(a - 1) : s[n] = " "
      /\ a <= L => s[a] # " "
  BY <1>d DEF LeftFrom, L
<1>2. /\ Len(v) = Len(u)
      /\ \A n \in 1..Len(u) : v[n] = u[Len(u) - n + 1]
  BY <1>b
<1>3. /\ Len(w) = Len(v) - q + 1
      /\ \A n \in 1..(Len(v) - q + 1) : w[n] = v[q + n - 1]
      /\ \A n \in 1..(q - 1) : v[n] = " "
      /\ q <= Len(v) => v[q] # " "
  BY <1>e DEF LeftFrom
<1>g. /\ L \in Nat /\ a \in Nat /\ a >= 1 /\ a <= L + 1
      /\ Len(u) = L - a + 1 /\ Len(v) = L - a + 1
      /\ q \in Nat /\ q >= 1 /\ q <= L - a + 2 /\ Len(w) = L - a - q + 2
  <2>1. Len(u) = L - a + 1
    BY <1>1
  <2>2. Len(v) = Len(u)
    BY <1>2
  <2>3. Len(w) = Len(v) - q + 1
    BY <1>3
  <2> QED BY <1>0, <2>1, <2>2, <2>3
<1>4. /\ Reverse(w) \in Seq(S) /\ Len(Reverse(w)) = Len(w)
      /\ \A n \in 1..Len(w) : Reverse(w)[n] = w[Len(w) - n + 1]
  BY <1>c, Reversed
<1> DEFINE b == L - q + 1
<1>5. /\ b \in 0..L /\ a <= b + 1 /\ Len(w) = b - a + 1
  BY <1>g
<1>6. ASSUME NEW n \in 1..(b - a + 1) PROVE trim(s)[n] = s[a + n - 1]
  <2>1. trim(s)[n] = w[Len(w) - n + 1]
    BY <1>0, <1>4, <1>5
  <2> DEFINE m == Len(w) - n + 1
  <2>2. m \in 1..(Len(v) - q + 1)
    BY <1>g
  <2>3. w[m] = v[q + m - 1]
    BY <2>2, <1>3
  <2> DEFINE r == q + m - 1
  <2>4. r \in 1..Len(u)
    BY <2>2, <1>g
  <2>5. v[r] = u[Len(u) - r + 1]
    BY <2>4, <1>2
  <2>6. Len(u) - r + 1 = n /\ n \in 1..(L - a + 1)
    BY <1>g
  <2> HIDE DEF m
  <2>7. w[m] = v[r]
    BY <2>3
  <2> HIDE DEF r
  <2> QED BY <2>1, <2>7, <2>5, <2>6, <1>1 DEF m
<1>7. ASSUME NEW n \in (b + 1)..L PROVE s[n] = " "
  <2>1. CASE n < a
    <3>1. n \in 1..(a - 1)
      BY <2>1, <1>g
    <3> QED BY <3>1, <1>1
  <2>2. CASE n >= a
    <3> DEFINE m == L - n + 1
    <3>1. m \in 1..(q - 1) /\ m \in 1..Len(u)
      BY <2>2, <1>g
    <3>2. v[m] = " " /\ v[m] = u[Len(u) - m + 1]
      BY <3>1, <1>2, <1>3
    <3>3. Len(u) - m + 1 = n - a + 1 /\ n - a + 1 \in 1..(L - a + 1) /\ a + (n - a + 1) - 1 = n
      BY <2>2, <1>g
    <3>4. u[n - a + 1] = s[n]
      BY <3>3, <1>1
    <3> QED BY <3>2, <3>3, <3>4
  <2>3. n < a \/ n >= a
    BY <1>g
  <2> QED BY <2>1, <2>2, <2>3
<1>8. ASSUME a <= b PROVE s[a] # " " /\ s[b] # " "
  <2>1. a <= L /\ q <= Len(v) /\ q \in 1..Len(u)
    BY <1>8, <1>g
  <2>2. v[q] # " " /\ v[q] = u[Len(u) - q + 1]
    BY <2>1, <1>2, <1>3
  <2>3. Len(u) - q + 1 = b - a + 1 /\ b - a + 1 \in 1..(L - a + 1) /\ a + (b - a + 1) - 1 = b
    BY <2>1, <1>g
  <2>4. u[b - a + 1] = s[b]
    BY <2>3, <1>1
  <2> QED BY <2>1, <2>2, <2>3, <2>4, <1>1
<1>9. a \in 1..(Len(s) + 1) /\ b \in 0..Len(s)
  BY <1>0, <1>1, <1>5 DEF L
<1>10. trim(s) \in Seq(S) /\ Len(trim(s)) = b - a + 1
  BY <1>0, <1>4, <1>5
<1>11. \A n \in (b + 1)..Len(s) : s[n] = " "
  BY <1>7 DEF L
<1> HIDE DEF b
<1> QED
  BY <1>1, <1>5, <1>6, <1>8, <1>9, <1>10, <1>11
(* The part of a text that parse_price reads.                              *)
Core(text) == strip_prefix(trim(text))

(* s is the text from i to k; outside there are blanks, but for a dollar   *)
(* sign just before.                                                       *)
Spans(text, i, k, s) ==
    /\ i \in 1..(Len(text) + 1) /\ k \in 0..Len(text) /\ i <= k + 1
    /\ Len(s) = k - i + 1
    /\ \A n \in 1..(k - i + 1) : s[n] = text[i + n - 1]
    /\ \A n \in 1..(i - 1) : text[n] = " " \/ (n = i - 1 /\ text[n] = "$")
    /\ \A n \in (k + 1)..Len(text) : text[n] = " "

(* An amount can only begin at i, and only end at k.                       *)
Only(text, i, k) ==
    /\ \A m \in 1..Len(text) :
          /\ text[m] # " " /\ text[m] # "$"
          /\ \A n \in 1..(m - 1) : text[n] = " " \/ (n = m - 1 /\ text[n] = "$")
          => m = i
    /\ \A m \in 1..Len(text) :
          text[m] # " " /\ (\A n \in (m + 1)..Len(text) : text[n] = " ") => m = k

LEMMA HeadIsFirst ==
    ASSUME NEW S, NEW s \in Seq(S), s # <<>>
    PROVE  Head(s) = s[1] /\ Len(s) \in Nat /\ Len(s) >= 1
<1>1. Len(s) \in Nat \ {0}
  BY EmptySeq
<1>2. Head(s) = s[1]
  BY <1>1
<1> QED BY <1>1, <1>2

LEMMA Stripped ==
    ASSUME NEW S, NEW text \in Seq(S)
    PROVE  /\ Core(text) \in Seq(S)
           /\ \E i, k \in Nat : Spans(text, i, k, Core(text)) /\ Only(text, i, k)
<1> DEFINE t == trim(text)
           L == Len(text)
<1>0. L \in Nat
  BY LenProperties
<1>a. /\ t \in Seq(S)
      /\ \E a \in 1..(L + 1), b \in 0..L :
            /\ a <= b + 1
            /\ Len(t) = b - a + 1
            /\ \A n \in 1..(b - a + 1) : t[n] = text[a + n - 1]
            /\ \A n \in 1..(a - 1) : text[n] = " "
            /\ \A n \in (b + 1)..L : text[n] = " "
            /\ a <= b => text[a] # " " /\ text[b] # " "
  BY Trimmed
<1> HIDE DEF t, L
<1>1. PICK a \in 1..(L + 1), b \in 0..L :
            /\ a <= b + 1
            /\ Len(t) = b - a + 1
            /\ \A n \in 1..(b - a + 1) : t[n] = text[a + n - 1]
            /\ \A n \in 1..(a - 1) : text[n] = " "
            /\ \A n \in (b + 1)..L : text[n] = " "
            /\ a <= b => text[a] # " " /\ text[b] # " "
  BY <1>a
<1>2. a \in Nat /\ b \in Nat /\ a >= 1 /\ a <= L + 1 /\ b <= L /\ a <= b + 1 /\ Len(t) = b - a + 1
  <2>1. a <= b + 1 /\ Len(t) = b - a + 1
    BY <1>1
  <2> QED BY <1>0, <2>1
<1>k. ASSUME NEW m \in 1..L, text[m] # " ", \A n \in (m + 1)..L : text[n] = " "
      PROVE  m = b /\ a <= m
  <2>1. ~ (m > b)
    <3>1. m > b => m \in (b + 1)..L
      BY <1>0, <1>2
    <3> QED BY <3>1, <1>1, <1>k
  <2>2. ~ (m < a)
    <3>1. m < a => m \in 1..(a - 1)
      BY <1>0, <1>2
    <3> QED BY <3>1, <1>1, <1>k
  <2>3. a <= m /\ m <= b
    BY <2>1, <2>2, <1>0, <1>2
  <2>4. ~ (m < b)
    <3>1. m < b => b \in (m + 1)..L
      BY <1>0, <1>2
    <3>2. text[b] # " "
      <4>1. a <= b
        BY <2>3, <1>0, <1>2
      <4> QED BY <4>1, <1>1
    <3> QED BY <3>1, <3>2, <1>k
  <2> QED BY <2>3, <2>4, <1>0, <1>2
<1>i. ASSUME NEW m \in 1..L, text[m] # " ", text[m] # "$",
             \A n \in 1..(m - 1) : text[n] = " " \/ (n = m - 1 /\ text[n] = "$")
      PROVE  /\ a <= b /\ text[a] = "$" => m = a + 1
             /\ ~ (a <= b /\ text[a] = "$") => m = a
  <2>1. ~ (m > b)
    <3>1. m > b => m \in (b + 1)..L
      BY <1>0, <1>2
    <3> QED BY <3>1, <1>1, <1>i
  <2>2. ~ (m < a)
    <3>1. m < a => m \in 1..(a - 1)
      BY <1>0, <1>2
    <3> QED BY <3>1, <1>1, <1>i
  <2>3. a <= m /\ m <= b /\ a <= b /\ m \in Nat
    BY <2>1, <2>2, <1>0, <1>2
  <2>4. text[a] # " "
    BY <2>3, <1>1
  <2>5. a < m => a = m - 1 /\ text[a] = "$"
    <3>1. a < m => a \in 1..(m - 1)
      BY <1>2, <2>3
    <3> QED BY <3>1, <2>4, <1>i
  <2>6. a = m \/ a < m
    BY <1>2, <2>3
  <2>7. a = m - 1 => m = a + 1
    BY <1>2, <2>3
  <2> QED BY <2>3, <2>5, <2>6, <2>7, <1>i
<1>3. CASE a <= b /\ text[a] = "$"
  <2>1. t # <<>> /\ Head(t) = "$"
    <3>1. 1 \in 1..(b - a + 1) /\ a + 1 - 1 = a /\ Len(t) >= 1
      BY <1>2, <1>3
    <3>2. t[1] = text[a]
      <4>1. t[1] = text[a + 1 - 1]
        BY <3>1, <1>1
      <4> QED BY <4>1, <3>1
    <3>3. t # <<>>
      <4>1. Len(<<>>) = 0
        BY EmptySeq
      <4>2. Len(t) # 0
        BY <3>1
      <4> QED BY <4>1, <4>2
    <3>4. Head(t) = t[1]
      BY <3>3, <1>a, HeadIsFirst
    <3> QED BY <3>2, <3>3, <3>4, <1>3
  <2>2. Core(text) = Tail(t)
    BY <2>1 DEF Core, strip_prefix, t
  <2>3. /\ Tail(t) \in Seq(S) /\ Len(Tail(t)) = Len(t) - 1
        /\ \A n \in 1..(Len(t) - 1) : Tail(t)[n] = t[n + 1]
    BY <2>1, <1>a, HeadTailProperties
  <2> DEFINE i == a + 1
  <2>4. i \in Nat /\ i \in 1..(L + 1) /\ b \in 0..L /\ i <= b + 1 /\ Len(t) - 1 = b - i + 1 /\ a = i - 1
    BY <1>0, <1>2, <1>3
  <2>5. ASSUME NEW n \in 1..(b - i + 1) PROVE Tail(t)[n] = text[i + n - 1]
    <3>1. n \in 1..(Len(t) - 1) /\ n + 1 \in 1..(b - a + 1) /\ a + (n + 1) - 1 = i + n - 1
      BY <1>2, <2>4
    <3> HIDE DEF i
    <3>2. Tail(t)[n] = t[n + 1]
      BY <3>1, <2>3
    <3>3. t[n + 1] = text[a + (n + 1) - 1]
      BY <3>1, <1>1
    <3> QED BY <3>1, <3>2, <3>3
  <2>6. ASSUME NEW n \in 1..(i - 1) PROVE text[n] = " " \/ (n = i - 1 /\ text[n] = "$")
    <3>1. n \in 1..(a - 1) \/ n = a
      BY <1>2, <2>4
    <3>2. i - 1 = a
      BY <1>2
    <3> QED BY <3>1, <3>2, <1>1, <1>3
  <2> HIDE DEF i
  <2>7. Spans(text, i, b, Core(text))
    <3>1. Len(Core(text)) = b - i + 1
      BY <2>2, <2>3, <2>4
    <3>2. \A n \in 1..(b - i + 1) : Core(text)[n] = text[i + n - 1]
      BY <2>2, <2>5
    <3>3. \A n \in (b + 1)..L : text[n] = " "
      BY <1>1
    <3> QED BY <3>1, <3>2, <3>3, <2>4, <2>6 DEF Spans, L
  <2>8. Only(text, i, b)
    BY <1>k, <1>i, <1>3 DEF Only, L, i
  <2> QED BY <2>2, <2>3, <2>4, <2>7, <2>8, <1>2
<1>4. CASE ~ (a <= b /\ text[a] = "$")
  <2>1. ~ (t # <<>> /\ Head(t) = "$")
    <3> SUFFICES ASSUME t # <<>>, Head(t) = "$" PROVE FALSE
      OBVIOUS
    <3>1. Len(t) # 0
      BY <1>a, EmptySeq
    <3>2. a <= b /\ 1 \in 1..(b - a + 1) /\ a + 1 - 1 = a
      BY <3>1, <1>2
    <3>3. t[1] = text[a + 1 - 1]
      BY <3>2, <1>1
    <3>4. Head(t) = t[1]
      BY <1>a, HeadIsFirst
    <3> QED BY <3>2, <3>3, <3>4, <1>4
  <2>2. Core(text) = t
    BY <2>1 DEF Core, strip_prefix, t
  <2>3. \A n \in (b + 1)..L : text[n] = " "
    BY <1>1
  <2>4. Spans(text, a, b, Core(text))
    BY <2>2, <2>3, <1>1, <1>2 DEF Spans, L
  <2>5. Only(text, a, b)
    BY <1>k, <1>i, <1>4 DEF Only, L
  <2> QED BY <2>2, <2>4, <2>5, <1>2, <1>a
<1> QED BY <1>3, <1>4
Digits == DOMAIN Digit

LEMMA DigitIsValue ==
    /\ \A c \in Digits : /\ Digit[c] \in 0..9 /\ (Digit[c] = 0 <=> c = "0")
                         /\ c # " " /\ c # "$" /\ c # "."
    /\ "0" \in Digits
<1>1. Digits = {"0", "1", "2", "3", "4", "5", "6", "7", "8", "9"}
  BY DEF Digit, Digits
<1>2. /\ Digit["0"] = 0 /\ Digit["1"] = 1 /\ Digit["2"] = 2 /\ Digit["3"] = 3
      /\ Digit["4"] = 4 /\ Digit["5"] = 5 /\ Digit["6"] = 6 /\ Digit["7"] = 7
      /\ Digit["8"] = 8 /\ Digit["9"] = 9
  BY DEF Digit
<1> QED BY <1>1, <1>2

(* The shapes of a plain decimal: digits, or digits around one point.      *)
LEMMA PlainForms ==
    ASSUME NEW S, NEW s \in Seq(S)
    PROVE  is_plain_positive_decimal(s) <=>
              /\ s # <<>>
              /\ \A n \in 1..Len(s) : s[n] \in Digits \/ s[n] = "."
              /\ \/ Dots(s) = {}
                 \/ \E p \in Nat : 1 < p /\ p < Len(s) /\ Dots(s) = {p}
<1>0. Len(s) \in Nat /\ DOMAIN s = 1..Len(s)
  BY LenProperties
<1>1. IsFiniteSet(Dots(s)) /\ Dots(s) \subseteq 1..Len(s)
  <2>1. Dots(s) \subseteq 1..Len(s)
    BY <1>0 DEF Dots
  <2>2. IsFiniteSet(1..Len(s))
    BY <1>0, FS_Interval
  <2> QED BY <2>1, <2>2, FS_Subset
<1>2. ToSet(s) \subseteq DOMAIN Digit \cup {"."} <=>
         \A n \in 1..Len(s) : s[n] \in Digits \/ s[n] = "."
  BY <1>0 DEF ToSet, Digits
<1>3. Cardinality(Dots(s)) <= 1 <=> Dots(s) = {} \/ \E p : Dots(s) = {p}
  <2>1. Cardinality(Dots(s)) \in Nat
    BY <1>1, FS_CardinalityType
  <2>2. Cardinality(Dots(s)) <= 1 <=> Cardinality(Dots(s)) = 0 \/ Cardinality(Dots(s)) = 1
    BY <2>1
  <2>3. Cardinality(Dots(s)) = 0 <=> Dots(s) = {}
    BY <1>1, FS_EmptySet
  <2>4. Cardinality(Dots(s)) = 1 <=> \E p : Dots(s) = {p}
    BY <1>1, FS_Singleton
  <2> QED BY <2>2, <2>3, <2>4
<1>4. ASSUME NEW p, Dots(s) = {p}, Dots(s) \cap {1, Len(s)} = {}
      PROVE  p \in Nat /\ 1 < p /\ p < Len(s)
  <2>1. p \in 1..Len(s)
    BY <1>1, <1>4
  <2>2. p # 1 /\ p # Len(s)
    BY <1>4
  <2>3. \A L \in Nat : \A x \in 1..L : x # 1 /\ x # L => x \in Nat /\ 1 < x /\ x < L
    OBVIOUS
  <2> QED BY <2>1, <2>2, <2>3, <1>0
<1>5. ASSUME NEW p \in Nat, Dots(s) = {p}, 1 < p, p < Len(s)
      PROVE  Dots(s) \cap {1, Len(s)} = {}
  BY <1>0, <1>5
<1> QED BY <1>2, <1>3, <1>4, <1>5 DEF is_plain_positive_decimal

LEMMA LeastOfOne == \A p \in Nat : Min({p}) = p
BY LeastExists

(* The parts of digits without a point, and of digits around one.          *)
LEMMA PartsWithout ==
    ASSUME NEW S, NEW s \in Seq(S), Dots(s) = {}
    PROVE  Whole(s) = s /\ Frac(s) = <<>>
BY DEF Whole, Frac

LEMMA PartsAround ==
    ASSUME NEW S, NEW s \in Seq(S), NEW p \in Nat, 1 < p, p < Len(s), Dots(s) = {p}
    PROVE  /\ Whole(s) \in Seq(S) /\ Len(Whole(s)) = p - 1
           /\ \A n \in 1..(p - 1) : Whole(s)[n] = s[n]
           /\ Frac(s) \in Seq(S) /\ Len(Frac(s)) = Len(s) - p
           /\ \A n \in 1..(Len(s) - p) : Frac(s)[n] = s[p + n]
<1>0. Len(s) \in Nat /\ \A n \in 1..Len(s) : s[n] \in S
  BY LenProperties, ElementOfSeq
<1>1. Whole(s) = SubSeq(s, 1, p - 1) /\ Frac(s) = SubSeq(s, p + 1, Len(s))
  BY LeastOfOne DEF Whole, Frac
<1>2. /\ SubSeq(s, 1, p - 1) \in Seq(S) /\ Len(SubSeq(s, 1, p - 1)) = p - 1
      /\ \A n \in 1..(p - 1) : SubSeq(s, 1, p - 1)[n] = s[n]
  <2>1. \A n \in 1..(p - 1) : s[n] \in S
    BY <1>0
  <2>2. /\ SubSeq(s, 1, p - 1) \in Seq(S)
        /\ Len(SubSeq(s, 1, p - 1)) = IF 1 <= p - 1 THEN (p - 1) - 1 + 1 ELSE 0
        /\ \A n \in 1..((p - 1) - 1 + 1) : SubSeq(s, 1, p - 1)[n] = s[1 + n - 1]
    BY <2>1, SubSeqProperties
  <2>3. (p - 1) - 1 + 1 = p - 1 /\ 1 <= p - 1 /\ \A n \in 1..(p - 1) : 1 + n - 1 = n
    OBVIOUS
  <2> QED BY <2>2, <2>3
<1>3. /\ SubSeq(s, p + 1, Len(s)) \in Seq(S) /\ Len(SubSeq(s, p + 1, Len(s))) = Len(s) - p
      /\ \A n \in 1..(Len(s) - p) : SubSeq(s, p + 1, Len(s))[n] = s[p + n]
  <2>1. \A n \in (p + 1)..Len(s) : s[n] \in S
    BY <1>0
  <2>2. /\ SubSeq(s, p + 1, Len(s)) \in Seq(S)
        /\ Len(SubSeq(s, p + 1, Len(s))) = IF p + 1 <= Len(s) THEN Len(s) - (p + 1) + 1 ELSE 0
        /\ \A n \in 1..(Len(s) - (p + 1) + 1) : SubSeq(s, p + 1, Len(s))[n] = s[(p + 1) + n - 1]
    BY <1>0, <2>1, SubSeqProperties
  <2>3. /\ Len(s) - (p + 1) + 1 = Len(s) - p /\ p + 1 <= Len(s)
        /\ \A n \in 1..(Len(s) - p) : (p + 1) + n - 1 = p + n
    BY <1>0
  <2> QED BY <2>2, <2>3
<1> QED BY <1>1, <1>2, <1>3
---------------------------------------------------------------------------
(* The amount that can be read in a text, if any.                          *)

(* A reading begins and ends where the core does.                          *)
LEMMA ReadingEnds ==
    ASSUME NEW S, NEW text \in Seq(S), NEW i \in Nat, NEW k \in Nat, Only(text, i, k),
           NEW d \in Nat, NEW r \in Readings(text, d)
    PROVE  /\ r.i = i /\ r.k = k /\ r.j \in Nat /\ i >= 1 /\ i <= r.j /\ r.j <= k /\ k <= Len(text)
           /\ Numeral(text, i, r.j)
           /\ k = r.j \/ (k > r.j + 1 /\ text[r.j + 1] = "." /\ Numeral(text, r.j + 2, k))
           /\ Places(r.j, k) <= d
<1> DEFINE L == Len(text)
<1>0. L \in Nat /\ DOMAIN text = 1..L
  BY LenProperties
<1>1. /\ r.i \in 1..L /\ r.j \in 1..L /\ r.k \in 1..L
      /\ r.i <= r.j /\ Numeral(text, r.i, r.j)
      /\ \A n \in 1..(r.i - 1) : text[n] = " " \/ (n = r.i - 1 /\ text[n] = "$")
      /\ r.k = r.j \/ (r.k > r.j + 1 /\ text[r.j + 1] = "." /\ Numeral(text, r.j + 2, r.k))
      /\ \A n \in (r.k + 1)..L : text[n] = " "
      /\ Places(r.j, r.k) <= d
  BY <1>0 DEF Readings
<1> HIDE DEF L
<1>a. r.i \in Nat /\ r.j \in Nat /\ r.k \in Nat /\ r.i >= 1 /\ r.i <= r.j /\ r.j <= L
      /\ r.k <= L
  <2>1. r.i \in 1..L /\ r.j \in 1..L /\ r.k \in 1..L /\ r.i <= r.j
    BY <1>1
  <2> QED BY <2>1, <1>0
<1>2. text[r.i] \in Digits
  <2>1. r.i \in (r.i)..(r.j)
    BY <1>a
  <2> QED BY <2>1, <1>1 DEF Numeral, Digits
<1>3. text[r.k] \in Digits
  <2>1. CASE r.k = r.j
    <3>1. r.j \in (r.i)..(r.j)
      BY <1>a
    <3> QED BY <3>1, <2>1, <1>1 DEF Numeral, Digits
  <2>2. CASE r.k # r.j
    <3>1. r.k > r.j + 1 /\ Numeral(text, r.j + 2, r.k)
      BY <2>2, <1>1
    <3>2. r.k \in (r.j + 2)..(r.k)
      BY <3>1, <1>a
    <3> QED BY <3>1, <3>2 DEF Numeral, Digits
  <2> QED BY <2>1, <2>2
<1>4. r.i = i
  <2>1. text[r.i] # " " /\ text[r.i] # "$"
    BY <1>2, DigitIsValue
  <2> QED BY <2>1, <1>1 DEF Only, L
<1>5. r.k = k
  <2>1. text[r.k] # " "
    BY <1>3, DigitIsValue
  <2> QED BY <2>1, <1>1 DEF Only, L
<1>6. r.j <= r.k
  <2>1. r.k = r.j \/ r.k > r.j + 1
    BY <1>1
  <2> QED BY <2>1, <1>a
<1>7. /\ r.i <= r.j /\ Numeral(text, r.i, r.j) /\ Places(r.j, r.k) <= d
      /\ r.k = r.j \/ (r.k > r.j + 1 /\ text[r.j + 1] = "." /\ Numeral(text, r.j + 2, r.k))
  BY <1>1
<1> QED BY <1>a, <1>4, <1>5, <1>6, <1>7 DEF L

(* A text with a reading has a plain core, of which the reading is parts.  *)
LEMMA ReadingIsCore ==
    ASSUME NEW S, NEW text \in Seq(S), NEW s \in Seq(S), NEW i \in Nat, NEW k \in Nat,
           Spans(text, i, k, s), Only(text, i, k),
           NEW d \in Nat, NEW r \in Readings(text, d)
    PROVE  /\ is_plain_positive_decimal(s) /\ Len(Frac(s)) <= d
           /\ SubSeq(text, r.i, r.j) = Whole(s) /\ SubSeq(text, r.j + 2, r.k) = Frac(s)
           /\ Places(r.j, r.k) = Len(Frac(s))
<1> DEFINE j == r.j
           L == Len(text)
<1>1. /\ r.i = i /\ r.k = k /\ j \in Nat /\ i >= 1 /\ i <= j /\ j <= k /\ k <= L
      /\ Numeral(text, i, j)
      /\ k = j \/ (k > j + 1 /\ text[j + 1] = "." /\ Numeral(text, j + 2, k))
      /\ Places(j, k) <= d
  BY ReadingEnds
<1>2. Len(s) = k - i + 1 /\ \A n \in 1..(k - i + 1) : s[n] = text[i + n - 1]
  BY DEF Spans
<1>3. L \in Nat /\ \A n \in 1..L : text[n] \in S
  BY LenProperties, ElementOfSeq
<1> HIDE DEF j, L
<1>4. s # <<>>
  <2>1. Len(s) # 0
    BY <1>1, <1>2
  <2> QED BY <2>1, EmptySeq
<1>5. ASSUME NEW n \in 1..(k - i + 1), i + n - 1 <= j PROVE s[n] \in Digits
  <2>1. i + n - 1 \in i..j
    BY <1>1, <1>5
  <2> QED BY <2>1, <1>1, <1>2 DEF Numeral, Digits
<1>a. /\ SubSeq(text, i, j) \in Seq(S) /\ Len(SubSeq(text, i, j)) = j - i + 1
      /\ \A n \in 1..(j - i + 1) : SubSeq(text, i, j)[n] = s[n]
  <2>1. \A n \in i..j : text[n] \in S
    BY <1>1, <1>3
  <2>2. /\ SubSeq(text, i, j) \in Seq(S)
        /\ Len(SubSeq(text, i, j)) = IF i <= j THEN j - i + 1 ELSE 0
        /\ \A n \in 1..(j - i + 1) : SubSeq(text, i, j)[n] = text[i + n - 1]
    BY <1>1, <2>1, SubSeqProperties
  <2>3. \A n \in 1..(j - i + 1) : n \in 1..(k - i + 1)
    BY <1>1
  <2> QED BY <2>2, <2>3, <1>1, <1>2
<1>6. CASE k = j
  <2>1. \A n \in 1..Len(s) : s[n] \in Digits
    BY <1>1, <1>2, <1>5, <1>6
  <2>2. Dots(s) = {}
    BY <2>1, DigitIsValue, LenProperties DEF Dots
  <2>3. is_plain_positive_decimal(s)
    BY <2>1, <2>2, <1>4, PlainForms
  <2>4. Whole(s) = s /\ Frac(s) = <<>>
    BY <2>2, PartsWithout
  <2>5. SubSeq(text, i, j) = s
    BY <1>a, <1>2, <1>6, SeqEqual
  <2>6. SubSeq(text, j + 2, k) = <<>>
    BY <1>1, <1>6, SubSeqEmpty
  <2>7. Places(j, k) = 0 /\ Len(<<>>) = 0
    BY <1>6, EmptySeq DEF Places
  <2> QED BY <2>3, <2>4, <2>5, <2>6, <2>7, <1>1 DEF j
<1>7. CASE k # j
  <2> DEFINE p == j + 2 - i
  <2>0. k > j + 1 /\ text[j + 1] = "." /\ Numeral(text, j + 2, k)
    BY <1>1, <1>7
  <2>1. /\ p \in Nat /\ 1 < p /\ p < Len(s) /\ p \in 1..(k - i + 1) /\ i + p - 1 = j + 1
        /\ p - 1 = j - i + 1 /\ Len(s) - p = k - j - 1
    BY <1>1, <1>2, <2>0
  <2>2. s[p] = "."
    <3>1. s[p] = text[i + p - 1]
      BY <2>1, <1>2
    <3> QED BY <3>1, <2>0, <2>1
  <2>3. ASSUME NEW n \in 1..Len(s), n # p PROVE s[n] \in Digits
    <3>1. n \in 1..(k - i + 1) /\ (i + n - 1 <= j \/ i + n - 1 \in (j + 2)..k)
      BY <1>1, <1>2, <2>3
    <3>2. i + n - 1 \in (j + 2)..k => s[n] \in Digits
      BY <3>1, <2>0, <1>2 DEF Numeral, Digits
    <3> QED BY <3>1, <3>2, <1>5
  <2> HIDE DEF p
  <2>4. Dots(s) = {p}
    <3>1. DOMAIN s = 1..Len(s) /\ Len(s) \in Nat
      BY LenProperties
    <3>2. p \in DOMAIN s
      BY <3>1, <2>1
    <3> QED BY <3>1, <3>2, <2>2, <2>3, DigitIsValue DEF Dots
  <2>5. is_plain_positive_decimal(s)
    BY <2>1, <2>2, <2>3, <2>4, <1>4, PlainForms
  <2>6. /\ Whole(s) \in Seq(S) /\ Len(Whole(s)) = p - 1
        /\ \A n \in 1..(p - 1) : Whole(s)[n] = s[n]
        /\ Frac(s) \in Seq(S) /\ Len(Frac(s)) = Len(s) - p
        /\ \A n \in 1..(Len(s) - p) : Frac(s)[n] = s[p + n]
    BY <2>1, <2>4, PartsAround
  <2>7. SubSeq(text, i, j) = Whole(s)
    <3>1. Len(SubSeq(text, i, j)) = Len(Whole(s))
      BY <1>a, <2>1, <2>6
    <3>2. \A n \in 1..Len(SubSeq(text, i, j)) : SubSeq(text, i, j)[n] = Whole(s)[n]
      BY <1>a, <2>1, <2>6
    <3> QED BY <3>1, <3>2, <1>a, <2>6, SeqEqual
  <2>8. SubSeq(text, j + 2, k) = Frac(s)
    <3> DEFINE t == SubSeq(text, j + 2, k)
    <3>1. \A n \in (j + 2)..k : text[n] \in S
      BY <1>1, <1>3
    <3>2. /\ t \in Seq(S)
          /\ Len(t) = IF j + 2 <= k THEN k - (j + 2) + 1 ELSE 0
          /\ \A n \in 1..(k - (j + 2) + 1) : t[n] = text[(j + 2) + n - 1]
      BY <1>1, <3>1, SubSeqProperties
    <3> HIDE DEF t
    <3>3. Len(t) = Len(Frac(s))
      <4>1. j + 2 <= k /\ k - (j + 2) + 1 = k - j - 1
        BY <2>0, <1>1
      <4> QED BY <4>1, <3>2, <2>1, <2>6
    <3>4. ASSUME NEW n \in 1..Len(t) PROVE t[n] = Frac(s)[n]
      <4>1. /\ n \in 1..(k - (j + 2) + 1) /\ n \in 1..(Len(s) - p) /\ p + n \in 1..(k - i + 1)
            /\ (j + 2) + n - 1 = i + (p + n) - 1
        BY <3>2, <2>0, <2>1, <1>1
      <4>2. Frac(s)[n] = s[p + n]
        BY <4>1, <2>6
      <4>3. s[p + n] = text[i + (p + n) - 1]
        BY <4>1, <1>2
      <4> QED BY <4>1, <4>2, <4>3, <3>2
    <3> QED BY <3>2, <3>3, <3>4, <2>6, SeqEqual DEF t
  <2>9. Places(j, k) = Len(Frac(s))
    BY <1>7, <2>1, <2>6 DEF Places
  <2> QED BY <2>5, <2>7, <2>8, <2>9, <1>1 DEF j
<1> QED BY <1>6, <1>7
(* A plain core with few enough digits after the point is a reading.       *)
LEMMA CoreIsReading ==
    ASSUME NEW S, NEW text \in Seq(S), NEW s \in Seq(S), NEW i \in Nat, NEW k \in Nat,
           Spans(text, i, k, s), is_plain_positive_decimal(s),
           NEW d \in Nat, Len(Frac(s)) <= d
    PROVE  \E r : r \in Readings(text, d)
<1> DEFINE L == Len(text)
<1>1. /\ L \in Nat /\ DOMAIN text = 1..L /\ i >= 1 /\ k <= L /\ i <= k + 1
      /\ Len(s) = k - i + 1
  <2>1. L \in Nat /\ DOMAIN text = 1..L
    BY LenProperties
  <2>2. i \in 1..(L + 1) /\ k \in 0..L /\ i <= k + 1 /\ Len(s) = k - i + 1
    BY DEF Spans
  <2> QED BY <2>1, <2>2
<1>2. /\ \A n \in 1..(k - i + 1) : s[n] = text[i + n - 1]
      /\ \A n \in 1..(i - 1) : text[n] = " " \/ (n = i - 1 /\ text[n] = "$")
      /\ \A n \in (k + 1)..L : text[n] = " "
  BY DEF Spans
<1> HIDE DEF L
<1>3. i <= k
  <2>1. s # <<>>
    BY PlainForms
  <2>2. Len(s) # 0
    BY <2>1, EmptySeq
  <2> QED BY <2>2, <1>1
<1>4. ASSUME NEW n \in i..k
      PROVE  /\ n - i + 1 \in 1..(k - i + 1)
             /\ s[n - i + 1] = text[n]
             /\ n - i + 1 \notin Dots(s) => text[n] \in DOMAIN Digit
  <2>1. n - i + 1 \in 1..(k - i + 1) /\ i + (n - i + 1) - 1 = n
    BY <1>1
  <2>2. s[n - i + 1] = text[n]
    <3>1. s[n - i + 1] = text[i + (n - i + 1) - 1]
      BY <2>1, <1>2
    <3> QED BY <3>1, <2>1
  <2>3. n - i + 1 \in DOMAIN s
    BY <2>1, <1>1, LenProperties
  <2>4. s[n - i + 1] \in Digits \/ s[n - i + 1] = "."
    BY <2>1, <1>1, PlainForms
  <2> QED BY <2>1, <2>2, <2>3, <2>4 DEF Dots, Digits
<1>5. CASE Dots(s) = {}
  <2> DEFINE r == [i |-> i, j |-> k, k |-> k]
  <2>1. i \in 1..L /\ k \in 1..L
    BY <1>1, <1>3
  <2>2. Numeral(text, i, k)
    BY <1>4, <1>5 DEF Numeral
  <2>3. Places(k, k) = 0 /\ 0 <= d
    BY DEF Places
  <2>4. r \in Readings(text, d)
    BY <2>1, <2>2, <2>3, <1>1, <1>2, <1>3 DEF Readings, L
  <2> QED BY <2>4
<1>6. ASSUME NEW p \in Nat, 1 < p, p < Len(s), Dots(s) = {p}
      PROVE  \E r : r \in Readings(text, d)
  <2> DEFINE j == i + p - 2
             r == [i |-> i, j |-> j, k |-> k]
  <2>1. /\ j \in Nat /\ i \in 1..L /\ j \in 1..L /\ k \in 1..L /\ i <= j /\ k > j + 1
        /\ j + 1 \in i..k /\ (j + 1) - i + 1 = p
    BY <1>1, <1>3, <1>6
  <2>2. ASSUME NEW n \in i..k, n # j + 1 PROVE text[n] \in DOMAIN Digit
    <3>1. n - i + 1 # p
      BY <1>1, <2>2
    <3> QED BY <3>1, <1>4, <1>6
  <2>3. text[j + 1] = "."
    <3>1. s[(j + 1) - i + 1] = text[j + 1]
      BY <2>1, <1>4
    <3>2. p \in Dots(s)
      BY <1>6
    <3>3. s[p] = "."
      BY <3>2 DEF Dots
    <3> QED BY <3>1, <3>3, <2>1
  <2>4. Places(j, k) <= d
    <3>1. Len(Frac(s)) = Len(s) - p
      BY <1>6, PartsAround
    <3>2. Places(j, k) = Len(s) - p
      BY <1>1, <2>1 DEF Places
    <3> QED BY <3>1, <3>2
  <2> HIDE DEF j
  <2>5. Numeral(text, i, j)
    <3>1. \A n \in i..j : n \in i..k /\ n # j + 1
      BY <1>1, <2>1
    <3> QED BY <3>1, <2>2 DEF Numeral
  <2>6. Numeral(text, j + 2, k)
    <3>1. \A n \in (j + 2)..k : n \in i..k /\ n # j + 1
      BY <1>1, <2>1
    <3> QED BY <3>1, <2>2 DEF Numeral
  <2>7. r \in Readings(text, d)
    BY <2>1, <2>3, <2>4, <2>5, <2>6, <1>1, <1>2 DEF Readings, L
  <2> QED BY <2>7
<1> QED BY <1>5, <1>6, PlainForms

(* So a text denotes the amount of its core, or none.                      *)
LEMMA DenotesCore ==
    ASSUME NEW S, NEW text \in Seq(S), NEW d \in Nat
    PROVE  LET s == Core(text)
           IN  Denoted(text, d) =
                  IF is_plain_positive_decimal(s) /\ Len(Frac(s)) <= d
                  THEN {ValueOf(Whole(s) \o Frac(s)) * Pow10[d - Len(Frac(s))]} ELSE {}
<1> DEFINE s == Core(text)
           amount == ValueOf(Whole(s) \o Frac(s)) * Pow10[d - Len(Frac(s))]
<1>0. s \in Seq(S) /\ \E i, k \in Nat : Spans(text, i, k, s) /\ Only(text, i, k)
  BY Stripped
<1>1. PICK i \in Nat, k \in Nat : Spans(text, i, k, s) /\ Only(text, i, k)
  BY <1>0
<1> HIDE DEF s
<1>2. ASSUME NEW r \in Readings(text, d)
      PROVE  /\ is_plain_positive_decimal(s) /\ Len(Frac(s)) <= d
             /\ ValueOf(SubSeq(text, r.i, r.j) \o SubSeq(text, r.j + 2, r.k))
                   * Pow10[d - Places(r.j, r.k)] = amount
  <2>1. /\ is_plain_positive_decimal(s) /\ Len(Frac(s)) <= d
        /\ SubSeq(text, r.i, r.j) = Whole(s) /\ SubSeq(text, r.j + 2, r.k) = Frac(s)
        /\ Places(r.j, r.k) = Len(Frac(s))
    BY <1>0, <1>1, ReadingIsCore
  <2> QED BY <2>1
<1>3. is_plain_positive_decimal(s) /\ Len(Frac(s)) <= d => \E r : r \in Readings(text, d)
  BY <1>0, <1>1, CoreIsReading
<1> HIDE DEF amount
<1>4. Denoted(text, d) = IF is_plain_positive_decimal(s) /\ Len(Frac(s)) <= d THEN {amount} ELSE {}
  BY <1>2, <1>3 DEF Denoted
<1> QED BY <1>4 DEF s, amount
---------------------------------------------------------------------------
(* The number a numeral denotes.                                           *)

(* f adds up the digits of s.                                              *)
Sums(f, s) ==
    /\ f[0] = 0
    /\ \A n \in Nat : f[n + 1] = 10 * f[n] + Digit[s[n + 1]]
    /\ ValueOf(s) = f[Len(s)]

LEMMA Summed == \A s : \E f : Sums(f, s)
<1> SUFFICES ASSUME NEW s PROVE \E f : Sums(f, s)
  OBVIOUS
<1> DEFINE sum[n \in Nat] == IF n = 0 THEN 0 ELSE 10 * sum[n - 1] + Digit[s[n]]
           Next1(v, n) == 10 * v + Digit[s[n]]
<1>1. ValueOf(s) = sum[Len(s)]
  BY DEF ValueOf
<1>2. NatInductiveDefHypothesis(sum, 0, Next1)
  BY DEF NatInductiveDefHypothesis
<1> HIDE DEF sum, Next1
<1>3. NatInductiveDefConclusion(sum, 0, Next1)
  BY <1>2, NatInductiveDef
<1>4. sum[0] = 0 /\ \A n \in Nat : sum[n + 1] = Next1(sum[n], n + 1)
  BY <1>3 DEF NatInductiveDefConclusion
<1> QED BY <1>1, <1>4 DEF Next1, Sums

LEMMA PowerTens ==
    /\ Pow10[0] = 1
    /\ \A n \in Nat : Pow10[n] \in Nat /\ Pow10[n] >= 1 /\ Pow10[n + 1] = 10 * Pow10[n]
<1> DEFINE Tenfold(v, n) == 10 * v
           S == {n \in Nat : Pow10[n] \in Nat /\ Pow10[n] >= 1}
<1>1. NatInductiveDefHypothesis(Pow10, 1, Tenfold)
  BY DEF NatInductiveDefHypothesis, Pow10
<1>2. NatInductiveDefConclusion(Pow10, 1, Tenfold)
  BY <1>1, NatInductiveDef
<1>3. Pow10[0] = 1
  BY <1>2 DEF NatInductiveDefConclusion
<1>4. ASSUME NEW n \in Nat PROVE Pow10[n + 1] = 10 * Pow10[n]
  <2>1. n + 1 \in Nat /\ n + 1 # 0 /\ (n + 1) - 1 = n
    OBVIOUS
  <2> QED BY <1>2, <2>1 DEF NatInductiveDefConclusion
<1>5. 0 \in S
  BY <1>3
<1>6. ASSUME NEW n \in S PROVE n + 1 \in S
  BY <1>4
<1>7. S = Nat
  <2> HIDE DEF S
  <2>1. S \in SUBSET Nat
    BY DEF S
  <2> QED BY <1>5, <1>6, <2>1, NatSet
<1> QED BY <1>3, <1>4, <1>7

(* The value of each digit, in a numeral.                                  *)
LEMMA DigitsOf ==
    ASSUME NEW x \in Seq(Digits)
    PROVE  /\ Len(x) \in Nat
           /\ \A n \in 1..Len(x) :
                 x[n] \in Digits /\ Digit[x[n]] \in Nat /\ (Digit[x[n]] = 0 <=> x[n] = "0")
<1>1. Len(x) \in Nat /\ \A n \in 1..Len(x) : x[n] \in Digits
  BY LenProperties, ElementOfSeq
<1>2. \A c \in Digits : Digit[c] \in Nat
  <2>1. ASSUME NEW c \in Digits PROVE Digit[c] \in Nat
    <3>1. Digit[c] \in 0..9
      BY DigitIsValue
    <3>2. \A v \in 0..9 : v \in Nat
      OBVIOUS
    <3> QED BY <3>1, <3>2
  <2> QED BY <2>1
<1> QED BY <1>1, <1>2, DigitIsValue

(* Every sum on the way is a natural number.                               *)
LEMMA SumsNat ==
    ASSUME NEW x \in Seq(Digits), NEW f, Sums(f, x)
    PROVE  \A n \in 0..Len(x) : f[n] \in Nat
<1> DEFINE S == {n \in Nat : n <= Len(x) => f[n] \in Nat}
<1>1. 0 \in S
  <2>1. f[0] = 0
    BY DEF Sums
  <2> QED BY <2>1
<1>2. ASSUME NEW n \in S PROVE n + 1 \in S
  <2>1. CASE n + 1 <= Len(x)
    <3>1. Len(x) \in Nat /\ n + 1 \in 1..Len(x) /\ n <= Len(x)
      BY <2>1, DigitsOf
    <3>2. Digit[x[n + 1]] \in Nat /\ f[n] \in Nat
      BY <3>1, DigitsOf
    <3>3. f[n + 1] = 10 * f[n] + Digit[x[n + 1]]
      BY DEF Sums
    <3> QED BY <3>2, <3>3
  <2>2. CASE ~ (n + 1 <= Len(x))
    BY <2>2
  <2> QED BY <2>1, <2>2
<1>3. S = Nat
  <2> HIDE DEF S
  <2>1. S \in SUBSET Nat
    BY DEF S
  <2> QED BY <1>1, <1>2, <2>1, NatSet
<1>4. ASSUME NEW n \in 0..Len(x) PROVE f[n] \in Nat
  <2>1. n \in S /\ n <= Len(x)
    BY <1>3, DigitsOf
  <2> QED BY <2>1
<1> QED BY <1>4

LEMMA ValueNat == \A x \in Seq(Digits) : ValueOf(x) \in Nat
<1> SUFFICES ASSUME NEW x \in Seq(Digits) PROVE ValueOf(x) \in Nat
  OBVIOUS
<1>1. PICK f : Sums(f, x)
  BY Summed
<1>2. f[Len(x)] \in Nat
  <2>1. Len(x) \in 0..Len(x)
    BY DigitsOf
  <2> QED BY <1>1, <2>1, SumsNat
<1> QED BY <1>1, <1>2 DEF Sums

LEMMA ZerosAre ==
    \A m \in Nat : /\ Zeros(m) \in Seq(Digits) /\ Len(Zeros(m)) = m
                   /\ \A n \in 1..m : Zeros(m)[n] = "0"
<1> SUFFICES ASSUME NEW m \in Nat
             PROVE  /\ Zeros(m) \in Seq(Digits) /\ Len(Zeros(m)) = m
                    /\ \A n \in 1..m : Zeros(m)[n] = "0"
  OBVIOUS
<1>1. Zeros(m) \in [1..m -> Digits]
  BY DigitIsValue DEF Zeros
<1>2. Zeros(m) \in Seq(Digits) /\ Len(Zeros(m)) = m
  BY <1>1
<1> QED BY <1>2 DEF Zeros

(* A digit less on the right is a tenth.                                   *)
LEMMA TenTimes ==
    ASSUME NEW v \in Nat, NEW q \in Nat
    PROVE  10 * (v * q) = v * (10 * q) /\ v * q \in Nat
OBVIOUS

(* Zeros on the right multiply.                                            *)
LEMMA ValueScaled ==
    ASSUME NEW x \in Seq(Digits), NEW m \in Nat
    PROVE  ValueOf(x \o Zeros(m)) = ValueOf(x) * Pow10[m]
<1> DEFINE y == x \o Zeros(m)
           L == Len(x)
<1>0. L \in Nat
  BY DigitsOf
<1>1. /\ y \in Seq(Digits) /\ Len(y) = L + m
      /\ \A n \in 1..L : y[n] = x[n]
      /\ \A n \in 1..m : y[L + n] = "0"
  <2>1. Zeros(m) \in Seq(Digits) /\ Len(Zeros(m)) = m /\ \A n \in 1..m : Zeros(m)[n] = "0"
    BY ZerosAre
  <2> DEFINE z == Zeros(m)
  <2> HIDE DEF z
  <2>2. /\ x \o z \in Seq(Digits) /\ Len(x \o z) = Len(x) + Len(z)
        /\ \A n \in 1..(Len(x) + Len(z)) : (x \o z)[n] = IF n <= Len(x) THEN x[n] ELSE z[n - Len(x)]
    BY <2>1, ConcatProperties DEF z
  <2>3. \A n \in 1..L : y[n] = x[n]
    BY <2>1, <2>2, <1>0 DEF z
  <2>4. ASSUME NEW n \in 1..m PROVE y[L + n] = "0"
    <3>1. L + n \in 1..(L + m) /\ ~ (L + n <= L) /\ (L + n) - L = n
      BY <1>0
    <3>2. (x \o z)[L + n] = z[(L + n) - L]
      BY <2>1, <2>2, <3>1 DEF z
    <3> QED BY <2>1, <3>1, <3>2 DEF z
  <2> QED BY <2>1, <2>2, <2>3, <2>4 DEF z
<1> HIDE DEF y
<1>2. PICK f : Sums(f, x)
  BY Summed
<1>3. PICK g : Sums(g, y)
  BY Summed
<1> DEFINE S == {n \in Nat : n <= L => g[n] = f[n]}
           T == {n \in Nat : n <= m => g[L + n] = f[L] * Pow10[n]}
<1>4. S = Nat
  <2>1. 0 \in S
    BY <1>2, <1>3 DEF Sums
  <2>2. ASSUME NEW n \in S PROVE n + 1 \in S
    <3>1. n + 1 <= L => n + 1 \in 1..L /\ n <= L
      BY <1>0
    <3>2. g[n + 1] = 10 * g[n] + Digit[y[n + 1]] /\ f[n + 1] = 10 * f[n] + Digit[x[n + 1]]
      BY <1>2, <1>3 DEF Sums
    <3>3. n + 1 <= L => y[n + 1] = x[n + 1] /\ g[n] = f[n]
      BY <3>1, <1>1
    <3>4. n + 1 <= L => g[n + 1] = f[n + 1]
      BY <3>2, <3>3
    <3> QED BY <3>4
  <2> HIDE DEF S
  <2>3. S \in SUBSET Nat
    BY DEF S
  <2> QED BY <2>1, <2>2, <2>3, NatSet
<1>5. f[L] \in Nat
  <2>1. L \in 0..L
    BY <1>0
  <2> QED BY <2>1, <1>2, SumsNat
<1>6. g[L] = f[L]
  BY <1>0, <1>4
<1>7. T = Nat
  <2>1. 0 \in T
    <3>1. L + 0 = L /\ f[L] * 1 = f[L]
      BY <1>0, <1>5
    <3> QED BY <3>1, <1>6, PowerTens
  <2>2. ASSUME NEW n \in T PROVE n + 1 \in T
    <3>1. CASE n + 1 <= m
      <4>1. n + 1 \in 1..m /\ n <= m /\ L + n \in Nat /\ L + (n + 1) = (L + n) + 1
        BY <3>1, <1>0
      <4>2. g[(L + n) + 1] = 10 * g[L + n] + Digit[y[(L + n) + 1]]
        BY <4>1, <1>3 DEF Sums
      <4>3. y[(L + n) + 1] = "0"
        BY <4>1, <1>1
      <4>4. Digit["0"] = 0
        BY DigitIsValue
      <4>5. g[L + n] = f[L] * Pow10[n]
        BY <4>1
      <4>6. /\ 10 * (f[L] * Pow10[n]) = f[L] * (10 * Pow10[n])
            /\ f[L] * Pow10[n] \in Nat /\ Pow10[n + 1] = 10 * Pow10[n]
        BY <1>5, PowerTens, TenTimes
      <4>7. g[(L + n) + 1] = 10 * (f[L] * Pow10[n]) + 0
        BY <4>2, <4>3, <4>4, <4>5
      <4>8. g[(L + n) + 1] = f[L] * Pow10[n + 1]
        <5>1. \A v \in Nat : 10 * v + 0 = 10 * v
          OBVIOUS
        <5> QED BY <4>6, <4>7, <5>1
      <4> QED BY <4>1, <4>8
    <3>2. CASE ~ (n + 1 <= m)
      BY <3>2
    <3> QED BY <3>1, <3>2
  <2> HIDE DEF T
  <2>3. T \in SUBSET Nat
    BY DEF T
  <2> QED BY <2>1, <2>2, <2>3, NatSet
<1>8. g[L + m] = f[L] * Pow10[m]
  <2>1. m \in T /\ m <= m
    BY <1>7
  <2> QED BY <2>1
<1>9. ValueOf(x) = f[L] /\ ValueOf(y) = g[Len(y)]
  BY <1>2, <1>3 DEF Sums
<1> QED BY <1>1, <1>8, <1>9 DEF y
(* Leading zeros count for nothing.                                        *)
LEMMA ValueTrimmed ==
    ASSUME NEW x \in Seq(Digits)
    PROVE  ValueOf(trim_start(x, "0")) = ValueOf(x)
<1> DEFINE y == trim_start(x, "0")
           L == Len(x)
<1>0. L \in Nat
  BY DigitsOf
<1>a. y \in Seq(Digits) /\ \E p \in 1..(L + 1) : LeftFrom(x, "0", p, y)
  BY TrimmedStart
<1> HIDE DEF y, L
<1>1. PICK p \in 1..(L + 1) : LeftFrom(x, "0", p, y)
  BY <1>a
<1>2. /\ p \in Nat /\ p >= 1 /\ p <= L + 1 /\ Len(y) = L - p + 1
      /\ \A n \in 1..(L - p + 1) : y[n] = x[p + n - 1]
      /\ \A n \in 1..(p - 1) : x[n] = "0"
  <2>1. p \in Nat /\ p >= 1 /\ p <= L + 1
    BY <1>0
  <2> QED BY <2>1, <1>1 DEF LeftFrom, L
<1>3. PICK f : Sums(f, x)
  BY Summed
<1>4. PICK g : Sums(g, y)
  BY Summed
<1> DEFINE S == {n \in Nat : n < p => f[n] = 0}
           T == {n \in Nat : n <= L - p + 1 => f[(p - 1) + n] = g[n]}
<1>5. S = Nat
  <2>1. 0 \in S
    <3>1. f[0] = 0
      BY <1>3 DEF Sums
    <3> QED BY <3>1
  <2>2. ASSUME NEW n \in S PROVE n + 1 \in S
    <3>1. CASE n + 1 < p
      <4>1. n + 1 \in 1..(p - 1) /\ n < p
        BY <3>1, <1>2
      <4>2. f[n + 1] = 10 * f[n] + Digit[x[n + 1]] /\ x[n + 1] = "0" /\ f[n] = 0
        BY <4>1, <1>2, <1>3 DEF Sums
      <4>3. Digit["0"] = 0
        BY DigitIsValue
      <4>4. f[n + 1] = 10 * 0 + 0
        BY <4>2, <4>3
      <4> QED BY <4>4
    <3>2. CASE ~ (n + 1 < p)
      BY <3>2
    <3> QED BY <3>1, <3>2
  <2> HIDE DEF S
  <2>3. S \in SUBSET Nat
    BY DEF S
  <2> QED BY <2>1, <2>2, <2>3, NatSet
<1>6. f[p - 1] = 0
  <2>1. p - 1 \in S /\ p - 1 < p
    BY <1>2, <1>5
  <2> QED BY <2>1
<1> HIDE DEF S
<1>7. T = Nat
  <2>1. 0 \in T
    <3>1. g[0] = 0 /\ (p - 1) + 0 = p - 1
      BY <1>2, <1>4 DEF Sums
    <3> QED BY <3>1, <1>6
  <2>2. ASSUME NEW n \in T PROVE n + 1 \in T
    <3>1. CASE n + 1 <= L - p + 1
      <4>1. /\ n + 1 \in 1..(L - p + 1) /\ n <= L - p + 1 /\ (p - 1) + n \in Nat
            /\ (p - 1) + (n + 1) = ((p - 1) + n) + 1 /\ p + (n + 1) - 1 = ((p - 1) + n) + 1
        BY <3>1, <1>0, <1>2
      <4>2. g[n + 1] = 10 * g[n] + Digit[y[n + 1]]
        BY <1>4 DEF Sums
      <4>3. f[((p - 1) + n) + 1] = 10 * f[(p - 1) + n] + Digit[x[((p - 1) + n) + 1]]
        BY <4>1, <1>3 DEF Sums
      <4>4. y[n + 1] = x[((p - 1) + n) + 1]
        BY <4>1, <1>2
      <4>5. f[(p - 1) + n] = g[n]
        BY <4>1
      <4>6. f[((p - 1) + n) + 1] = g[n + 1]
        BY <4>2, <4>3, <4>4, <4>5
      <4> QED BY <4>1, <4>6
    <3>2. CASE ~ (n + 1 <= L - p + 1)
      BY <3>2
    <3> QED BY <3>1, <3>2
  <2> HIDE DEF T
  <2>3. T \in SUBSET Nat
    BY DEF T
  <2> QED BY <2>1, <2>2, <2>3, NatSet
<1>8. f[L] = g[L - p + 1]
  <2>1. L - p + 1 \in Nat /\ L - p + 1 <= L - p + 1 /\ (p - 1) + (L - p + 1) = L
    BY <1>0, <1>2
  <2>2. L - p + 1 \in T
    <3> HIDE DEF T
    <3> QED BY <2>1, <1>7
  <2>3. f[(p - 1) + (L - p + 1)] = g[L - p + 1]
    BY <2>1, <2>2
  <2> QED BY <2>1, <2>3
<1>9. ValueOf(x) = f[Len(x)] /\ ValueOf(y) = g[Len(y)]
  BY <1>3, <1>4 DEF Sums
<1> QED BY <1>2, <1>8, <1>9 DEF y, L

(* A numeral that begins with another digit than 0 is positive.            *)
LEMMA ValuePositive ==
    ASSUME NEW x \in Seq(Digits), x # <<>>, x[1] # "0"
    PROVE  ValueOf(x) \in Nat /\ ValueOf(x) >= 1
<1>0. Len(x) \in Nat /\ Len(x) >= 1
  BY HeadIsFirst
<1>1. PICK f : Sums(f, x)
  BY Summed
<1> DEFINE S == {n \in Nat : n + 1 <= Len(x) => f[n + 1] \in Nat /\ f[n + 1] >= 1}
<1>2. \A n \in Nat : n + 1 <= Len(x) =>
         /\ f[n + 1] = 10 * f[n] + Digit[x[n + 1]]
         /\ Digit[x[n + 1]] \in Nat
  <2>1. ASSUME NEW n \in Nat, n + 1 <= Len(x) PROVE Digit[x[n + 1]] \in Nat
    <3>1. n + 1 \in 1..Len(x)
      BY <2>1, <1>0
    <3> QED BY <3>1, DigitsOf
  <2> QED BY <2>1, <1>1 DEF Sums
<1>3. 0 \in S
  <2>1. f[0 + 1] = 10 * f[0] + Digit[x[0 + 1]] /\ Digit[x[0 + 1]] \in Nat
    BY <1>0, <1>2
  <2>2. f[0] = 0 /\ 0 + 1 = 1
    BY <1>1 DEF Sums
  <2>3. Digit[x[1]] # 0
    <3>1. 1 \in 1..Len(x)
      BY <1>0
    <3> QED BY <3>1, DigitsOf
  <2> QED BY <2>1, <2>2, <2>3
<1>4. ASSUME NEW n \in S PROVE n + 1 \in S
  <2>1. CASE (n + 1) + 1 <= Len(x)
    <3>1. n + 1 <= Len(x) /\ n + 1 \in Nat
      BY <2>1, <1>0
    <3>2. f[n + 1] \in Nat /\ f[n + 1] >= 1
      BY <3>1
    <3>3. f[(n + 1) + 1] = 10 * f[n + 1] + Digit[x[(n + 1) + 1]] /\ Digit[x[(n + 1) + 1]] \in Nat
      BY <2>1, <3>1, <1>2
    <3>4. f[(n + 1) + 1] \in Nat /\ f[(n + 1) + 1] >= 1
      BY <3>2, <3>3
    <3> QED BY <3>1, <3>4
  <2>2. CASE ~ ((n + 1) + 1 <= Len(x))
    BY <2>2
  <2> QED BY <2>1, <2>2
<1>5. S = Nat
  <2> HIDE DEF S
  <2>1. S \in SUBSET Nat
    BY DEF S
  <2> QED BY <1>3, <1>4, <2>1, NatSet
<1>6. f[Len(x)] \in Nat /\ f[Len(x)] >= 1
  <2> DEFINE l == Len(x) - 1
  <2>1. l \in Nat /\ l + 1 = Len(x)
    BY <1>0
  <2>2. l \in S
    <3> HIDE DEF S
    <3> QED BY <2>1, <1>5
  <2> HIDE DEF l
  <2>3. l + 1 <= Len(x)
    BY <2>1, <1>0
  <2> QED BY <2>1, <2>2, <2>3
<1> QED BY <1>1, <1>6 DEF Sums
(* The units of a plain amount: its digits scaled, as a numeral.           *)
LEMMA UnitsWorth ==
    ASSUME NEW S, NEW s \in Seq(S), is_plain_positive_decimal(s),
           NEW d \in Nat, Len(Frac(s)) <= d
    PROVE  LET amount == ValueOf(Whole(s) \o Frac(s)) * Pow10[d - Len(Frac(s))]
           IN  /\ ValueOf(Units(s, d)) = amount
               /\ Units(s, d) = <<>> => amount = 0
               /\ Units(s, d) # <<>> => amount # 0 /\ Head(Units(s, d)) # "0"
<1> DEFINE x == Whole(s) \o Frac(s)
           m == d - Len(Frac(s))
           w == Whole(s) \o Frac(s) \o Zeros(m)
           u == trim_start(w, "0")
<1>1. Whole(s) \in Seq(Digits) /\ Frac(s) \in Seq(Digits)
  <2>1. Len(s) \in Nat /\ DOMAIN s = 1..Len(s) /\ s \in [1..Len(s) -> S]
    BY LenProperties
  <2>2. \A n \in 1..Len(s) : n \notin Dots(s) => s[n] \in Digits
    BY <2>1, PlainForms DEF Dots
  <2>3. CASE Dots(s) = {}
    <3>1. s \in [1..Len(s) -> Digits]
      BY <2>1, <2>2, <2>3
    <3>2. s \in Seq(Digits) /\ <<>> \in Seq(Digits)
      BY <3>1, <2>1, SeqDef
    <3> QED BY <3>2, <2>3, PartsWithout
  <2>4. ASSUME NEW p \in Nat, 1 < p, p < Len(s), Dots(s) = {p}
        PROVE  Whole(s) \in Seq(Digits) /\ Frac(s) \in Seq(Digits)
    <3>1. /\ Whole(s) \in Seq(S) /\ Len(Whole(s)) = p - 1
          /\ \A n \in 1..(p - 1) : Whole(s)[n] = s[n]
          /\ Frac(s) \in Seq(S) /\ Len(Frac(s)) = Len(s) - p
          /\ \A n \in 1..(Len(s) - p) : Frac(s)[n] = s[p + n]
      BY <2>4, PartsAround
    <3>2. \A n \in 1..(p - 1) : s[n] \in Digits
      BY <2>1, <2>2, <2>4
    <3>3. \A n \in 1..(Len(s) - p) : s[p + n] \in Digits
      BY <2>1, <2>2, <2>4
    <3>4. Whole(s) \in [1..(p - 1) -> Digits]
      <4>1. Whole(s) \in [1..(p - 1) -> S]
        BY <3>1, LenProperties
      <4> QED BY <4>1, <3>1, <3>2
    <3>5. Frac(s) \in [1..(Len(s) - p) -> Digits]
      <4>1. Frac(s) \in [1..(Len(s) - p) -> S]
        BY <3>1, LenProperties
      <4> QED BY <4>1, <3>1, <3>3
    <3>6. p - 1 \in Nat /\ Len(s) - p \in Nat
      BY <2>1, <2>4
    <3> QED BY <3>4, <3>5, <3>6, SeqDef
  <2> QED BY <2>3, <2>4, PlainForms
<1>2. x \in Seq(Digits) /\ m \in Nat
  <2>1. Len(Frac(s)) \in Nat
    BY <1>1, DigitsOf
  <2> QED BY <2>1, <1>1, ConcatProperties
<1>3. w \in Seq(Digits)
  BY <1>2, ZerosAre, ConcatProperties
<1>4. Units(s, d) = u
  BY DEF Units
<1>5. ValueOf(w) = ValueOf(x) * Pow10[m]
  BY <1>2, ValueScaled
<1>6. ValueOf(u) = ValueOf(w)
  BY <1>3, ValueTrimmed
<1> HIDE DEF w
<1>a. u \in Seq(Digits) /\ \E p \in 1..(Len(w) + 1) : LeftFrom(w, "0", p, u)
  BY <1>3, TrimmedStart
<1> HIDE DEF u
<1>7. u = <<>> => ValueOf(u) = 0
  <2>1. PICK f : Sums(f, u)
    BY Summed
  <2> QED BY <2>1, EmptySeq DEF Sums
<1>8. ASSUME u # <<>> PROVE Head(u) # "0" /\ ValueOf(u) # 0
  <2>1. PICK p \in 1..(Len(w) + 1) : LeftFrom(w, "0", p, u)
    BY <1>a
  <2>2. Head(u) = u[1] /\ Len(u) \in Nat /\ Len(u) >= 1
    BY <1>8, <1>a, HeadIsFirst
  <2>3. Len(w) \in Nat /\ Len(u) = Len(w) - p + 1
    BY <2>1, <1>3, DigitsOf DEF LeftFrom
  <2>4. p \in Nat /\ p <= Len(w) /\ 1 \in 1..(Len(w) - p + 1) /\ p + 1 - 1 = p
    BY <2>2, <2>3
  <2>5. u[1] = w[p + 1 - 1] /\ w[p] # "0"
    BY <2>1, <2>4 DEF LeftFrom
  <2>6. u[1] # "0"
    BY <2>4, <2>5
  <2>7. ValueOf(u) \in Nat /\ ValueOf(u) >= 1
    BY <2>6, <1>8, <1>a, ValuePositive
  <2> QED BY <2>2, <2>6, <2>7
<1> HIDE DEF x, m
<1>9. ValueOf(Units(s, d)) = ValueOf(x) * Pow10[m]
  BY <1>4, <1>5, <1>6
<1> QED BY <1>4, <1>7, <1>8, <1>9 DEF x, m

---------------------------------------------------------------------------
(* The price of the service.                                               *)

(* What a text is priced at, and what it denotes.                          *)
LEMMA ParsedExactly ==
    ASSUME NEW S, NEW text \in Seq(S), NEW d \in Nat
    PROVE  LET parsed == parse_price(text, d)
               meant  == Denoted(text, d) \ {0}
           IN  IF parsed.error = "" THEN /\ meant = {ValueOf(parsed.units)}
                                         /\ Head(parsed.units) # "0"
                                    ELSE meant = {}
<1> DEFINE s == Core(text)
           plain == is_plain_positive_decimal(s)
           fits == Len(Frac(s)) <= d
           amount == ValueOf(Whole(s) \o Frac(s)) * Pow10[d - Len(Frac(s))]
<1>1. Denoted(text, d) = IF plain /\ fits THEN {amount} ELSE {}
  BY DenotesCore
<1>2. s \in Seq(S)
  BY Stripped
<1>3. plain => Len(Frac(s)) \in Nat
  <2>1. CASE Dots(s) = {}
    BY <1>2, <2>1, PartsWithout, EmptySeq
  <2>2. ASSUME NEW p \in Nat, 1 < p, p < Len(s), Dots(s) = {p} PROVE Len(Frac(s)) \in Nat
    <3>1. Frac(s) \in Seq(S)
      BY <1>2, <2>2, PartsAround
    <3> QED BY <3>1, LenProperties
  <2> QED BY <2>1, <2>2, <1>2, PlainForms
<1>4. plain => (Len(Frac(s)) > d <=> ~ fits)
  BY <1>3
<1>5. plain /\ fits => /\ ValueOf(Units(s, d)) = amount
                       /\ Units(s, d) = <<>> => amount = 0
                       /\ Units(s, d) # <<>> => amount # 0 /\ Head(Units(s, d)) # "0"
  BY <1>2, UnitsWorth
<1>6. parse_price(text, d) =
         IF ~ plain                   THEN [error |-> "invalid", units |-> <<>>]
         ELSE IF Len(Frac(s)) > d     THEN [error |-> "too_many_decimals", units |-> <<>>]
         ELSE IF Units(s, d) = <<>>   THEN [error |-> "below_one_unit", units |-> <<>>]
         ELSE [error |-> "", units |-> Units(s, d)]
  BY DEF parse_price, Core
<1>11. plain /\ ~ fits => Len(Frac(s)) > d
  BY <1>4
<1>12. plain /\ fits => ~ (Len(Frac(s)) > d)
  BY <1>4
<1>13. \A u : LET r == [error |-> "", units |-> u] IN r.error = "" /\ r.units = u
  OBVIOUS
<1> HIDE DEF s, plain, fits, amount
<1>7. CASE ~ plain
  <2>1. parse_price(text, d).error = "invalid"
    BY <1>6, <1>7
  <2> QED BY <2>1, <1>1, <1>7
<1>8. CASE plain /\ ~ fits
  <2>1. parse_price(text, d) = [error |-> "too_many_decimals", units |-> <<>>]
    BY <1>6, <1>8, <1>11
  <2>2. parse_price(text, d).error = "too_many_decimals"
    BY <2>1
  <2> QED BY <2>2, <1>1, <1>8
<1>9. CASE plain /\ fits /\ Units(s, d) = <<>>
  <2>1. parse_price(text, d).error = "below_one_unit"
    BY <1>6, <1>9, <1>12
  <2> QED BY <2>1, <1>1, <1>5, <1>9
<1>10. CASE plain /\ fits /\ Units(s, d) # <<>>
  <2>1. parse_price(text, d) = [error |-> "", units |-> Units(s, d)]
    BY <1>6, <1>10, <1>12
  <2>2. parse_price(text, d).error = "" /\ parse_price(text, d).units = Units(s, d)
    BY <2>1, <1>13, Zenon
  <2> QED BY <2>2, <1>1, <1>5, <1>10
<1> QED BY <1>7, <1>8, <1>9, <1>10

(* The price, once set, is what the text and the network make it.          *)
PriceIInv ==
    /\ price_usd \in Texts
    /\ network_name \in {"", "mainnet", "testnet", "goerli"}
    /\ priced # Unpriced =>
          priced = IF kite_chain_by_name(network_name) = -1
                   THEN [error |-> "unknown_network", units |-> <<>>]
                   ELSE parse_price(price_usd, kite_chain_by_name(network_name))

(* For any text, alphabet and decimals: a call costs what the text says,   *)
(* to the unit, or is not served.  An unknown network stops the start; a   *)
(* price that does not parse is answered with an error request by request  *)
(* (kite.rs, parse_price and kite_chain_by_name; middleware.rs, where the  *)
(* requirements are computed).                                             *)
THEOREM PriceIsExact == PriceSpec => []PricedExactly
<1>1. PriceInit => PriceIInv
  BY DEF PriceInit, PriceIInv
<1>2. PriceIInv /\ [PriceNext]_pricing => PriceIInv'
  BY DEF PriceIInv, PriceNext, SetPrice, PriceSet, pricing
<1>3. PriceIInv => PricedExactly
  <2> SUFFICES ASSUME PriceIInv, priced # Unpriced PROVE PricedExactly
    BY DEF PricedExactly
  <2> DEFINE named == {n \in {MainnetDecimals, TestnetDecimals} :
                         IF network_name = "testnet" THEN n = TestnetDecimals
                         ELSE network_name \in {"", "mainnet"} /\ n = MainnetDecimals}
             meant == (UNION {Denoted(price_usd, n) : n \in named}) \ {0}
             d == kite_chain_by_name(network_name)
  <2>1. price_usd \in Seq(Alphabet)
    <3>1. PICK n \in 0..MaxLength : price_usd \in [1..n -> Alphabet]
      BY DEF PriceIInv, Texts
    <3>2. n \in Nat
      BY PriceAssumption
    <3> QED BY <3>1, <3>2, SeqDef
  <2>2. CASE network_name = "goerli"
    <3>1. d = -1 /\ named = {}
      BY <2>2 DEF kite_chain_by_name
    <3>2. priced = [error |-> "unknown_network", units |-> <<>>]
      BY <3>1 DEF PriceIInv
    <3>3. priced.error # ""
      BY <3>2
    <3>4. meant = {}
      BY <3>1
    <3> QED BY <3>3, <3>4 DEF PricedExactly
  <2>3. CASE network_name # "goerli"
    <3>1. d \in Nat /\ named = {d}
      BY <2>3, PriceAssumption DEF PriceIInv, kite_chain_by_name
    <3>2. \A n \in Nat : n # -1
      OBVIOUS
    <3> HIDE DEF d
    <3>3. priced = parse_price(price_usd, d)
      BY <3>1, <3>2 DEF PriceIInv, d
    <3>4. meant = Denoted(price_usd, d) \ {0}
      <4>1. UNION {Denoted(price_usd, n) : n \in {d}} = Denoted(price_usd, d)
        OBVIOUS
      <4> QED BY <3>1, <4>1
    <3>5. IF priced.error = "" THEN meant = {ValueOf(priced.units)} /\ Head(priced.units) # "0"
                               ELSE meant = {}
      BY <2>1, <3>1, <3>3, <3>4, ParsedExactly
    <3> QED BY <3>5 DEF PricedExactly
  <2> QED BY <2>2, <2>3
<1> QED BY <1>1, <1>2, <1>3, PTL DEF PriceSpec
=============================================================================
