-------------------------- MODULE ForwardedClient --------------------------
(***************************************************************************)
(* Whose bucket a request counts against: client_ip and TrustedProxies of  *)
(* service/src/rate_limit.rs.  A request leaves its client with forwarding *)
(* headers of the client's choice, passes trusted proxies, and reaches the *)
(* service with the last of them as its peer.  The proxies are not part of *)
(* the repository: either each appends the address it was called from to   *)
(* X-Forwarded-For, on its last line or on a line of its own, or there is  *)
(* one and it drops X-Forwarded-For and sets X-Real-IP.                    *)
(***************************************************************************)
EXTENDS Bits, SequencesExt

CONSTANTS Width,       \* bits of an address: 32 and 128 in the code
          MappedBits,  \* leading bits of an IPv4-mapped IPv6 address, 96
          MaxProxies,  \* bound: proxies a request passes
          Garbage,     \* a hop that is no address
          Unreadable,  \* a hop that makes its whole line unreadable
          Error

ASSUME ForwardedAssumption ==
    /\ Width \in Nat \ {0} /\ MappedBits \in Nat /\ MaxProxies \in Nat
    /\ Error \notin Nat
    /\ \A hop \in {Garbage, Unreadable, Error} :
          hop \notin [family : {"v4", "v6", "mapped"}, bits : Nat]

VARIABLES written,  \* RATE_LIMIT_TRUSTED_PROXIES, as the operator wrote it
          proxies,  \* TrustedProxies, or Error: the service does not start
          sender,   \* the client that sent the request, and whether it is legible
          peer,     \* the address it comes from, as the next hop sees it
          xff,      \* lines of X-Forwarded-For, each a sequence of hops
          real_ip,  \* values of X-Real-IP
          passed,   \* proxies passed so far, or Error once the service judged
          judged    \* the address the service took for the client's, or Error

journey == <<written, proxies, sender, peer, xff, real_ip, passed, judged>>

Addresses == [family : {"v4", "v6", "mapped"}, bits : 0..(Pow2[Width] - 1)]

Entries == [address : Addresses, prefix : 0..(MappedBits + Width)]

(* An IPv4 address written as an IPv6 one is the IPv4 address.             *)
normalize_ip(ip) == IF ip.family = "mapped" THEN [ip EXCEPT !.family = "v4"] ELSE ip

(* A mapped entry's prefix counts the leading bits too.                    *)
WellFormed(n) ==
    IF n.address.family = "mapped" THEN n.prefix \in MappedBits..(MappedBits + Width)
                                   ELSE n.prefix <= Width

parse(entries) ==
    IF \E n \in entries : ~WellFormed(n) THEN Error
    ELSE {[address |-> normalize_ip(n.address),
           prefix  |-> IF n.address.family = "mapped" THEN n.prefix - MappedBits
                                                      ELSE n.prefix] : n \in entries}

Shifted(ip, prefix) == ip.bits \div Pow2[Width - prefix]

contains(ip) ==
    \E n \in proxies :
        /\ n.address.family = normalize_ip(ip).family
        /\ n.prefix = 0 \/ Shifted(n.address, n.prefix) = Shifted(normalize_ip(ip), n.prefix)

(* A line that is not readable is an error as soon as it is reached.       *)
Line(line) == IF Unreadable \in ToSet(line) THEN <<Unreadable>> ELSE line

Parsed(hop) == IF hop \in {Garbage, Unreadable} THEN Error ELSE normalize_ip(hop)

(* Faulty: believes every hop once the peer is trusted.                    *)
NearerBelievingAll(at, hop) == IF at = Error THEN at ELSE Parsed(hop)

(* One hop further from the service, unless the client is reached.         *)
Nearer(at, hop) == IF at = Error \/ ~contains(at) THEN at ELSE Parsed(hop)

(* A line from its end.                                                    *)
AlongLine(at, line) ==
    LET reached[n \in Nat] ==
            IF n = 0 THEN at ELSE Nearer(reached[n - 1], line[Len(line) + 1 - n])
    IN  reached[Len(line)]

(* The lines from the last.                                                *)
AlongLines(at, lines) ==
    LET reached[n \in Nat] ==
            IF n = 0 THEN at
            ELSE AlongLine(reached[n - 1], Line(lines[Len(lines) + 1 - n]))
    IN  reached[Len(lines)]

client_ip ==
    CASE ~contains(peer) -> normalize_ip(peer)
      [] contains(peer) /\ xff # <<>> -> AlongLines(normalize_ip(peer), xff)
      [] contains(peer) /\ xff = <<>> /\ real_ip # <<>> ->
            IF Len(real_ip) # 1 THEN Error ELSE Parsed(Head(real_ip))
      [] OTHER -> normalize_ip(peer)

(* A client may claim an address that is trusted, or none.                 *)
Forgeable == {n.address : n \in written} \cup {Garbage, Unreadable}

ForwardedInit ==
    /\ written \in {{}} \cup {{n} : n \in Entries}
    /\ proxies = parse(written)
    /\ peer \in Addresses
    /\ xff \in {<<>>} \cup {<<<<hop>>>> : hop \in Forgeable}
    /\ real_ip \in {<<>>} \cup {<<n.address>> : n \in written}
    /\ sender = [address |-> peer, legible |-> xff # <<<<Unreadable>>>>]
    /\ passed = 0
    /\ judged = peer
    /\ proxies = Error => xff = <<>> /\ real_ip = <<>>

(* External: a trusted proxy that appends.                                 *)
Append_XFF(p, new_line) ==
    /\ passed \in 0..(MaxProxies - 1)
    /\ contains(p)
    /\ xff' = IF new_line \/ xff = <<>>
              THEN Append(xff, <<peer>>)
              ELSE [xff EXCEPT ![Len(xff)] = Append(@, peer)]
    /\ peer' = p
    /\ passed' = passed + 1
    /\ UNCHANGED <<written, proxies, sender, real_ip, judged>>

(* External: the one trusted proxy, which names the client by X-Real-IP.   *)
Set_RealIp(p) ==
    /\ passed = 0 /\ MaxProxies > 0
    /\ contains(p)
    /\ xff' = <<>>
    /\ real_ip' = <<peer>>
    /\ peer' = p
    /\ passed' = MaxProxies
    /\ UNCHANGED <<written, proxies, sender, judged>>

Judge ==
    /\ passed # Error
    /\ judged' = client_ip
    /\ passed' = Error
    /\ UNCHANGED <<written, proxies, sender, peer, xff, real_ip>>

NotStarted == proxies = Error /\ UNCHANGED journey

Judged == passed = Error /\ UNCHANGED journey

ForwardedNext ==
    \/ NotStarted
    \/ /\ proxies # Error
       /\ \/ Judge \/ Judged
          \/ \E p \in Addresses : Set_RealIp(p) \/ \E new_line \in BOOLEAN : Append_XFF(p, new_line)

ForwardedSpec == ForwardedInit /\ [][ForwardedNext]_journey

---------------------------------------------------------------------------
(* The addresses an entry of the operator's stands for, bit by bit.        *)
Covers(n, ip) ==
    /\ (n.address.family = "v6") <=> (ip.family = "v6")
    /\ \A i \in 1..Width :
          i + (IF n.address.family = "mapped" THEN MappedBits ELSE 0) <= n.prefix
              => Bit(n.address.bits, Width, i) = Bit(ip.bits, Width, i)

(* A request of a client outside the trusted networks counts against that  *)
(* client's own address, whatever it claims and whatever the proxies pass  *)
(* on of it: neither against an address it names nor against a proxy's.    *)
(* Only one that made its header unreadable may be refused instead.        *)
NotFooled ==
    passed = Error /\ ~(\E n \in written : Covers(n, sender.address)) =>
        \/ judged = normalize_ip(sender.address)
        \/ judged = Error /\ ~sender.legible
============================================================================
