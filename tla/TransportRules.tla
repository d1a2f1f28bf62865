---------------------------- MODULE TransportRules ----------------------------
(***************************************************************************)
(* The three transport rules over the sweep's part of a graph. A failed    *)
(* node's class, TARGET, stands for any class its probe gives a failure:   *)
(* a rule makes its claim of such a node when it has a claim for each.     *)
(***************************************************************************)
EXTENDS Journey, Diagnosis

\* What the probes give a node they fail.
lookupFailures    == {"DNS_NO_ADDRESS", "DNS_TIMEOUT", "DNS_RESOLVER_FAILURE"}
connectFailures   == {"TCP_CONNECTION_REFUSED", "TCP_CONNECTION_RESET",
                      "TCP_CONNECTION_TIMEOUT", "TCP_NETWORK_UNREACHABLE",
                      "TCP_HOST_UNREACHABLE", "TCP_CONNECTION_FAILED"}
handshakeFailures == {"TLS_PEER_NOT_TLS", "TLS_HOSTNAME_MISMATCH", "TLS_UNKNOWN_AUTHORITY",
                      "TLS_CERTIFICATE_EXPIRED", "TLS_CERTIFICATE_NOT_YET_VALID",
                      "TLS_HANDSHAKE_FAILURE"}

\* evaluateDNS: an answer without an address, or no answer at all.
dnsClaims == [DNS_NO_ADDRESS       |-> "DNS_NAME_NOT_RESOLVED",
              DNS_TIMEOUT          |-> "DNS_RESOLUTION_FAILED",
              DNS_RESOLVER_FAILURE |-> "DNS_RESOLUTION_FAILED"]

authorizedTCPFailures == {"TCP_CONNECTION_REFUSED", "TCP_CONNECTION_RESET",
                          "TCP_CONNECTION_TIMEOUT", "TCP_NETWORK_UNREACHABLE",
                          "TCP_HOST_UNREACHABLE", "TCP_CONNECTION_FAILED"}

tlsClaims == [TLS_PEER_NOT_TLS              |-> "TLS_ENDPOINT_DOES_NOT_SPEAK_TLS",
              TLS_HOSTNAME_MISMATCH         |-> "TLS_IDENTITY_MISMATCH",
              TLS_UNKNOWN_AUTHORITY         |-> "TLS_CHAIN_NOT_TRUSTED",
              TLS_CERTIFICATE_EXPIRED       |-> "TLS_CERTIFICATE_NOT_VALID_NOW",
              TLS_CERTIFICATE_NOT_YET_VALID |-> "TLS_CERTIFICATE_NOT_VALID_NOW",
              TLS_HANDSHAKE_FAILURE         |-> "TLS_HANDSHAKE_NOT_COMPLETED"]

\* The sweep's nodes. The lookup is about the host, the rest about an address.
lookupEv        == Ev(1, 1, "dns.lookup", Host, dns)
connectEv(a)    == Ev(2, 1, "tcp.connect", Address(a), tcp[a])
handshakeEv(a)  == Ev(3, 1, "tls.handshake", Address(a), tls[a])
SweepEvidence ==
    RecordedIn({lookupEv} \cup {connectEv(a) : a \in Addr} \cup {handshakeEv(a) : a \in Addr})

\* collectSweep: one lookup and its connects, or the connect of a literal.
hasLookup == dns # NoNode
connects  == {connectEv(a) : a \in {b \in Addr : tcp[b] # NoNode}}

evaluateDNS ==
    IF dns.state = "FAIL" /\ lookupFailures \subseteq DOMAIN dnsClaims
    THEN {Finding("DNS", "ERROR", 1, Target, {lookupEv})} ELSE {}

\* evaluateTCP: every address was tried and every one failed.
evaluateTCP ==
    IF /\ connects # {}
       /\ hasLookup => dns.state = "PASS"
       /\ \A c \in connects : c.state = "FAIL"
       /\ connectFailures \subseteq authorizedTCPFailures
    THEN {Finding("TCP", "ERROR", 2, Target,
                  connects \cup (IF hasLookup THEN {lookupEv} ELSE {}))} ELSE {}

\* evaluateTLS: per handshake that failed.
evaluateTLS ==
    {Finding("TLS", "ERROR", 3, Address(a), {handshakeEv(a), connectEv(a)})
        : a \in {b \in Addr : /\ tls[b].state = "FAIL"
                              /\ handshakeFailures \subseteq DOMAIN tlsClaims}}

TransportFindings == evaluateDNS \cup evaluateTCP \cup evaluateTLS
=============================================================================
