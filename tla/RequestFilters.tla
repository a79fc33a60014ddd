--------------------------- MODULE RequestFilters ---------------------------
(***************************************************************************)
(* Two algorithms in front of the proxy's handlers: which address the      *)
(* firewall takes a request to come from, and what a compressed body       *)
(* decodes to.  A request is drawn and handled by what the code does; the  *)
(* invariants compare the result with a definition of what is meant.       *)
(***************************************************************************)
EXTENDS Naturals, Sequences

CONSTANTS
    Addresses,  \* addresses of clients and proxies
    NoAddress,  \* no usable forwarded address
    Trusted,    \* those inside trusted_proxy_networks
    MaxHops,    \* bound: entries of x-forwarded-for
    MaxLayers   \* bound: encodings of a body

ASSUME FilterAssumption == {MaxHops, MaxLayers} \subseteq Nat

VARIABLES
    allowlist,  \* api_firewall_allowlist
    probe       \* the request drawn, with the code's answers

filterVars == <<allowlist, probe>>

Encodings == {"gzip", "zstd", "unsupported"}

UpTo(S, n) == UNION {[1..k -> S] : k \in 0..n}

-----------------------------------------------------------------------------
(* The address of the client.  A hop is an address or "malformed".         *)

(* is_trusted_proxy_source: a malformed host is never trusted. *)
IsTrustedProxySource(host) == host \in Trusted

ResolveFromChain_FirstHop(socket, hops) ==
    IF hops = <<>> \/ \E i \in 1..Len(hops) : hops[i] \notin Addresses THEN NoAddress ELSE hops[1]

(* resolve_client_ip_from_xff_chain: from the socket backwards, each       *)
(* trusted proxy vouches for the hop before it.                            *)
ResolveFromChain(socket, hops) ==
    LET chain == Append(hops, socket)
        from[i \in 1..Len(chain)] ==
            IF i > 1 /\ IsTrustedProxySource(chain[i]) THEN from[i - 1] ELSE chain[i]
    IN  IF hops = <<>> \/ \E i \in 1..Len(hops) : hops[i] \notin Addresses
        THEN NoAddress
        ELSE from[Len(chain)]

(* resolve_connection_client_ip: no header is the same as an empty one. *)
ResolveConnectionClientIp(socket, trustHeaders, forwarded) ==
    LET resolved == ResolveFromChain(socket, forwarded)
    IN  IF trustHeaders /\ IsTrustedProxySource(socket) /\ resolved # NoAddress
        THEN resolved ELSE socket

-----------------------------------------------------------------------------
(* The allowlist.  An address that does not parse is refused; the          *)
(* controller turns each result of the repository into its status.         *)

AddFirewallAllowlistIp(ip) ==
    CASE ip \notin Addresses -> "InvalidIp"
      [] ip \in allowlist -> "Duplicate"
      [] OTHER -> "Created"

AddFirewallIp(ip) ==
    /\ AddFirewallAllowlistIp(ip) = "Created"
    /\ allowlist' = allowlist \cup {ip}
    /\ UNCHANGED probe

DeleteFirewallAllowlistIp(ip) == IF ip \in allowlist THEN "Deleted" ELSE "NotFound"

(* Deleting the last entry opens the proxy to every address again. *)
DeleteFirewallIp(ip) ==
    /\ DeleteFirewallAllowlistIp(ip) = "Deleted"
    /\ allowlist' = allowlist \ {ip}
    /\ UNCHANGED probe

IsFirewallIpAllowed(ip) == allowlist = {} \/ ip \in allowlist

(* evaluate_firewall_request: only the proxy's own paths are protected. *)
EvaluateFirewallRequest(protected, client) == ~protected \/ IsFirewallIpAllowed(client)

-----------------------------------------------------------------------------
(* The body.  layers are the encodings it carries, the outermost last;     *)
(* with fewer than big layers left the bytes exceed the size limit.        *)

Bytes(layers, big) == [status |-> "ok", layers |-> layers, big |-> big]
Refused(why) == [status |-> why, layers |-> <<>>, big |-> 0]

(* inflate_with_window_bits, and the zstd loop, over one layer: an error    *)
(* unless the input is of that format, a length error past the limit.      *)
InflateWithWindowBits(b, encoding) ==
    LET n == Len(b.layers)
    IN  IF n = 0 \/ b.layers[n] # encoding THEN Refused("undecodable")
        ELSE IF n - 1 < b.big THEN Refused("too_large")
        ELSE Bytes(SubSeq(b.layers, 1, n - 1), b.big)

DecompressOne(b, encoding) ==
    CASE encoding = "identity" -> b
      [] encoding \in {"gzip", "zstd"} -> InflateWithWindowBits(b, encoding)
      [] OTHER -> Refused("unsupported")

(* maybe_decompress_undeclared_json_body: the magic number of the outermost *)
(* layer decides, one layer only, and a failure leaves the body alone.      *)
SniffJsonBody(b, json) ==
    LET n == Len(b.layers)
    IN  IF json /\ n > 0 /\ b.layers[n] \in {"gzip", "zstd"}
        THEN LET d == DecompressOne(b, b.layers[n]) IN IF d.status # "ok" THEN b ELSE d
        ELSE b

(* decompress_request_body: the declared encodings are undone from the last *)
(* to the first; the first failure ends the loop.                           *)
DecompressRequestBody(b, declared, json) ==
    LET undone[i \in 1..(Len(declared) + 1)] ==
            IF i > Len(declared) THEN b
            ELSE IF undone[i + 1].status # "ok" THEN undone[i + 1]
            ELSE DecompressOne(undone[i + 1], declared[i])
        result == undone[1]
    IN  IF result.status = "ok" /\ \A i \in 1..Len(declared) : declared[i] = "identity"
        THEN SniffJsonBody(result, json)
        ELSE result

-----------------------------------------------------------------------------

Request(socket, trust, forwarded, declared, json, layers, big) ==
    LET client == ResolveConnectionClientIp(socket, trust, forwarded)
    IN  [socket |-> socket, trust |-> trust, forwarded |-> forwarded,
         declared |-> declared, json |-> json, layers |-> layers, big |-> big,
         client |-> client,
         admitted |-> EvaluateFirewallRequest(TRUE, client),
         body |-> DecompressRequestBody(Bytes(layers, big), declared, json)]

Someone == CHOOSE a \in Addresses : TRUE
Unprobed == [drawn |-> FALSE]
Drawn(q) == [drawn |-> TRUE, q |-> q]

FilterInit == allowlist = {} /\ probe = Unprobed

ProbeForwarded ==
    /\ probe = Unprobed
    /\ \E socket \in Addresses, trust \in BOOLEAN,
         forwarded \in UpTo(Addresses \cup {"malformed"}, MaxHops) :
          probe' = Drawn(Request(socket, trust, forwarded, <<>>, FALSE, <<>>, 0))
    /\ UNCHANGED allowlist

ProbeBody ==
    /\ probe = Unprobed
    /\ \E declared \in UpTo(Encodings \cup {"identity"}, MaxLayers), json \in BOOLEAN,
         layers \in UpTo(Encodings, MaxLayers), big \in 0..MaxLayers :
          probe' = Drawn(Request(Someone, FALSE, <<>>, declared, json, layers, big))
    /\ UNCHANGED allowlist

FilterNext ==
    \/ probe = Unprobed /\ \E ip \in Addresses : AddFirewallIp(ip) \/ DeleteFirewallIp(ip)
    \/ ProbeForwarded \/ ProbeBody

FilterSpec == FilterInit /\ [][FilterNext]_filterVars

-----------------------------------------------------------------------------

Well(hops) == hops # <<>> /\ \A i \in 1..Len(hops) : hops[i] \in Addresses

(* Every hop after the client's, up to the socket, is a trusted proxy, and   *)
(* a client that is a trusted proxy itself is the chain's first entry.      *)
VouchedFor(chain, client) ==
    \E k \in 1..Len(chain) :
        /\ chain[k] = client
        /\ \A j \in (k + 1)..Len(chain) : chain[j] \in Trusted
        /\ chain[k] \in Trusted => k = 1

(* The firewall never judges a request by an address only an untrusted      *)
(* sender vouches for.  While there is an allowlist, only a request from    *)
(* such an address that is on it gets through.                              *)
ClientIpIsVouchedFor ==
    probe.drawn =>
        LET q == probe.q
        IN  /\ q.client # q.socket =>
                  /\ q.trust /\ Well(q.forwarded)
                  /\ VouchedFor(Append(q.forwarded, q.socket), q.client)
            /\ q.admitted /\ allowlist # {} => q.client \in allowlist

(* The declared encodings are those of the layers, in the order they were   *)
(* applied, with "identity" anywhere between them: at says where each is.    *)
Names(declared, layers, at) ==
    /\ \A k \in 1..Len(layers) : declared[at[k]] = layers[k] /\ layers[k] # "identity"
    /\ \A k, l \in 1..Len(layers) : k < l => at[k] < at[l]
    /\ \A i \in 1..Len(declared) :
          declared[i] # "identity" => \E k \in 1..Len(layers) : at[k] = i

(* A body whose Content-Encoding names its layers in the order they were    *)
(* applied reaches the handler plain, or is refused as too large exactly    *)
(* when some stage of it is: no order of encodings is decoded wrongly.      *)
DeclaredBodyIsPlain ==
    probe.drawn =>
        LET q == probe.q
        IN  (/\ q.layers # <<>> /\ \A k \in 1..Len(q.layers) : q.layers[k] # "unsupported"
             /\ \E at \in [1..Len(q.layers) -> 1..Len(q.declared)] :
                   Names(q.declared, q.layers, at)) =>
                q.body = IF q.big > 0 THEN Refused("too_large") ELSE Bytes(<<>>, 0)

(* A handler sees only requests from an address that is vouched for and     *)
(* allowed, with the body its sender wrote.                                 *)
FiltersAreSound == ClientIpIsVouchedFor /\ DeclaredBodyIsPlain
=============================================================================
