----------------------------- MODULE Addresses -----------------------------
(***************************************************************************)
(* Whose address a request is counted, limited and let in by               *)
(* (server/utils/network.py): the request on its way through CloudFront    *)
(* and the load balancer, or one of them, or neither, to the service.      *)
(*                                                                         *)
(* Abstracted: one request; an address is canonical, or one of those that  *)
(* do not parse; a client is not in a trusted proxy's network, and does    *)
(* not know CloudFront's secret.                                           *)
(***************************************************************************)
EXTENDS Naturals, Sequences, SequencesExt

CONSTANTS
    Clients,     \* addresses
    Edges,       \* CloudFront's addresses
    Balancers,   \* the load balancer's
    Trusted,     \* TRUSTED_PROXIES
    Unparsable,  \* what a header holds that is no address
    MaxSent,     \* bound: what a client puts in X-Forwarded-For
    NoAddress

Addresses == Clients \cup Edges \cup Balancers
Entries   == Addresses \cup Unparsable

\* What the constants are assumed to be, where the module is instantiated.
AddressesAssumption ==
    /\ Balancers \subseteq Trusted
    /\ Trusted \cap (Clients \cup Edges) = {}
    /\ Addresses \cap Unparsable = {} /\ NoAddress \notin Entries
    /\ MaxSent \in Nat

VARIABLES
    adds,     \* the distribution's policy adds CloudFront's headers; or the viewer's own go through
    appends,  \* the load balancer appends to X-Forwarded-For; or leaves it as it came
    request,  \* the request: whose, by which way, where it is, who connected there, and its headers
    found     \* the client's address, as the service finds it; or NoAddress

addressVars == <<adds, appends, request, found>>

Ways == {"cloudfront", "balancer", "service"}

AddressesTypeOK ==
    /\ adds \in BOOLEAN /\ appends \in BOOLEAN
    /\ request \in [from : Clients, way : Ways, at : Ways, peer : Addresses, forwarded : Seq(Entries),
                    viewer : Entries \cup {NoAddress}, secret : BOOLEAN]
    /\ found \in Entries \cup {NoAddress}

\* The headers are whatever the client put in them.
AddressesInit ==
    /\ adds \in BOOLEAN /\ appends \in BOOLEAN
    /\ \E c \in Clients, way \in Ways, sent \in SeqOf(Entries, MaxSent), viewer \in Entries \cup {NoAddress} :
            request = [from |-> c, way |-> way, at |-> way, peer |-> c, forwarded |-> sent, viewer |-> viewer,
                       secret |-> FALSE]
    /\ found = NoAddress

CloudFront ==
    /\ request.at = "cloudfront"
    /\ \E edge \in Edges :
            request' = [request EXCEPT !.at = "balancer", !.peer = edge, !.forwarded = Append(@, request.peer),
                                       !.viewer = IF adds THEN request.peer ELSE @, !.secret = TRUE]
    /\ UNCHANGED <<adds, appends, found>>

Balancer ==
    /\ request.at = "balancer"
    /\ \E balancer \in Balancers :
            request' = [request EXCEPT !.at = "service", !.peer = balancer,
                                       !.forwarded = IF appends THEN Append(@, request.peer) ELSE @]
    /\ UNCHANGED <<adds, appends, found>>

-----------------------------------------------------------------------------
(* What the service makes of it.                                            *)

\* The first from the right that no trusted proxy has; the leftmost when all are proxies'.
Resolve(peer, hops) ==
    LET clients == {i \in DOMAIN hops : hops[i] \notin Trusted}
    IN  IF hops = <<>> \/ peer \notin Trusted THEN peer
        ELSE IF clients = {} THEN hops[1]
        ELSE hops[CHOOSE i \in clients : \A j \in clients : j <= i]

\* The viewer as the header says: a wrong version.
AsTheHeaderSays(viewer, hops) == IF viewer \in Addresses THEN viewer ELSE NoAddress

\* Believed when it is what CloudFront appended, before the edge that the load balancer appended.
CloudFrontViewer(viewer, hops) ==
    IF viewer \in Addresses /\ Len(hops) >= 2 /\ hops[Len(hops) - 1] = viewer THEN viewer ELSE NoAddress

ClientIp(r) ==
    LET viewer == IF r.secret THEN CloudFrontViewer(r.viewer, r.forwarded) ELSE NoAddress
    IN  IF viewer # NoAddress THEN viewer ELSE Resolve(r.peer, r.forwarded)

Serve ==
    /\ request.at = "service" /\ found = NoAddress
    /\ found' = ClientIp(request)
    /\ UNCHANGED <<adds, appends, request>>

AddressesNext == CloudFront \/ Balancer \/ Serve

AddressesSpec == AddressesInit /\ [][AddressesNext]_addressVars

-----------------------------------------------------------------------------
(* Properties.                                                              *)

\* Whatever headers it came with, a request is its client's, as limits and address ranges need:
\* also while the distribution forwards the viewer's own header or the load balancer does not
\* append, but not both ("It takes both going wrong at once to believe a forged address").  The
\* edge it came by may be taken for the client then, and never anybody else.  Straight to a load
\* balancer that does not append, X-Forwarded-For is the client's own.
NobodyElsesAddress ==
    (found # NoAddress /\ (appends \/ (request.way = "cloudfront" /\ adds) \/ request.way = "service")) =>
        \/ found = request.from
        \/ request.way = "cloudfront" /\ ~adds /\ found \in Edges
=============================================================================
