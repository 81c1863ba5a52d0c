--------------------------- MODULE UpstreamProxy ---------------------------
(***************************************************************************)
(* Open (egress/upstream_proxy.go): one CONNECT through an upstream proxy. *)
(* Three things can end it while it is blocked on the proxy: a cancelled   *)
(* context, whose AfterFunc closes the connection; the connection's own    *)
(* deadline; and the proxy.  The clock passes the deadline first; the      *)
(* context's timer and the connection's deadline follow in either order.   *)
(*                                                                         *)
(* The proxy's response is read line by line; a reply is one of the        *)
(* classes the reader tells apart.                                         *)
(***************************************************************************)
EXTENDS Naturals

CONSTANTS
    ProxySchemes  \* the schemes of the profile's endpoint, "http" and "https"

ASSUME SchemesAssumption == ProxySchemes \subseteq {"http", "https"} /\ ProxySchemes # {}

VARIABLES
    opening,   \* where Open is
    context,   \* the request's context: "live", "cancelled" or "expired"
    late,      \* has the clock passed the deadline?
    conn,      \* the connection
    afterFunc, \* Open's AfterFunc
    deadline,  \* is the connection's own deadline set?
    opened,    \* how Open ended
    fault      \* did the proxy or the origin do anything wrong?

proxyVars == <<opening, context, late, conn, afterFunc, deadline, opened, fault>>

Contexts == {"live", "cancelled", "expired"}

ProxyFacts == {"connect_failed", "tls_failed", "protocol_error", "authentication_failed",
               "connect_rejected"}

ProxyTypeOK ==
    /\ opening \in {"idle", "profile", "dial", "tls", "connect", "reply", "finish", "over"}
    /\ context \in Contexts /\ late \in BOOLEAN /\ (context = "expired" => late)
    /\ conn \in {"none", "open", "closed"}
    /\ afterFunc \in {"none", "armed", "stopped", "ran"}
    /\ deadline \in BOOLEAN /\ fault \in BOOLEAN
    /\ opened \in ProxyFacts \cup {"none", "open", "instruction_invalid", "cancelled", "timeout"}

ProxyInit ==
    /\ opening = "idle"
    /\ context = "live" /\ late = FALSE /\ conn = "none"
    /\ afterFunc = "none" /\ deadline = FALSE /\ opened = "none" /\ fault = FALSE

-----------------------------------------------------------------------------

\* mapHTTPError, of the context's own error.
contextFailure == IF context = "expired" THEN "timeout" ELSE "cancelled"

\* Mutant: the connection's deadline is taken for the proxy's failure.
phaseFailureOfContext(fact) == IF context # "live" THEN contextFailure ELSE fact

\* The connection's deadline may have fired before the context's timer did.
phaseFailure(fact) ==
    CASE context # "live" -> contextFailure
      [] context = "live" /\ late -> "timeout"
      [] OTHER -> fact

\* Whatever fails, the deferred functions stop the AfterFunc and close the connection.
Fails(result) ==
    /\ opening' = "over" /\ opened' = result
    /\ afterFunc' = (IF afterFunc = "armed" THEN "stopped" ELSE afterFunc)
    /\ conn' = (IF conn = "none" THEN "none" ELSE "closed")
    /\ UNCHANGED <<context, late, deadline>>

\* The instruction must name a profile of the worker, with a target and renderable credentials.
openProfile ==
    /\ opening = "profile" /\ UNCHANGED fault
    /\ \/ Fails("instruction_invalid")
       \/ /\ opening' = "dial"
          /\ UNCHANGED <<context, late, conn, afterFunc, deadline, opened>>

dialUpstreamProxy ==
    /\ opening = "dial"
    /\ \/ /\ context = "live" /\ ~late /\ fault' = TRUE
          /\ Fails(phaseFailure("connect_failed"))
       \/ (context # "live" \/ late) /\ UNCHANGED fault /\ Fails(phaseFailure("connect_failed"))
       \/ /\ context = "live"
          /\ \E scheme \in ProxySchemes :
                opening' = (IF scheme = "https" THEN "tls" ELSE "connect")
          /\ conn' = "open" /\ afterFunc' = "armed" /\ deadline' = TRUE
          /\ UNCHANGED <<context, late, opened, fault>>

Interrupted == conn = "closed" \/ (deadline /\ late)

\* Each exchange with the proxy is cut short, refused by the proxy, or goes on: the last two
\* when the proxy answers, which it need not.
Exchange(at, fact, next) ==
    /\ opening = at
    /\ \/ Interrupted /\ UNCHANGED fault /\ Fails(phaseFailure(fact))
       \/ conn = "open" /\ fault' = TRUE /\ Fails(phaseFailure(fact))
       \/ /\ ~Interrupted
          /\ opening' = next
          /\ UNCHANGED <<context, late, conn, afterFunc, deadline, opened, fault>>

upgradeUpstreamProxyTLS == Exchange("tls", "tls_failed", "connect")

writeUpstreamProxyConnect == Exchange("connect", "connect_failed", "reply")

\* Only a 2xx opens the tunnel.
readUpstreamProxyResponse == Exchange("reply", "protocol_error", "finish")

rejectUpstreamProxyStatus ==
    /\ opening = "reply" /\ ~Interrupted /\ fault' = TRUE
    /\ \E fact \in {"authentication_failed", "connect_rejected"} : Fails(fact)

\* Mutant: the AfterFunc is left to run when Open has returned.
finishArmed ==
    /\ opening = "finish" /\ UNCHANGED fault
    /\ IF context # "live"
       THEN Fails(contextFailure)
       ELSE /\ opening' = "over" /\ opened' = "open" /\ deadline' = FALSE
            /\ UNCHANGED <<context, late, conn, afterFunc>>

\* stopCancellation says whether it came in time; only then is the connection handed over.
finish ==
    /\ opening = "finish" /\ UNCHANGED fault
    /\ IF afterFunc # "armed" \/ context # "live"
       THEN Fails(contextFailure)
       ELSE /\ opening' = "over" /\ opened' = "open"
            /\ afterFunc' = "stopped" /\ deadline' = FALSE
            /\ UNCHANGED <<context, late, conn>>

Open ==
    \/ openProfile \/ dialUpstreamProxy \/ upgradeUpstreamProxyTLS \/ writeUpstreamProxyConnect
    \/ readUpstreamProxyResponse \/ rejectUpstreamProxyStatus \/ finish

\* Open is in a call that only the proxy lets return.
ProxyIsAwaited ==
    \/ opening = "dial" /\ context = "live" /\ ~late
    \/ opening \in {"tls", "connect", "reply"} /\ ~Interrupted

closeAfterCancel ==
    /\ afterFunc = "armed" /\ context # "live"
    /\ afterFunc' = "ran" /\ conn' = "closed"
    /\ UNCHANGED <<opening, context, late, deadline, opened, fault>>

\* The clock, which only Open looks at, and the request's context, which ends with a
\* cancellation or with its deadline's timer.
DeadlinePasses ==
    /\ ~late /\ opening \notin {"idle", "over"}
    /\ late' = TRUE
    /\ UNCHANGED <<opening, context, conn, afterFunc, deadline, opened, fault>>

ContextEnds ==
    /\ context = "live"
    /\ \/ context' = "cancelled" /\ UNCHANGED late
       \/ context' = "expired" /\ late' = TRUE
    /\ UNCHANGED <<opening, conn, afterFunc, deadline, opened, fault>>

-----------------------------------------------------------------------------

\* Open: a connection that was handed over is not closed behind its new owner's back by the
\* cancellation that guarded the handshake, and one that was not handed over is closed.
HandedOverOrClosed ==
    opening = "over" =>
        IF opened = "open" THEN afterFunc = "stopped" /\ ~deadline ELSE conn # "open"

=============================================================================
