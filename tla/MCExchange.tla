----------------------------- MODULE MCExchange -----------------------------
(* TLC instances of Exchange.  Every route class shares the run: a class is  *)
(* fixed in the initial state, so their state spaces do not multiply.        *)
EXTENDS Exchange

MCClasses == RouteClasses

\* The classes whose request body a transfer reads.
MCTransferred == {"proxy", "grpc", "multipart"}

\* One frame tells a body not begun, cut short of its declared length and
\* complete apart.
MCFew == 1

\* The request's idle budget and a transfer's, which frames restart; the request's
\* total and a transfer's.
MCBudgets == {{"idle", "upIdle"}, {"total", "downTotal"}}
MCIdleOnly == {{"idle"}}

MCIdle == 1

\* Two ticks, so that a frame can arrive between them.
MCTicks == 2

=============================================================================
