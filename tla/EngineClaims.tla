---------------------------- MODULE EngineClaims ----------------------------
(***************************************************************************)
(* What the repository's comments, tests and documents say of the engine   *)
(* and the code does not do.  Each is refuted by a run of its own.         *)
(***************************************************************************)
EXTENDS EngineRefinesExchange

\* What rests on the other side at a price that the request accepts.
LiquidityFor(request) ==
    LET book   == order_books[request.symbol]
        slots  == {slot \in Pool :
                      /\ Listed(book, slot)
                      /\ mem[slot].side # request.side
                      /\ Acceptable(request, mem[slot].price)}
    IN  MapThenSumSet(LAMBDA slot : remaining_qty(mem[slot]), slots)

\* docs/DESIGN.md:44 "For FOK orders: verify liquidity before matching (scan
\* L2 until required quantity found)": a FOK order is killed only when the
\* book cannot fill it.  The code also kills a buy whose quantity is not the
\* exact sum of the orders at the front, and a sell when the worst bid is
\* below its price.
FokKilledOnlyWithoutLiquidity ==
    [][ \A request \in Requests :
          KillFok(request) => LiquidityFor(request) < request.quantity ]_vars

\* src/matching_engine.cpp:74 and :102 "Remove fully filled orders from the
\* book": between two calls no filled order is in the book.  The removal goes
\* by id, and when an id was submitted again while it rests, it takes the
\* second order of that id away instead and frees the slot of the first.
NoFilledOrderInBook ==
    Idle => \A symbol \in Symbols : \A slot \in Pool :
        Listed(order_books[symbol], slot) => ~is_filled(mem[slot])
=============================================================================
