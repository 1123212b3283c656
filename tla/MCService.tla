------------------------------ MODULE MCService ------------------------------
(***************************************************************************)
(* A small instance of the gRPC gateway for TLC.                           *)
(***************************************************************************)
EXTENDS GatewayService

CONSTANTS w1, w2, u1

TwoWorkers == {w1, w2}

Call(rpc, symbol) == [rpc |-> rpc, user |-> u1, symbol |-> symbol]

TraderCalls ==
    {Call("PlaceOrder", "X"), Call("CancelOrder", "Y"), Call("StreamExecutions", "X"),
     Call("StreamMarketData", "Y"), Call("RequestMarketDataSnapshot", "X")}
=============================================================================
