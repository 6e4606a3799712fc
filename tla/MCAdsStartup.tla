---------------------------- MODULE MCAdsStartup ----------------------------
(* Small instances of AdsStartup: three symbols, the states of two AMS     *)
(* ports, one of them with a link that the driver does not understand, and *)
(* records with a bad address, without ? or = and with a bad option.       *)
EXTENDS AdsStartup, TLC

Sym(n)   == [ok |-> TRUE, parses |-> TRUE, cached |-> TRUE, addrOK |-> TRUE,
             kind |-> "symbol", name |-> n, amsPort |-> 851]
State(a) == [Sym("a") EXCEPT !.kind = "state", !.amsPort = a]

All == ("a?" :> Sym("a")) @@ ("b?" :> Sym("b")) @@ ("c=" :> Sym("c"))
       @@ ("s2?" :> State(852)) @@ ("s3?" :> [State(853) EXCEPT !.cached = FALSE])
       @@ ("w?" :> [Sym("a") EXCEPT !.addrOK = FALSE])
       @@ ("n" :> [Sym("a") EXCEPT !.ok = FALSE])
       @@ ("o?" :> [Sym("a") EXCEPT !.parses = FALSE])

Info == [d \in DrvInfos |-> All[d]]
=============================================================================
