----------------------------- MODULE MCMacroFeed -----------------------------
(* Small instances of MacroFeed for TLC. *)
EXTENDS MacroFeed

\* A publication that moves the dollar and one that moves the euro.
SmallEvents   == {"nfp", "ecb"}
SmallAt       == [e \in SmallEvents |-> IF e = "nfp" THEN 1 ELSE 3]
SmallCurrency == [e \in SmallEvents |-> IF e = "ecb" THEN "EUR" ELSE "USD"]

\* The letters of a pair, of a metal and of an index.
SmallSymbols == {"EURUSD", "XAUUSD", "US30"}
SmallCodes ==
    [s \in SmallSymbols |-> CASE s = "EURUSD" -> <<"EUR", "USD">>
                              [] s = "XAUUSD" -> <<"XAU", "USD">>
                              [] s = "US30"   -> <<>>]

\* The same with a commodity of the catalogue.
WideSymbols == {"EURUSD", "NATGAS.fs"}
WideCodes == [s \in WideSymbols |-> IF s = "EURUSD" THEN <<"EUR", "USD">> ELSE <<"NAT", "GAS">>]

=============================================================================
