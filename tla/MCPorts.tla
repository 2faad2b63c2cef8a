-------------------------------- MODULE MCPorts --------------------------------
(* Two names besides "", and seven texts for the listening port: empty, a  *)
(* negative, a zero, 80 with and without a leading space, one past the     *)
(* largest port, and a number with trailing text.  Up to three rows: enough *)
(* for a name clash, a port clash, two texts of one port, and 0 or "" rows *)
(* that must not clash.                                                    *)
EXTENDS Ports

CONSTANTS nan, emptyStr

MCDigitValue == ("0" :> 0) @@ ("3" :> 3) @@ ("5" :> 5) @@ ("6" :> 6) @@ ("8" :> 8)
MCPortNames == {"", "a", "b"}
MCServiceTexts ==
    {<<>>, <<"-", "3">>, <<"0">>, <<"8", "0">>, <<" ", "8", "0">>,
     <<"6", "5", "5", "3", "6">>, <<"8", "-">>}
=============================================================================
