------------------------------ MODULE MCServer ------------------------------
(***************************************************************************)
(* Constants for model checking Server: two keys, one with a newline, one  *)
(* with RESP behind its newline, which make parseRESP read another DEL and *)
(* another SET than was asked for; a value that looks like RESP, one that  *)
(* is a single byte and the empty one.                                     *)
(***************************************************************************)
EXTENDS Server

SET == <<"S", "E", "T">>
GET == <<"G", "E", "T">>
DEL == <<"D", "E", "L">>

MCChars == {"S", "E", "T", "G", "D", "L", "P", "I", "N", "a", "b", "v", "x"}

a == <<"a">>
b == <<"b", "LF">>
ax == <<"a", "LF", "DOLLAR", "1", "CR", "LF", "x">>
v == <<"v">>
resp == <<"DOLLAR", "1", "LF", "x">>

MCCommands ==
    {<<SET, a, v>>, <<SET, a, resp>>, <<SET, a, <<>>>>, <<SET, v, v>>, <<SET, ax, v>>, <<SET, a>>,
     <<GET, a>>, <<GET, b>>, <<GET, <<>>>>, <<DEL, a, b>>, <<DEL, b, a>>, <<DEL>>}

MCRaw == {<<"P", "I", "N", "G">> \o CRLF, <<"STAR", "MINUS", "1">> \o CRLF}
=============================================================================
