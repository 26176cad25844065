---------------------------- MODULE MCKeyValueText -----------------------------
(***************************************************************************)
(* Every text of up to seven symbols over two letters and the three        *)
(* symbols that structure a text: two whole pairs, one key given twice, a  *)
(* key that starts or ends like the one sought, commas inside of keys and  *)
(* values, strings without an equal sign or with two.                      *)
(***************************************************************************)
EXTENDS KeyValueText

MCAlphabet == {"a", "b", EQUAL, COMMA, NUL}
MCKnownKeys == {<<"a">>, <<"b", "a">>}
MCSought == <<"a">>

===============================================================================
