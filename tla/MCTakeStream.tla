---------------------------- MODULE MCTakeStream -----------------------------
(* Two jobs and a record that is neither, a few bytes long so that each    *)
(* can be cut within.  MessagePack is binary: its bytes may be line feeds  *)
(* or zeros.                                                               *)
EXTENDS TakeStream

CONSTANTS A, B, Bad

MCContent ==
  "Json" :> (A :> <<65, 125>> @@ B :> <<66, 125>> @@ Bad :> <<63>>)
    @@ "MessagePack" :> (A :> <<10, 65>> @@ B :> <<0>> @@ Bad :> <<13, 10>>)
=============================================================================
