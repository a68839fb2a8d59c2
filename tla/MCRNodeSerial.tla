---------------------------- MODULE MCRNodeSerial ---------------------------
(***************************************************************************)
(* A small instance of RNodeSerial: payloads made of the bytes that must   *)
(* be escaped, commands with and without a payload (cut short, ERROR does  *)
(* not parse), and a frame too large for the decoder.                      *)
(***************************************************************************)
EXTENDS RNodeSerial

MCOtherBytes == {"DATA", "READY", "ERROR", "BYTE", "FIRMWARE", "WORD", "x"}

Cfg(mtu, flow, mode) == [mtu |-> mtu, flow_control |-> flow, data_mode |-> mode]
MCConfigs ==
  {Cfg(1, TRUE, "HyfEnvelope"), Cfg(1, FALSE, "RawRnsPacket"),
   Cfg(2, FALSE, "HyfEnvelope"), Cfg(0, FALSE, "HyfEnvelope")}

MCEnvelopes == {<<"FEND">>, <<"TFEND", "x">>}
MCPackets == {<<"FESC">>}
MCPayloads == {<<"FEND">>, <<"TFEND", "x">>, <<"FESC">>}

Cmd(command, payload) == [command |-> command, payload |-> payload]
MCModemFrames ==
  {Cmd("DATA", <<"FEND">>), Cmd("ERROR", <<"x">>), Cmd("DATA", <<"x", "x">>)}
=============================================================================
