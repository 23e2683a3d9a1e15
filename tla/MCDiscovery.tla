---------------------------- MODULE MCDiscovery ----------------------------
(***************************************************************************)
(* Discovery with two servers, of which one moves to another port and is   *)
(* renamed, and the other signs a payload version this client does not     *)
(* know.                                                                   *)
(***************************************************************************)
EXTENDS Discovery, TLC

MCServers == {<<1, 0>>, <<1, 1>>}
MCNonces  == {<<48>>, <<49>>}
MCNames   == {<<0>>, <<0, 0>>}
MCPorts   == {1, 256}

Setting(version, port, name) ==
  [payload_version |-> version, grpc_port |-> port, name |-> name]

MCHistory == [s \in MCServers |->
  IF s = <<1, 0>>
  THEN <<Setting(1, 1, <<0, 0>>), Setting(1, 256, <<0>>)>>
  ELSE <<Setting(2, 1, <<0>>)>>]

MCEndpoints == {"host"} \X MCPorts

NoHost == <<"not a host", 1>>
MCMalformed == {NoHost}

\* No endpoint; and a malformed one, then two good ones.
MCConnectLists == {<<>>, <<NoHost, <<"host", 256>>, <<"host", 1>>>>}

MCSymmetry == Permutations(Callers)
=============================================================================
