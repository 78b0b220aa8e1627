-------------------------------- MODULE Wire --------------------------------
(***************************************************************************)
(* What the wire format does (proto/frame.go, proto/crypto.go).  A session *)
(* key is named by the client's ephemeral key pair it is derived from, at  *)
(* both ends alike.  AES-GCM opens what was sealed under the same key and  *)
(* the same nonce, and nothing else.                                       *)
(***************************************************************************)
BuildNonce(conn, counter) == [conn |-> conn, counter |-> counter]

Seal(key, nonce, plaintext) == [key |-> key, nonce |-> nonce, plaintext |-> plaintext]

Opens(key, nonce, sealed) == sealed.key = key /\ sealed.nonce = nonce

(* A handshake is sealed for connection 0, whichever connection it names:  *)
(* the server must open it before it can know.                             *)
EncodeHandshake(ephemeral, plaintext) ==
    [ephemeral |-> ephemeral, sealed |-> Seal(ephemeral, BuildNonce(0, 0), plaintext)]

HandshakeDecodes(wire) == Opens(wire.ephemeral, BuildNonce(0, 0), wire.sealed)

(* A data frame carries its counter in clear, so that frames decode in any *)
(* order; the receiver supplies the key and the connection.                *)
EncodeDataFrame(key, counter, frame) ==
    [counter |-> counter, sealed |-> Seal(key, BuildNonce(frame.conn, counter), frame)]

(* Mutant: the counter on the wire is not used.                            *)
DataFrameDecodes_FirstOnly(key, conn, wire) == Opens(key, BuildNonce(conn, 0), wire.sealed)

DataFrameDecodes(key, conn, wire) ==
    Opens(key, BuildNonce(conn, wire.counter), wire.sealed)

Plaintext(wire) == wire.sealed.plaintext
=============================================================================
