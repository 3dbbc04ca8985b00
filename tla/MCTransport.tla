---------------------------- MODULE MCTransport ----------------------------
(* Transport with two connections, one after the other.                    *)
EXTENDS Transport

MCConn == Node \X Dial
=============================================================================
