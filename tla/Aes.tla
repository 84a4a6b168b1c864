-------------------------------- MODULE Aes --------------------------------
(***************************************************************************)
(* EncryptDecrypt.cc and the MSG packets made with it.  A ciphertext is    *)
(* the key it was made with; AES in CBC mode authenticates nothing, so the *)
(* only check on decryption is the padding of the last block, which a      *)
(* wrong key passes by chance.                                             *)
(***************************************************************************)
CONSTANT NoKey   \* the empty secret of an object whose key does not exist yet

Msg(key) == [type |-> "MSG", key |-> key]

EmptyPacket == [type |-> "EMPTY"]

(* What SendEncryptedMessage hands to the socket.  With an empty secret    *)
(* EncryptMessage throws InvalidKeyLength while "oss << "MSG,," << ..." is *)
(* being evaluated; the handler prints and still sends oss, which holds    *)
(* "MSG,," or nothing: the language leaves the order of the two open.      *)
EncryptedMessages(key) ==
  IF key = NoKey THEN {Msg(NoKey), EmptyPacket} ELSE {Msg(key)}

(* How DecryptMessage can end: the plaintext, some other text whose        *)
(* padding happens to be valid, InvalidCiphertext or InvalidKeyLength.     *)
DecryptOutcomes(key, msg) ==
  IF key = NoKey         THEN {"InvalidKeyLength"}
  ELSE IF msg.key = key  THEN {"plaintext"}
  ELSE IF msg.key = NoKey THEN {"InvalidCiphertext"}
  ELSE {"InvalidCiphertext", "garbage"}

Accepted == {"plaintext", "garbage"}   \* no exception was thrown
=============================================================================
