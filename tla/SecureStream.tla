---------------------------- MODULE SecureStream ----------------------------
(***************************************************************************)
(* An encrypted entry between Put and Get (pkg/file/internal.go): Put      *)
(* truncates the file and copies an encryptor (module Encryptor) into it,  *)
(* Get copies the file into memory and then a decryptor (module Decryptor) *)
(* out of it.  The two may overlap: the worker of a Get whose caller has   *)
(* given up goes on without the locks (module Storage), so its bytes can   *)
(* be the start of the old value and the rest of the new one.  A copy that *)
(* stops half way, on a full disk or in a crash, leaves the start of one.  *)
(*                                                                         *)
(* Old and New are the two values; each is sealed under a random value of  *)
(* its own.                                                                *)
(***************************************************************************)
EXTENDS Packets

CONSTANTS
  Buffers,   \* lengths of the slices that io.Copy hands to Read
  Sizes      \* lengths of the values

ASSUME StreamAssumption ==
  /\ Buffers \subseteq Nat \ {0}
  /\ Sizes \subseteq Nat

Old == 1
New == 2

VARIABLES
  sizes,     \* length of each value
  file,      \* bytes of the file
  put,       \* the Put: new, copy, done, or stopped by an error or a crash
  get,       \* the Get: read (into memory) or decrypt
  got,       \* the bytes it has read into memory
  sealAt, sealRoom, taken, sealSeq, sealFinal, packet, packetOffset, out,
  openAt, openRoom, ref, used, openSeq, openFinal, data, dataOffset, plain

sealing == <<sealAt, sealRoom, taken, sealSeq, sealFinal, packet, packetOffset, out>>
opening == <<openAt, openRoom, ref, used, openSeq, openFinal, data, dataOffset, plain>>
vars    == <<sizes, file, put, get, got, sealing, opening>>

Enc == INSTANCE Encryptor WITH
  Stream <- New, size <- sizes[New], at <- sealAt, room <- sealRoom, seq <- sealSeq,
  finalized <- sealFinal, buffer <- packet, offset <- packetOffset

Dec == INSTANCE Decryptor WITH
  cipher <- got, at <- openAt, room <- openRoom, seq <- openSeq,
  finalized <- openFinal, offset <- dataOffset

Init ==
  /\ \E m \in Sizes \ {0}, n \in Sizes : sizes = <<m, n>>
  /\ file = Encoding(Old, sizes[Old])
  /\ put = "new"
  /\ get = "read"
  /\ got = <<>>
  /\ Enc!Init
  /\ Dec!Init
-----------------------------------------------------------------------------
(* PutInternal *)

(* os.OpenFile with O_TRUNC. *)
Truncate ==
  /\ put = "new"
  /\ put' = "copy"
  /\ file' = <<>>
  /\ UNCHANGED <<sizes, get, got, sealing, opening>>

(* io.CopyBuffer calls Read once what the last call returned is written. *)
Encrypt ==
  /\ put = "copy"
  /\ sealAt = "idle" => file = out
  /\ UNCHANGED <<sizes, file, put, get, got, opening>>
  /\ Enc!Next

(* The kernel may take several pieces for one call. *)
Write ==
  /\ put = "copy"
  /\ sealAt \in {"idle", "eof"}
  /\ \E n \in Len(file) + 1 .. Len(out) : file' = SubSeq(out, 1, n)
  /\ UNCHANGED <<sizes, put, get, got, sealing, opening>>

Copied ==
  /\ put = "copy"
  /\ sealAt = "eof"
  /\ file = out
  /\ put' = "done"
  /\ UNCHANGED <<sizes, file, get, got, sealing, opening>>

(* The disk is full, or the program is killed. *)
Stop ==
  /\ put = "copy"
  /\ put' = "stopped"
  /\ UNCHANGED <<sizes, file, get, got, sealing, opening>>
-----------------------------------------------------------------------------
(* GetInternal *)

(* One read of the file at the offset the handle has reached. *)
ReadFile ==
  /\ get = "read"
  /\ \E n \in Len(got) + 1 .. Len(file) : got' = got \o SubSeq(file, Len(got) + 1, n)
  /\ UNCHANGED <<sizes, file, put, get, sealing, opening>>

(* io.EOF: the offset is at or past the end of the file. *)
ReadAll ==
  /\ get = "read"
  /\ Len(got) >= Len(file)
  /\ get' = "decrypt"
  /\ UNCHANGED <<sizes, file, put, got, sealing, opening>>

Decrypt ==
  /\ get = "decrypt"
  /\ Dec!Next
  /\ UNCHANGED <<sizes, file, put, get, sealing>>
-----------------------------------------------------------------------------
PutNext == Truncate \/ Encrypt \/ Write \/ Copied
GetNext == ReadFile \/ ReadAll \/ Decrypt
Next    == PutNext \/ Stop \/ GetNext

(* Both copies are loops of goroutines nobody blocks. *)
Spec == Init /\ [][Next]_vars /\ WF_vars(PutNext) /\ WF_vars(GetNext)
-----------------------------------------------------------------------------
(* Whatever the slices that Read is given, what it has returned is the     *)
(* start of the encoding of the value, cut at MaxPayloadSize with only the *)
(* last packet marked final, and it ends with the encoding: no byte is     *)
(* lost, doubled or displaced between e.buffer, the byte ahead and p       *)
(* (secure.go:63-160).                                                     *)
EncodingFaithful ==
  LET whole == Encoding(New, sizes[New])
  IN  /\ out = SubSeq(whole, 1, Len(out))
      /\ sealAt = "eof" => Len(out) = Len(whole)

(* A Get that has read the file as a completed Put left it gives the value *)
(* that was put, whole, and no error: the decryptor accepts all that the   *)
(* encryptor makes, for every two sequences of slices (secure.go:63-316).  *)
(* An empty value has no packet at all, and Put removes its file.          *)
RoundTrip ==
  LET value == IF put = "new" THEN Old ELSE New
  IN  put \in {"new", "done"} /\ get = "decrypt" /\ got = file /\ file # <<>> =>
        /\ openAt # "error"
        /\ openAt = "eof" => plain = Value(value, sizes[value])

(* What the caller is given is the start of one of the two values, never a *)
(* mixture, and the stream only ends without an error when the value is    *)
(* whole: the bytes of a torn or overwritten file are refused (module      *)
(* Delivery; secure.go:206-258, internal.go:148-165).                      *)
Promise == INSTANCE Delivery WITH
  Streams <- {Old, New}, text <- plain,
  end <- IF openAt \in {"eof", "error"} THEN openAt ELSE "open"

ImplementsDelivery == Promise!Spec

(* Put and Get end, on every file: a torn stream is an error and never a   *)
(* Read that returns nothing for ever (secure.go:214-218, 235-239).        *)
BothEnd ==
  /\ <>(put \in {"done", "stopped"})
  /\ <>(openAt \in {"eof", "error"})
=============================================================================
