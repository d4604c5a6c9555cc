------------------------------- MODULE Hasher -------------------------------
(***************************************************************************)
(* The two hashers of sha1dc (src/lib.rs, src/mitigate.rs): Inner, the     *)
(* methods hasher_common! generates over it, and the Builder.              *)
(*                                                                         *)
(* A program holds several hashers, each owned by one thread, so a call on *)
(* one may run while calls on others do.  A call that compresses runs in   *)
(* steps, one per block it compresses, because each of them may flag an    *)
(* attack; `call` says which step of which call comes next.  The steps of  *)
(* a call are forced: nothing else can be done with a hasher before its    *)
(* call has returned, since it is borrowed mutably.                        *)
(***************************************************************************)
EXTENDS MessageFormat, SequencesExt

CONSTANTS
  Ids,        (* names for the hashers a program holds                      *)
  Settings,   (* the configurations a Builder can be given                  *)
  Data,       (* what one update is given                                   *)
  NoResult,   (* no finalization has returned yet                           *)
  MaxFed      (* bound: how many bytes are fed between two resets           *)

ASSUME InputAssumption ==
  /\ Settings \subseteq [safe_hash : BOOLEAN, ubc_check : BOOLEAN,
                         reduced_round_collision : BOOLEAN,
                         scalar_only : BOOLEAN]
  /\ Data \subseteq Seq(Byte)
  /\ MaxFed \in Nat

VARIABLES
  hasher,     (* name -> Inner, for the hashers that exist                  *)
  result      (* name -> what its last finalization returned                *)

vars == <<hasher, result>>

(* Where a hasher is in a call.  "buffer" and "blocks" are the two halves  *)
(* of update, "overflow" and "length" those of finalize_inner.             *)
Calls == {"none", "buffer", "blocks", "overflow", "length"}

(* Inner, with State's fields; `data` is the argument of an update not yet *)
(* taken, `resets` whether the finalization is finalize_reset.  `fed` is   *)
(* no field of the code: it remembers the message.                         *)
Inner == [h : Seq(Compression), found_collision : BOOLEAN,
          len : 0 .. LenMod - 1, buffer : Block, settings : Settings,
          call : Calls, data : Seq(Byte), resets : BOOLEAN,
          fed : Seq(Byte)]

Result == [settings : Settings, message : Seq(Byte),
           digest : Seq(Compression), kind : {"Ok", "Collision", "Mitigated"}]

-----------------------------------------------------------------------------
(* Inner::new.                                                             *)
New(s) ==
  [h |-> << >>, found_collision |-> FALSE, len |-> 0, buffer |-> ZeroBlock,
   settings |-> s, call |-> "none", data |-> << >>, resets |-> FALSE,
   fed |-> << >>]

(* Inner::buffered.                                                        *)
Buffered(r) == r.len % BlockSize

(* buffer[pos .. pos + n].copy_from_slice(&data[.. n]).                    *)
CopyInto(buffer, pos, n, data) ==
  [k \in 0 .. BlockSize - 1 |->
     IF k >= pos /\ k < pos + n THEN data[k - pos + 1] ELSE buffer[k]]

(* Mutants, here and below: each is the definition that follows with a     *)
(* plausible bug, and a run shows which property it breaks.                *)
Compress_Forgets(r, block) ==
  LET attacked == Attack(r.settings, r.h, block)
      times == IF attacked /\ r.settings.safe_hash THEN 3 ELSE 1
  IN [r EXCEPT !.h = Append(r.h, [block |-> block, times |-> times]),
               !.found_collision = attacked]

Compress_MitigatesAlways(r, block) ==
  LET attacked == Attack(r.settings, r.h, block)
      times == IF attacked THEN 3 ELSE 1
  IN [r EXCEPT !.h = Append(r.h, [block |-> block, times |-> times]),
               !.found_collision = r.found_collision \/ attacked]

(* One iteration of block::compress, which BlockDetect takes apart: the    *)
(* block goes into the chaining value, an attack is remembered, and when   *)
(* mitigating a flagged block goes in twice more.                          *)
Compress(r, block) ==
  LET attacked == Attack(r.settings, r.h, block)
      times == IF attacked /\ r.settings.safe_hash THEN 3 ELSE 1
  IN [r EXCEPT !.h = Append(r.h, [block |-> block, times |-> times]),
               !.found_collision = r.found_collision \/ attacked]

(* self.len.wrapping_add(data.len() as u64).                               *)
LenAfter(r, d) == (r.len + Len(d)) % LenMod

(* Inner::update up to its first compression, with pos bytes buffered.     *)
TopUp(r, d, pos) ==
  LET take == IF BlockSize - pos < Len(d) THEN BlockSize - pos ELSE Len(d)
  IN [r EXCEPT
        !.len = LenAfter(r, d),
        !.fed = r.fed \o d,
        !.buffer = IF pos > 0 THEN CopyInto(r.buffer, pos, take, d)
                   ELSE r.buffer,
        !.data = IF pos > 0 THEN SubSeq(d, take + 1, Len(d)) ELSE d,
        !.call = IF pos = 0 THEN "blocks"
                 ELSE IF pos + take < BlockSize THEN "none" ELSE "buffer"]

BeginUpdate_LateLength(r, d) == TopUp(r, d, LenAfter(r, d) % BlockSize)

(* How much is buffered is read before the length moves on.                *)
BeginUpdate(r, d) == TopUp(r, d, Buffered(r))

FlushBuffer_NotCleared(r) ==
  [Compress(r, r.buffer) EXCEPT !.call = "blocks"]

(* The buffer is full: it is compressed and cleared.                       *)
FlushBuffer(r) ==
  [Compress(r, r.buffer) EXCEPT !.buffer = ZeroBlock, !.call = "blocks"]

(* The next whole block of the data is compressed where it is.             *)
TakeBlock(r) ==
  [Compress(r, [k \in 0 .. BlockSize - 1 |-> r.data[k + 1]])
     EXCEPT !.data = SubSeq(r.data, BlockSize + 1, Len(r.data))]

(* What is left of the data is kept, and update returns.                   *)
KeepRest(r) ==
  [r EXCEPT !.buffer = CopyInto(r.buffer, 0, Len(r.data), r.data),
            !.data = << >>, !.call = "none"]

Reset_KeepsFound(r) ==
  [r EXCEPT !.h = << >>, !.len = 0, !.buffer = ZeroBlock,
            !.fed = << >>, !.call = "none", !.resets = FALSE]

Reset_KeepsBuffer(r) ==
  [r EXCEPT !.h = << >>, !.len = 0, !.found_collision = FALSE,
            !.fed = << >>, !.call = "none", !.resets = FALSE]

(* Inner::reset.  The settings stay.                                       *)
Reset(r) ==
  [r EXCEPT !.h = << >>, !.len = 0, !.buffer = ZeroBlock,
            !.found_collision = FALSE, !.fed = << >>, !.call = "none",
            !.resets = FALSE]

BeginFinalize_NoRoom(r, resets) ==
  LET pos == Buffered(r)
  IN [r EXCEPT
        !.buffer = [r.buffer EXCEPT ![pos] = Marker],
        !.resets = resets,
        !.call = IF pos > BlockSize - LengthSize THEN "overflow" ELSE "length"]

(* Inner::finalize_inner up to its first compression.                      *)
BeginFinalize(r, resets) ==
  LET pos == Buffered(r)
  IN [r EXCEPT
        !.buffer = [r.buffer EXCEPT ![pos] = Marker],
        !.resets = resets,
        !.call = IF pos + 1 > BlockSize - LengthSize
                 THEN "overflow" ELSE "length"]


(* No room for the length: the buffer is compressed without it.            *)
FlushMarker(r) ==
  [Compress(r, r.buffer) EXCEPT !.buffer = ZeroBlock, !.call = "length"]

CompressLast_NoLength(r) == Compress(r, r.buffer)

(* The length in bits, whose top bits the shift drops, ends the padding    *)
(* and the last block is compressed.                                       *)
CompressLast(r) ==
  LET bitLen == (r.len * BitsPerByte) % LenMod
      lengthAt == BlockSize - LengthSize
      last == [k \in 0 .. BlockSize - 1 |->
                 IF k >= lengthAt THEN LengthByte(bitLen, k - lengthAt)
                 ELSE r.buffer[k]]
  IN Compress([r EXCEPT !.buffer = last], last)

(* Inner::finish, and the Result hasher_common! makes of it.               *)
ResultOf(r) ==
  [settings |-> r.settings, message |-> r.fed, digest |-> r.h,
   kind |-> IF r.found_collision
            THEN IF r.settings.safe_hash THEN "Mitigated" ELSE "Collision"
            ELSE "Ok"]
-----------------------------------------------------------------------------
Idle(i) == i \in DOMAIN hasher /\ hasher[i].call = "none"
InCall(i, c) == i \in DOMAIN hasher /\ hasher[i].call = c
Becomes(i, r) == hasher' = [hasher EXCEPT ![i] = r]

Init ==
  /\ hasher = [i \in {} |-> {}]
  /\ result = [i \in Ids |-> NoResult]

(* Builder::build, build_mitigating, and the two hashers' new.             *)
Build(i, s) ==
  /\ i \notin DOMAIN hasher
  /\ hasher' = [j \in DOMAIN hasher \cup {i} |->
                  IF j = i THEN New(s) ELSE hasher[j]]
  /\ UNCHANGED result

(* Clone, of a hasher nobody has borrowed.                                 *)
Clone(i, j) ==
  /\ Idle(i)
  /\ j \notin DOMAIN hasher
  /\ hasher' = [k \in DOMAIN hasher \cup {j} |->
                  IF k = j THEN hasher[i] ELSE hasher[k]]
  /\ UNCHANGED result

(* update, and io::Write::write, which is update.                          *)
Update(i, d) ==
  /\ Idle(i)
  /\ Len(hasher[i].fed) + Len(d) <= MaxFed
  /\ Becomes(i, BeginUpdate(hasher[i], d))
  /\ UNCHANGED result

UpdateBuffer(i) ==
  /\ InCall(i, "buffer")
  /\ Becomes(i, FlushBuffer(hasher[i]))
  /\ UNCHANGED result

UpdateBlock(i) ==
  /\ InCall(i, "blocks")
  /\ Len(hasher[i].data) >= BlockSize
  /\ Becomes(i, TakeBlock(hasher[i]))
  /\ UNCHANGED result

UpdateRest(i) ==
  /\ InCall(i, "blocks")
  /\ Len(hasher[i].data) < BlockSize
  /\ Becomes(i, KeepRest(hasher[i]))
  /\ UNCHANGED result

ResetHasher(i) ==
  /\ Idle(i)
  /\ Becomes(i, Reset(hasher[i]))
  /\ UNCHANGED result

(* finalize and finalize_reset begin alike.                                *)
Finalize(i, resets) ==
  /\ Idle(i)
  /\ Becomes(i, BeginFinalize(hasher[i], resets))
  /\ UNCHANGED result

FinalizeOverflow(i) ==
  /\ InCall(i, "overflow")
  /\ Becomes(i, FlushMarker(hasher[i]))
  /\ UNCHANGED result

(* finalize returns, and the hasher it consumed is gone.                   *)
FinalizeReturn(i) ==
  /\ InCall(i, "length")
  /\ ~ hasher[i].resets
  /\ result' = [result EXCEPT ![i] = ResultOf(CompressLast(hasher[i]))]
  /\ hasher' = [j \in DOMAIN hasher \ {i} |-> hasher[j]]

(* finalize_reset resets the hasher finish left invalid, and returns.      *)
FinalizeResetReturn(i) ==
  /\ InCall(i, "length")
  /\ hasher[i].resets
  /\ result' = [result EXCEPT ![i] = ResultOf(CompressLast(hasher[i]))]
  /\ Becomes(i, Reset(CompressLast(hasher[i])))

Next ==
  \E i \in Ids :
    \/ \E s \in Settings : Build(i, s)
    \/ \E j \in Ids : Clone(i, j)
    \/ \E d \in Data : Update(i, d)
    \/ UpdateBuffer(i) \/ UpdateBlock(i) \/ UpdateRest(i)
    \/ ResetHasher(i)
    \/ \E resets \in BOOLEAN : Finalize(i, resets)
    \/ FinalizeOverflow(i)
    \/ FinalizeReturn(i)
    \/ FinalizeResetReturn(i)

Spec == Init /\ [][Next]_vars
-----------------------------------------------------------------------------
(* Every hasher and every result has its type, mid-call states included.   *)
TypeOK ==
  /\ DOMAIN hasher \subseteq Ids
  /\ \A i \in DOMAIN hasher : hasher[i] \in Inner
  /\ DOMAIN result = Ids
  /\ \A i \in Ids : result[i] \in Result \cup {NoResult}

(* Bytes of the message that update has compressed or buffered.            *)
Absorbed(r) == Len(r.fed) - Len(r.data)

(* The doc of Inner::buffer: between calls it holds the message's last     *)
(* len % BLOCK_SIZE bytes, also after len has wrapped, and every byte      *)
(* after those is zero, on which the padding of finalize_inner rests.      *)
BufferHoldsTail ==
  \A i \in DOMAIN hasher : LET r == hasher[i] IN
    r.call = "none" =>
      /\ Buffered(r) = Len(r.fed) - Len(r.h) * BlockSize
      /\ \A k \in 0 .. BlockSize - 1 :
           r.buffer[k] = IF k < Buffered(r)
                         THEN r.fed[Len(r.h) * BlockSize + k + 1] ELSE 0

(* At every step of every call the blocks compressed so far are those of   *)
(* the padded message in order, none skipped and none twice: update's two  *)
(* paths and finalize's two shapes of padding join without a seam.         *)
ChainHoldsBlocks ==
  \A i \in DOMAIN hasher : LET r == hasher[i] IN
    \A n \in 1 .. Len(r.h) : \A k \in 0 .. BlockSize - 1 :
      r.h[n].block[k] = PaddedByte(r.fed, (n - 1) * BlockSize + k)

(* collision_detected() is true exactly when a block since the last reset  *)
(* was flagged, and exactly the flagged blocks were mitigated.             *)
FoundMatchesChain ==
  \A i \in DOMAIN hasher : LET r == hasher[i] IN
    /\ r.found_collision <=>
         \E n \in 1 .. Len(r.h) : FlaggedAt(r.settings, r.h, n)
    /\ \A n \in 1 .. Len(r.h) : r.h[n].times = TimesAt(r.settings, r.h, n)

(* Splitting a message into other updates changes nothing, and a hasher    *)
(* that was reset, finalized or cloned is as good as a fresh one: hashers  *)
(* with the same settings fed the same message are in the same state.      *)
SameMessageSameState ==
  \A i, j \in DOMAIN hasher :
    /\ hasher[i].call = "none" /\ hasher[j].call = "none"
    /\ hasher[i].settings = hasher[j].settings
    /\ hasher[i].fed = hasher[j].fed
    => hasher[i] = hasher[j]

Returned == { result[i] : i \in Ids } \ {NoResult}

(* "A message that is not part of an attack gives plain SHA-1", and one    *)
(* that is gives something else: the two hashers agree on a message        *)
(* exactly when neither reports an attack.                                 *)
HashersAgreeUnlessFlagged ==
  \A r, q \in Returned :
    /\ r.message = q.message
    /\ ~ r.settings.safe_hash /\ q.settings.safe_hash
    => (r.digest = q.digest <=> q.kind = "Ok")

(* A digest as the compressions it takes, each mitigation spelled out.     *)
Flat(digest) ==
  FlattenSeq([n \in 1 .. Len(digest) |->
                [t \in 1 .. digest[n].times |-> digest[n].block]])

(* mitigate: "the two colliding messages give different values", "no       *)
(* message is known to give the same value".  Compressing a block three    *)
(* times must not make a message's digest that of a message which really   *)
(* repeats the block, under either hasher.                                 *)
EqualDigestsEqualMessages ==
  \A r, q \in Returned :
    Flat(r.digest) = Flat(q.digest) => r.message = q.message

(* "True if a collision attack occurred in the data so far": a call never  *)
(* forgets an attack unless it takes the data back to none.                *)
AttackIsRemembered ==
  [][\A i \in DOMAIN hasher \cap DOMAIN hasher' :
       hasher[i].found_collision /\ ~ hasher'[i].found_collision
         => hasher'[i] = New(hasher[i].settings)]_vars

(***************************************************************************)
(* The inductive invariant: what holds at every step of every call, and    *)
(* why the next step keeps the properties above.                           *)
(***************************************************************************)

(* A chain, and the flag kept with it, are those of the blocks message m   *)
(* is padded to, as far as the chain goes.                                 *)
ChainOf(s, m, chain, found) ==
  /\ \A n \in 1 .. Len(chain) : \A k \in 0 .. BlockSize - 1 :
       chain[n].block[k] = PaddedByte(m, (n - 1) * BlockSize + k)
  /\ \A n \in 1 .. Len(chain) : chain[n].times = TimesAt(s, chain, n)
  /\ found <=> \E n \in 1 .. Len(chain) : FlaggedAt(s, chain, n)

(* What update has yet to take is the end of the message.                  *)
DataInv(r) ==
  /\ Len(r.data) <= Len(r.fed)
  /\ \A k \in 1 .. Len(r.data) : r.data[k] = r.fed[Absorbed(r) + k]
  /\ r.call \in {"none", "overflow", "length"} => r.data = << >>

(* Where the chain ends in the message, and so what the buffer holds.      *)
BufferInv(r) ==
  LET at == Len(r.h) * BlockSize
  IN
  /\ r.call = "none" =>
       /\ at + Buffered(r) = Len(r.fed)
       /\ \A k \in 0 .. BlockSize - 1 :
            r.buffer[k] = IF k < Buffered(r) THEN r.fed[at + k + 1] ELSE 0
  /\ r.call = "buffer" =>
       /\ at + BlockSize = Absorbed(r)
       /\ \A k \in 0 .. BlockSize - 1 : r.buffer[k] = r.fed[at + k + 1]
  /\ r.call = "blocks" =>
       /\ at = Absorbed(r)
       /\ r.buffer = ZeroBlock
  /\ r.call = "overflow" =>
       /\ at <= Len(r.fed) /\ Len(r.fed) < at + BlockSize
       /\ PaddedBlocks(r.fed) = Len(r.h) + 2
       /\ \A k \in 0 .. BlockSize - 1 :
            r.buffer[k] = PaddedByte(r.fed, at + k)
  /\ r.call = "length" =>
       /\ Len(r.fed) + LengthSize < at + BlockSize
       /\ PaddedBlocks(r.fed) = Len(r.h) + 1
       /\ \A k \in 0 .. BlockSize - LengthSize - 1 :
            r.buffer[k] = PaddedByte(r.fed, at + k)

InnerInv(r) ==
  /\ r \in Inner
  /\ r.len = Len(r.fed) % LenMod
  /\ r.resets => r.call \in {"overflow", "length"}
  /\ ChainOf(r.settings, r.fed, r.h, r.found_collision)
  /\ DataInv(r)
  /\ BufferInv(r)

ResultInv(r) ==
  /\ r \in Result
  /\ IsChainOf(r.settings, r.message, r.digest)
  /\ r.kind = ResultKind(r.settings, r.digest)

IInv ==
  /\ DOMAIN hasher \subseteq Ids
  /\ \A i \in DOMAIN hasher : InnerInv(hasher[i])
  /\ DOMAIN result = Ids
  /\ \A i \in Ids : result[i] = NoResult \/ ResultInv(result[i])

(* The hashers implement their specification: finalization returns the     *)
(* digest of the whole message that was fed, and says whether it was       *)
(* flagged, whatever calls and other hashers came in between.              *)
Abstract == INSTANCE HashSpec WITH
  settings <- [i \in DOMAIN hasher |-> hasher[i].settings],
  message  <- [i \in DOMAIN hasher |-> hasher[i].fed]

ImplementsHashSpec == Abstract!SpecSpec
=============================================================================
