-------------------------------- MODULE Crypt --------------------------------
(***************************************************************************)
(* The nonces of an encrypted voice channel (mumble-protocol/src/crypt.rs):*)
(* one CryptState encrypts, the other decrypts what a datagram network     *)
(* makes of it. A packet carries the low byte of its nonce only; the       *)
(* receiver guesses the rest from its own decrypt_nonce, remembers which   *)
(* nonces it has seen in decrypt_history and keeps statistics.             *)
(*                                                                         *)
(* Nonces are integers: the code's are u128, whose wrap around 2^128 no    *)
(* run reaches, and \div and % agree with >> and "as u8" also on the       *)
(* negative ones a wrong guess may produce. The byte is scaled down. AES   *)
(* and OCB are idealised: the tag matches iff the packet is intact and the *)
(* guessed nonce is the one it was encrypted with. A packet that is not    *)
(* intact may be damaged anywhere, in the nonce byte of its header too.    *)
(***************************************************************************)
EXTENDS Integers, FiniteSets

CONSTANTS
    ByteSize,     \* values of a byte: 2^8 in the code
    LateWindow,   \* 30 in the code: how late a packet may be
    CounterSize,  \* values of the u32 counters
    Start,        \* the nonce both sides start from; 0 of generate_new
    MaxSent,      \* bound: packets encrypted
    MaxDelay,     \* network: how far behind the newest packet one may arrive
    MaxLoss,      \* network: how far the sender may get ahead of what arrived
    MaxGap,       \* bound: how far behind the receiver still gets packets
    MaxLates,     \* bound: Late returns between two resyncs
    MaxResyncs    \* bound: calls of set_decrypt_nonce

ASSUME CryptAssumption ==
    /\ ByteSize \in Nat \ {0} /\ LateWindow \in Nat \ {0} /\ CounterSize \in Nat \ {0}
    /\ LateWindow <= ByteSize \div 2
    /\ Start \in Int
    /\ MaxSent \in Nat /\ MaxDelay \in Nat /\ MaxLoss \in Nat
    /\ MaxGap \in Nat /\ MaxLates \in Nat /\ MaxResyncs \in Nat

VARIABLES
    encrypt_nonce,    \* of the sender
    decrypt_nonce,    \* of the receiver, as are the others
    decrypt_history,
    good, late, lost,
    result,           \* the last decrypt: its outcome, and of which packet
    newest,           \* network: the newest nonce that arrived intact
    accepted,         \* nonces of the packets decrypted (not in the code)
    skipped,          \* nonces moved over and not counted, as a word (not in the code)
    astray,           \* Late returns since the last resync (not in the code)
    resyncs           \* calls of set_decrypt_nonce (for the bound)

counters == <<good, late, lost>>
ghosts   == <<accepted, skipped, astray, resyncs>>
vars == <<encrypt_nonce, decrypt_nonce, decrypt_history, counters, result, newest, ghosts>>

Byte == 0 .. ByteSize - 1

\* x as u8
Low(x) == x % ByteSize

\* (x >> 8) as u8
High(x) == (x \div ByteSize) % ByteSize

\* a plausible slip: the difference stays unsigned
UnsignedByte(x) == Low(x)

\* x as u8 as i8
SignedByte(x) == IF Low(x) < ByteSize \div 2 THEN Low(x) ELSE Low(x) - ByteSize

NoCall == [kind |-> "None", n |-> Start, intact |-> FALSE]

Init ==
    /\ encrypt_nonce = Start
    /\ decrypt_nonce = Start
    /\ decrypt_history = [b \in Byte |-> 0]
    /\ good = 0 /\ late = 0 /\ lost = 0
    /\ result = NoCall
    /\ newest = Start
    /\ accepted = {} /\ skipped = 0 /\ astray = 0 /\ resyncs = 0

-----------------------------------------------------------------------------
\* encrypt: the new nonce encrypts the packet, which is on the network then
Encrypt ==
    /\ encrypt_nonce < Start + MaxSent
    /\ encrypt_nonce < newest + MaxLoss
    /\ encrypt_nonce' = encrypt_nonce + 1
    /\ UNCHANGED <<decrypt_nonce, decrypt_history, counters, result, newest, ghosts>>

\* The packet with nonce n arrives, for the first time or again. Loss,
\* duplication and reordering are in what is never, repeatedly or later
\* chosen here.
Arrives(n, intact) ==
    /\ n \in (Start + 1) .. encrypt_nonce
    /\ n > encrypt_nonce - MaxDelay
    /\ encrypt_nonce - decrypt_nonce <= MaxGap
    /\ newest' = IF intact /\ n > newest THEN n ELSE newest

\* The branches of decrypt ahead of the tag check. In order, and ahead:
InOrder(nonce_0) == Low(decrypt_nonce + 1) = nonce_0
Diff(nonce_0)    == SignedByte(nonce_0 - decrypt_nonce)
Ahead(nonce_0)   == ~InOrder(nonce_0) /\ Diff(nonce_0) > 0
Behind(nonce_0)  == /\ ~InOrder(nonce_0)
                    /\ Diff(nonce_0) <= 0 /\ Diff(nonce_0) > -LateWindow
TooLate(nonce_0) == ~InOrder(nonce_0) /\ Diff(nonce_0) <= -LateWindow

\* decrypt_nonce during the call
Guess(nonce_0) ==
    decrypt_nonce + IF InOrder(nonce_0) THEN 1 ELSE Diff(nonce_0)

\* a plausible slip: whatever is behind is taken for a repetition
RepeatedIfBehind(nonce_0) == Behind(nonce_0)

Repeated(nonce_0) ==
    Behind(nonce_0) /\ decrypt_history[nonce_0] = High(Guess(nonce_0))

Passes(nonce_0) ==
    \/ InOrder(nonce_0) \/ Ahead(nonce_0)
    \/ Behind(nonce_0) /\ ~Repeated(nonce_0)

\* which packet a damaged one was is forgotten
Returns(kind, n, intact) ==
    result' = [kind |-> kind, n |-> IF intact THEN n ELSE Start, intact |-> intact]

\* a buffer shorter than the header
DecryptEof ==
    /\ Returns("Eof", Start, FALSE)
    /\ UNCHANGED <<encrypt_nonce, decrypt_nonce, decrypt_history, counters, newest, ghosts>>

DecryptRepeat(n, nonce_0, intact) ==
    /\ Arrives(n, intact) /\ Repeated(nonce_0)
    /\ Returns("Repeat", n, intact)
    /\ UNCHANGED <<encrypt_nonce, decrypt_nonce, decrypt_history, counters, ghosts>>

\* returns with decrypt_nonce updated: saved_nonce is not restored
DecryptLate(n, nonce_0, intact) ==
    /\ astray < MaxLates
    /\ Arrives(n, intact) /\ TooLate(nonce_0)
    /\ decrypt_nonce' = Guess(nonce_0)
    /\ Returns("Late", n, intact)
    /\ skipped' = (skipped + decrypt_nonce' - decrypt_nonce) % CounterSize
    /\ astray' = astray + 1
    /\ UNCHANGED <<encrypt_nonce, decrypt_history, counters, accepted, resyncs>>

TagMatches(n, nonce_0, intact) == intact /\ Guess(nonce_0) = n

DecryptMac(n, nonce_0, intact) ==
    /\ Arrives(n, intact) /\ Passes(nonce_0)
    /\ ~TagMatches(n, nonce_0, intact)
    /\ Returns("Mac", n, intact)
    /\ UNCHANGED <<encrypt_nonce, decrypt_nonce, decrypt_history, counters, ghosts>>

\* a plausible slip: every packet counts from the last one, itself included
LostWithSelf(nonce_0) ==
    IF InOrder(nonce_0) THEN 0 ELSE IF Ahead(nonce_0) THEN Diff(nonce_0) ELSE -1

\* the change of lost: packets jumped over, or one that was counted as lost
Lost(nonce_0) ==
    IF InOrder(nonce_0) THEN 0 ELSE IF Ahead(nonce_0) THEN Diff(nonce_0) - 1 ELSE -1

\* a plausible slip: the nonce is not restored after a late packet
NonceAfterLate(nonce_0) == Guess(nonce_0)

\* decrypt_nonce after a packet was decrypted: late ones leave it alone
NonceAfter(nonce_0) == IF Behind(nonce_0) THEN decrypt_nonce ELSE Guess(nonce_0)

\* a plausible slip: late packets are not remembered
HistoryOfNewest(nonce_0) ==
    IF Behind(nonce_0) THEN decrypt_history
    ELSE [decrypt_history EXCEPT ![nonce_0] = High(Guess(nonce_0))]

HistoryAfter(nonce_0) == [decrypt_history EXCEPT ![nonce_0] = High(Guess(nonce_0))]

\* a plausible slip: counters that do not wrap
Unwrapped(x) == x

\* u32 arithmetic, which wraps in a release build
Wrapped(x) == x % CounterSize

DecryptOk(n, nonce_0, intact) ==
    /\ TagMatches(n, nonce_0, intact)
    /\ Arrives(n, intact) /\ Passes(nonce_0)
    /\ decrypt_history' = HistoryAfter(nonce_0)
    /\ decrypt_nonce' = NonceAfter(nonce_0)
    /\ good' = Wrapped(good + 1)
    /\ late' = Wrapped(late + IF Behind(nonce_0) THEN 1 ELSE 0)
    /\ lost' = Wrapped(lost + Lost(nonce_0))
    /\ accepted' = accepted \cup {n}
    /\ Returns("Ok", n, intact)
    /\ UNCHANGED <<encrypt_nonce, skipped, astray, resyncs>>

Decrypt(n, nonce_0, intact) ==
    \/ DecryptRepeat(n, nonce_0, intact)
    \/ DecryptLate(n, nonce_0, intact)
    \/ DecryptMac(n, nonce_0, intact)
    \/ DecryptOk(n, nonce_0, intact)

DeliverIntact == \E n \in (Start + 1) .. encrypt_nonce : Decrypt(n, Low(n), TRUE)

\* Damage may hit the header, so that any byte is read there, or the rest only.
\* Which packet it was makes no difference.
DeliverDamaged == \E nonce_0 \in Byte : Decrypt(encrypt_nonce, nonce_0, FALSE)

\* set_decrypt_nonce, with the nonce the peer reports (get_encrypt_nonce)
Resync ==
    /\ resyncs < MaxResyncs
    /\ resyncs' = resyncs + 1
    /\ decrypt_nonce' = encrypt_nonce
    /\ skipped' = (skipped + decrypt_nonce' - decrypt_nonce) % CounterSize
    /\ astray' = 0
    /\ result' = NoCall
    /\ UNCHANGED <<encrypt_nonce, decrypt_history, counters, newest, accepted>>

Next ==
    \/ Encrypt
    \/ DecryptEof
    \/ DeliverIntact
    \/ DeliverDamaged
    \/ Resync

Spec == Init /\ [][Next]_vars

-----------------------------------------------------------------------------
(* Properties *)

\* Nonces are integers, the history is an array of bytes, counters are words.
TypeOK ==
    /\ encrypt_nonce \in Int /\ decrypt_nonce \in Int
    /\ decrypt_history \in [Byte -> Byte]
    /\ good \in 0 .. CounterSize - 1
    /\ late \in 0 .. CounterSize - 1
    /\ lost \in 0 .. CounterSize - 1
    /\ result \in [kind : {"None", "Eof", "Repeat", "Late", "Mac", "Ok"},
                   n : Int, intact : BOOLEAN]
    /\ newest \in Int /\ accepted \subseteq Int
    /\ skipped \in Int /\ astray \in Nat /\ resyncs \in Nat

\* No packet is decrypted twice, however often and in whatever order the
\* network repeats it, as long as no Late return has moved the nonce: what
\* good counts was not decrypted before. A resync is enough to be safe again.
AcceptedOnce == [][good' # good /\ astray = 0 => accepted' # accepted]_vars

\* The statistics add up, wherever the nonce went: the nonces the receiver has
\* moved over are the packets it decrypted and the packets it reports lost. A
\* late packet takes back one loss. The counters are words: a late packet from
\* before a resync may take lost below 0.
Accounting == lost = (decrypt_nonce - Start - skipped - good) % CounterSize

\* On a network within the limits no intact packet fails its tag check or is
\* far too late: the receiver's guess of the nonce stays right, whatever
\* arrived before, damaged in the header or not. The one thing that leads it
\* astray is the Late return of a damaged nonce byte; a resync brings it back.
InSync == [][astray = 0 => ~(result'.intact /\ result'.kind \in {"Mac", "Late"})]_vars

\* What DecryptError::Repeat really means: a packet with the same two low bytes
\* of nonce was decrypted before, or the second of them is the 0 that fills the
\* history to begin with.
RepeatsExplained ==
    result.kind = "Repeat" /\ result.intact /\ astray = 0 =>
        \/ \E m \in accepted : Low(m) = Low(result.n) /\ High(m) = High(result.n)
        \/ High(result.n) = 0

\* DecryptError::Repeat as its doc comment has it: the packet has already been
\* decrypted.
RepeatsAreRepeats ==
    result.kind = "Repeat" /\ result.intact /\ astray = 0 => result.n \in accepted

\* Only the "far too late" return moves the nonce backwards: a late packet that
\* is decrypted, a repeated one or a bad one leave it where it was.
NoncesAdvance ==
    [][decrypt_nonce' < decrypt_nonce => result'.kind = "Late" \/ resyncs' > resyncs]_vars

\* The comment in decrypt: a nonce updated for a packet that is not decrypted
\* is reverted.
ErrorsRevert ==
    [][result' # result /\ result'.kind \in {"Repeat", "Late", "Mac", "Eof"}
            => decrypt_nonce' = decrypt_nonce]_vars

=============================================================================
