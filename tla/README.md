# Cryptopals in TLA+

This directory models the C library under `src/src` of the cryptopals
repository, and the Python server its tests talk to, in TLA+. TLC checks the
models on small instances, and TLAPS proves what matters most about eight of
them for every instance. Every definition that stands for code is listed with
its lines in `PROJECT.json`; every model is written from the code, and a comment
or a header is quoted only where the code does something else (see
[Findings](#findings)).

    tlc -workers 2 -config MCSrp.cfg MCSrp      # a run: see the table below
    tlapm SrpProofs.tla                         # the proofs of one module

## The system

The library is a set of C objects, each a struct with members that are
functions (`srv->start(...)`), built on two value types, `struct bytes` and
`struct mpi`. There are no threads. Three things make its behaviour hard all the
same: objects outlive calls, and the calls of different callers may come in any
order; every allocation may fail, and a call that fails leaves part of its work
behind; and one protocol runs between two processes over TCP.

| Component | State | Operations | Interacts with | What is hard | What makes it correct |
|---|---|---|---|---|---|
| SRP (`srp.c`) | the server's key and pending token, each client's key | `start`, `finalize`, `authenticate`, `free` | calls from client to server, `mpi`, SHA-256, HMAC | calls of several clients interleave between `start` and `finalize`; failures between the two | of the clients of `srp_client_new()`, only who knows the password ends with the server's key; a token is tried once; a settled key is one both share |
| SRP over TCP (`srp.c`, `srp_server.py`) | a socket per client, a backlog, the server's loop | `connect`, `send`, `recv`, `close`, `accept` | two processes, streams without frames | partial reads, resets, refused connections, one client at a time | success was verified on this connection; no socket leaks; every call returns; the server lives |
| SSRP (`ssrp.c`) | as SRP | as SRP | as SRP | as SRP, and another formula for S | as SRP; both sides compute one S |
| Diffie-Hellman (`dh.c`) | a key per client | `exchange`, `receive`, `challenge`, `echo`, `free` | two clients call each other's members | an exchange that fails when one side has its key; stale keys of older exchanges | two clients share a key only by a successful exchange between them, and `challenge` tells |
| Extended gcd, modular inverse (`mpi.c`) | six bignums in nested loops | `mpi_egcd`, `mpi_mod_inv` | bignum primitives | signs and parity of the coefficients, zero arguments | it ends with the gcd and its coefficients; the inverse is one |
| Number theory (`mpi.c`) | - | random ranges, Miller-Rabin, probable primes, cube root | bignum primitives | empty ranges, off-by-one of a root | what each returns |
| Bignum primitives (`mpi0.c`) | a `BIGNUM` | one library call each | OpenSSL | NULL arguments | pure wrappers |
| RSA (`rsa.c`) | two key structs | `keygen`, `encrypt`, `decrypt` | `mpi` | ownership of a dozen numbers on every failure path | decryption inverts encryption; every number has one owner |
| MT19937 (`mt19937.c`) | 624 words and an index | `init`, `next`, seeding, the stream cipher | - | the twist is in place; a text longer than the state crosses it | the recurrence; the keystream is its bytes |
| Hashes (`sha1.c`, `sha256.c`, `md4.c`) | five, eight or four words | hash, hash with a given state | `bytes` | the padding at block boundaries | one block more exactly when the length does not fit |
| MACs (`mac.c`) | - | HMAC, secret-prefix MACs | hashes | keys longer than a block | HMAC's definition |
| Block modes (`ecb.c`, `cbc.c`, `ctr.c`, `nope.c`) | within a call: key, text, the block to chain, the error so far | encrypt, decrypt | a block cipher, `bytes` | a loop that goes on after an error; padding; a last block that is short or empty | the result is whole or NULL; decryption inverts encryption |
| AES (`aes.c`) | - | key schedule, block encryption and decryption | modes | tables, two directions that mirror each other | AES-128 as published; one direction inverts the other |
| Bytes (`bytes.c`, `xor.c`) | length and data | slices, puts, joins, padding, words, hex and base64 | all | `size_t` sums that wrap, the last unit of base64 | nothing read or written outside; round trips |
| Cookies (`cookie.c`) | a linked list with its count and tail | append, look up, encode, decode | `break_ecb.c` | links, count and tail must agree; the size of the text is computed before it is escaped | a list in order; decoding inverts encoding |
| Services of the challenges (`break_ecb.c`, `break_cbc.c`) | a profile, a comment | make and read an encrypted profile; write and verify encrypted comments | cookies, modes, AES, `bytes` | what a user writes passes through five components, and any of them may fail | what was written is read back and stays in its field |
| Programs of the challenges (the rest of `break_*.c`) | - | searches on the above | all | - | not part of what the library promises |
| Portability (`compat/`) | - | BSD functions | - | - | taken from OpenBSD |
| Test servers, tests | - | - | - | - | the stateless HMAC server and its vendored framework |

The hazards of this code, each at its line, are listed under `hazards` in
`PROJECT.json` with the properties that would catch them.

## Plan

The order is by what a test can reach least. All parts are done; what a part leaves is
said with it.

1. **SRP in one process**: `PasswordAgreement` (the promise), `Srp` (the code),
   `SrpProofs`. The core: shared state, interleaved calls, failures.
2. **SRP over TCP**: `SrpRemote`, `SrpRemoteProofs`; and `SrpArithmetic`, the numbers behind the
   symbolic keys of both, over `ModularArithmetic`.
3. **Diffie-Hellman**: `Dh`, `DhProofs`.
4. **Extended gcd**: `Egcd`, `EgcdProofs`.
5. **Number theory and RSA**: `NumberTheory`, the operators of `mpi.c`; `Rsa`, key
   generation as a sequence of steps that each may fail, with the ownership of its
   numbers as state; `PublicKey`, which puts RSA beside the arithmetic of SRP, since both
   rest on the same facts about primes; `RsaProofs`.
6. **MT19937**: `Recurrence` (the promise), `Mt19937` (the loops in place), `MtWords`
   (what happens inside a word), `Mt19937Proofs` (the refinement).
7. **Hashes and MACs**: `HashContext`, the streaming and padding of the three hashes;
   `Mac`, with every call failing in turn; `Hashes`, both; `HashContextProofs`.
8. **Bytes, modes and AES**: `Bytes`, `Encodings`, `Aes` as functions; `Modes`, the
   loops of the three modes one turn per step. `MtCrypt`, the stream cipher over
   `Mt19937`; `Digests`, the compression functions.
9. **Cookies and services**: `KvList` (the promise), `Cookie`; `Services`, which
   composes cookies, modes and AES as `break_ecb.c` and `break_cbc.c` do; `Conversions`,
   what the encodings and the parts of buffers promise over them; `ServicesProofs`, about
   bytes, encodings, modes, cookies and what the services return.

What is left to prove is said at the end of [Proofs](#proofs).

Abstract specifications: `PasswordAgreement` (refined by `Srp`), `Recurrence` (refined
by `Mt19937`, on its own and under `MtCrypt`) and `KvList` (refined by `Cookie`).
Compositions: `SrpRemote` composes the client half of `srp.c` with the server of
`srp_server.py` and the streams between them; it stands beside `Srp` and not above it,
since its server is another program. `MtCrypt` composes the stream cipher with the
generator; `Services` composes cookies, the modes and AES; `Conversions` extends it.

## Modules

### PasswordAgreement and Srp: `srp.c` in one process

`PasswordAgreement` states what `srp.h` promises: a server offers one session at
a time, only a client whose token the server accepts settles it, and it settles the
one it was offered. `srp.h` means the clients with the right credentials; which ones
`srp.c` accepts is `IsAccepted` of `Srp`.

`Srp` models one local server (`srvkey`, `srvtoken` are `srvinfo->key` and
`srvinfo->token`) and any number of clients (`clikey` is `client->key`).
`start()` and `finalize()` are public members, so the model lets the calls of
several clients interleave between them; each of the two runs to its end without
interruption, and so does the client's own computation, which touches nothing
shared. The actions:

| Action | Code |
|---|---|
| `AuthenticateFailsToStart`, `AuthenticateStarts` | `srp_client_authenticate()` up to the return of `start()`, with `StartFails` or `StartSucceeds`, the two outcomes of `srp_local_server_start()` |
| `AuthenticateGivesUp` | a failure in the client's computation, before `finalize()` |
| `AuthenticateIsRefused`, `AuthenticateSucceeds` | the rest, with `FinalizeRefuses` (its early returns) or `FinalizeCompares` (the comparison and what it leaves behind) |
| `RenewServer`, `RenewClient` | `free()`, and a new object in its place |

Keys are symbolic: a key is the record of what the shared secret S depends on.
That different inputs give different keys is the assumption on SHA-256; that
the two sides' formulas give the same S is not assumed but a field, `exact`,
which any client may find `FALSE`, and which `SrpArithmetic` explains. `caller`,
`tried`, `proved` and `from` are history variables: no action reads them.

S does not always depend on the password. The server computes `(A * v**u)**b % N`
(`srp.c:265-268`) without a check of A, which is 0 for an A of 0 or N whatever v is.
`Spoofing` is the set of clients that send such an A, those that
`srp_spoof_client_new()` of `break_srp.c` returns; they have no password, and the server's
key for them is `ZeroKey`, SHA-256 of 0, which they know. The server settles a session
with them, as `tests/test_break_srp.c:14-160` asserts of it. So what is checked is not that
the server accepts the password only: it is that it accepts a client of the identity it knows
that has the password or sends such an A (`IsAccepted`), and no other. That the password is
needed holds where every client is one of `srp_client_new()`, whose A is a power of g
modulo a prime and never 0 (`PasswordNeeded`, under [Proofs](#proofs)). `ssrp.c` has the
same formula and no check either (`ssrp.c:168-172`).

`ssrp.c` repeats the control of `srp.c` statement for statement; it has no module
of its own.

### SrpRemote: `srp.c` and `srp_server.py` over TCP

A client's step is the code up to and including one system call that may block or touches
a connection: `StartRefuses` (what fails in `authenticate()` and `start()` before the
previous socket is closed: memory, or an argument that is NULL), `Start` (with the
`close()` of the previous socket), `Connect`, `SendHello`, `RecvOffer`, `SendToken`,
`RecvVerdict`, `Free`, and the failures `ConnectFails`, `StartFails`, `FinalizeFails`. A
server's step is `Accept`, `RecvHello`, `RecvToken` (each with the `send` that follows it,
which does not block on messages this short), or `ServerReset`, the exception that ends
it. The streams, `close()` and resets are the kernel's; they are modelled from how both
programs use them and marked external in the map.

Neither side frames its messages, so `recv()` may return any part of a message;
messages are sequences of the parts at which a cut changes what the receiver
does. `disturbed` records that a message was cut, a connection failed or memory
ran out, so that a property can speak of the behaviours where nothing did.

All clients are of `srp_client_new()`. One of `srp_spoof_client_new()` would be sent OK
without a password (`srp_server.py` does not check A either, as `tests/test_break_srp.c`
asserts of it too); what the server accepts is the subject of `Srp`, and here it is that
the client's result and the server's verdict are the same.

### ModularArithmetic and SrpArithmetic: the numbers of both schemes

`ModularArithmetic` has `ModExp`, `ModMul` and `ModAdd`, which are OpenSSL's and which SRP,
RSA and the primality test share. `SrpArithmetic` is one agreement of `srp.c` or `ssrp.c`,
modulo a prime, for every private number and every hash value, as constant operators: which
function the code calls, in which order and with which modulus.

### Dh: `dh.c`

Any number of clients that call `exchange()` and `challenge()` on one another, in
any order. A call runs to its end; what it leaves behind depends on where memory
ran out: before anything was sent (`ExchangeFailsEarly`), inside the other side's
`receive()` (`Receive`) or after it (`Exchange`). A secret is represented by its
exchange, since each draws its private numbers anew. The clients are those of `dh_new()`
with a p and g that are good: the one in the middle and the values of g of `break_dh.c`,
which make secrets anybody can tell, are not modelled.

### Egcd: `mpi_egcd()` and `mpi_mod_inv()`

One step is one iteration of one of the nested loops, with the variables of the
C function; `RunsOutOfMemory` is the `goto cleanup` of every bignum call. The
bignums are unbounded, as the library's are. `Rshift1` shifts the magnitude, as
`BN_rshift1()` does for negative numbers.

### NumberTheory, Rsa and PublicKey: `mpi.c` and `rsa.c`

`NumberTheory` has the functions of `mpi.c` that are more than one library call:
the random ranges (as the set of numbers that may be drawn, and NULL when it is
empty), `mpi_probable_prime()` (as the set of numbers it may return: trial
division by the first primes, then Miller-Rabin with any bases), and Newton's
cube root.

`Rsa` runs `rsa_keygen()` one block at a time, up to each check for NULL: `Start`,
`DrawPrimes` (one iteration of the loop) and `Coprime` (its condition), `Exponents`,
`Modulus`, `KeysFail` or `KeysSucceed`; the cleanup calls `mpi_free()` once per step
(`FreeLocal`, `at` says for which variable) and leaves the variables pointing to what they
pointed to, until `LeaveKeygen` returns; `FreeKeys` is the caller. So the second
`mpi_free(ndup)` (`rsa.c:101` after 96) is seen as the use of a freed number that it is.
Every allocation may fail: `Allocated` is what one does to the variables and the counts. A
number is the identity of an allocation with its value, and `frees` counts how often each
was given to `mpi_free()`: two variables, or two keys, may hold one number. `Encrypt` and
`Decrypt` are operators on the keys, since they keep no state. `PublicKey` has no actions
of its own: it states the properties that `Rsa` and `SrpArithmetic` take from
`NumberTheory`.

### Recurrence, Mt19937 and MtWords: `mt19937.c`

`Recurrence` is the promise: a series in which every word follows from three
earlier ones, and numbers made of its words in order, each once; it keeps a window
of the last N words. `Mt19937` is the code: `Seed` and `SeedNext` (the loop of
`mt19937_seed()`), `FromState`, `NextUint32`, `TwistNext` (one iteration of
`mt19937_twist()`), `TemperWord`, `Free`. The twist overwrites the state it reads
from, one word per step: the refinement maps the state in the middle of a twist to
the window turned by i places. What happens inside a word is three constant
operators, which the proofs leave open and `MtWords` gives for TLC, for words of
any size, with the parameters of the C macros.

### HashContext, Mac and Hashes: `sha1.c`, `sha256.c`, `md4.c` and `mac.c`

`HashContext` is `sha1_hash_ctx()`, `sha256_hash_ctx()` and `md4_hash_ctx()`, which
differ in what they refuse (MD4 nothing) and in the order of the bytes of the
length; `algorithm` says which one runs. A call is `Call` (by the hash functions,
with the initial state, or by a caller that resumes a state), `Refuse` or `Accept`,
`CompleteBlock` for each block of the message, `Rest` or `RestFails`, `Spill` when
the length does not fit, `Length`. The compression function is symbolic: a state is
the sequence of the blocks that led to it, so that two are equal when the same
blocks were processed. `PaddedByte` is `padding()` of `break_mac.c`, which computes
the padding in another way: the model is checked against it.

`Mac` has `hmac()` and the secret-prefix MACs as operators of their arguments and of
the set of calls that fail, for the keys `MacKeys` and the messages `MacTexts`.
`Hashes` puts both together, and states of MACs, which keep no state, what holds of
every key, message and set of failures.

`Digests` has the three compression functions and `sha1_hash()`, `sha256_hash()` and
`md4_hash()` as functions of a message: the words, rotations, schedules and rounds of the
code, a word as two halves of 16 bits since TLC's integers have 32 with a sign.

### MtCrypt: the stream cipher of `mt19937.c`

`Begin` seeds a generator with the key, `BeginFails` is a call that returns NULL before it
draws a number, `Draw` takes its next number when the bytes of one
are used up, `CryptByte` mixes one byte, `End` frees the generator; between them the
generator takes its own steps, those of `Mt19937`. A text to encrypt may be the result of
the call before, so that decrypting is reached.

### Bytes, Encodings and Aes: `bytes.c`, `xor.c`, `aes.c`, `nope.c`

A `struct bytes` is the sequence of its bytes and NULL is a constant of its own.
Functions are operators that return what the C function returns when memory does not
run out; a caller adds the other outcome with `MayFail`. A sum of an offset and a
length is taken modulo `SizeWrap`, as a `size_t` is, before it is compared. What an access
outside of a buffer would give is `Outside`, which is no byte. `Aes` is the cipher
itself: its tables by the arithmetic they hold, which `CipherIsAes` compares with
the published blocks. `Conversions` has no state of its own: it says, of any samples,
words, units and buffers, what is read back (`EncodingsInvert`) and what parts are
(`SlicesAreExact`), in the first state of `Services`.

### Modes: `ecb.c`, `cbc.c` and `ctr.c`

`Begin` is a call up to its loop: what is refused, the allocations that fail, or the
loop. Each turn of a loop is an action: `EcbEncryptBlock`, `EcbDecryptBlock`,
`CbcEncryptBlock`, `CbcDecryptBlock`, `CtrBlock`. The code does not leave its loop on an
error, it adds every result to `err` and goes on with the buffers as they are, a block
that could not be allocated included; the model does the same (`After`, `Turn`). `Finish`
is what follows the loop, and the cleanup. `Reply` is a caller that decrypts what it was
returned, `Leave` one that does not.

### KvList and Cookie: `cookie.c`

`KvList` is what `cookie.h` promises: members in the order they were appended, their
count, the member at a position, the first with a key. `Cookie` has the linked list: a
pointer is a place in `node`, and the count, the head and the tail are kept apart as in
the struct. `cookie_decode()` is one token per step (`CookieDecode`, `DecodeToken`,
`DecodeEnds`), each of which may run out of memory; nobody sees its cookie until it is
done, which is the refinement mapping.

### Services: `break_ecb.c` and `break_cbc.c`

The functions of the challenges that stand for a service, as they compose the components
above: `ecb_cut_and_paste_profile_for()` (allocate a cookie, append three members, encode,
encrypt, free), `ecb_cut_and_paste_profile()` (decrypt, decode),
`cbc_bitflipping_encrypt()` (quote, join, encrypt) and `cbc_bitflipping_verifier()`
(decrypt, search). The calls they make are the steps of `Cookie` and `Modes`,
under AES. `program` says which of four programs runs: one of these two, a caller of the
modes, or a user of cookies.

## Runs

| Run | Module, config | Question | Distinct states |
|---|---|---|---|
| `srp` | `MCSrp`, `MCSrp.cfg` | does the local server keep its promises to interleaved callers? | 82880 |
| `srp_forgets` | `MCSrp`, `SrpForgets.cfg` | does every `finalize()` forget the token? (no) | |
| `srp_remote` | `MCSrpRemote`, `MCSrpRemote.cfg` | is success over TCP what the server verified, does nothing leak or hang? | 132223 |
| `dh` | `MCDh`, `MCDh.cfg` | who shares a key with whom after any exchanges? | 7482 |
| `egcd` | `MCEgcd`, `MCEgcd.cfg` | does it end with the gcd, its coefficients, an inverse? | 46100 |
| `egcd_zero` | `MCEgcd`, `EgcdZero.cfg` | does it return for a = 0? (no) | |
| `egcd_negative` | `MCEgcd`, `EgcdNegative.cfg` | is the inverse never negative? (it may be) | |
| `mt19937` | `MCMt19937`, `MCMt19937.cfg` | are the numbers those of the recurrence, and a text mixed with their bytes, in order? | 402364 |
| `rsa` | `MCRsa`, `MCRsa.cfg` | is nothing but `ndup` used after it was freed, is all freed on success, do the keys fit, when do both sides of SRP compute one S? | 14935 |
| `rsa_fails` | `MCRsa`, `RsaFails.cfg` | does a failure free every number once? (no) | |
| `hashes` | `MCHashes`, `MCHashes.cfg` | what do the hashes process, what is a MAC made of? | 2807 |
| `services` | `MCServices`, `MCServices.cfg` | are modes, cookies and what is built of them whole, whichever call fails? | 112824 |

Type invariants are proved rather than run (`TypeCorrect` of a proof module) where there
is a proof of one.

**srp.** `TokenIsTheKeys`, `OneTry`, `SettledKeyWasProved` and `OnlyAcceptedAuthenticate`
are invariants, `AuthenticatedMeansShared` and `SettledSurvivesFinalize` say what a step
may never do, and `ImplementsAgreement` is the refinement. Five clients (two right ones,
which can disturb each other, one with a wrong password, one with a wrong identity, and
one without a password whose A is 0 or N) and three sessions: a session can be replaced by
a second one and that one by a third, so that an old token meets a pending and a settled
session that are not its own.

**srp_remote.** `SuccessWasVerified`, `NoSocketLeaks` and
`UndisturbedSucceeds` are safety; `AuthenticateReturns` and `ServerGetsBack`
liveness. Three clients and three calls of `authenticate()`, each of which opens at most one
connection: one served, one in the backlog
(of one, as `listen(0)` leaves it) and one that waits in `connect()`; or one
client three times. Deadlock is not checked, since the run ends when the
calls are used up.

**dh.** Three clients, so that one can be left with a stale key, and three
exchanges, so that a key can be shared, replaced, and the replacement fail.
Clients are interchangeable: the symmetry is sound since no property is
liveness.

**egcd.** Every pair of numbers from 1 to 40: powers of two in one, in both or
in neither, coefficients of both signs. Deadlock is not checked, since the
function returns.

**mt19937.** Five words of three bits and a far word three places away: like 397 of
624 it is more than half the state away, so that words are mixed in both from the
part of the state that is old and from the part that is already new. Every seed,
states in which each word can be told from the others, and indexes up to one past
the end. A number has three bytes of one bit; the text of `CryptIsTheSeries` has 17, so
that it takes a second twist and ends within a number. Deadlock is checked: a generator
always goes on.

**rsa.** Primes of seven bits, trial division by 2 and 3 and one round of
Miller-Rabin: small enough for a composite number (125 = 5 * 5 * 5) to pass as a
probable prime with an unlucky base, so that `WitnessesAreSound` says something
about numbers that are not prime. Two iterations of the loop, so that it frees the
numbers of one; bytes of seven bits, so that a modulus has two. `WitnessesAreSound`
and `CubeRootsAreExact` are about operators only, for every number up to a bound (1400 is
past the cubes of 11 numbers; for 0 it is that `mpi_cbrt()` fails, `mpi.c:475`, although
`mpi.h:415` says "non-negative"): the initial state is where they are looked at.
`ArithmeticAgrees` is looked at there too: N = 23, g = 5 (a generator), k = 3, hashes
below 4 (4 * 4 <= 23 as 2^512 <= N in the code), every a, b, x and u. It says exactly when
the two S of `srp.c` agree, and that those of `ssrp.c` always do; the exceptions do occur at
this size. Deadlock is not checked, since key generation ends.

**hashes.** Blocks of eight bytes with a length of three: messages of 0 to 25 bytes
cross every boundary (no room for the length, for the first byte of the padding, a
block exactly full) with up to three complete blocks, and 0 to 7 blocks come
before. Bytes of two bits: the length in bits wraps at 64, as at 2^64 in the code,
so that lengths of 32 bytes and more are refused by SHA and wrap in MD4, and 64
bytes wrap the length of the context as well. `MacIsWholeOrNull` is looked at in the
state before any call: keys of 0 to 16 bytes, every set of calls that fail. Deadlock is
checked.

**services.** `ModesWholeOrNull` and `ModesRoundTrip`: texts of 0 to 33 bytes, one byte
short of a block, a block, one more and two, in every mode, under both ciphers; texts that
are no whole number of blocks, malformed paddings (0, longer than a block), ivs and keys
that are missing or of the wrong length; and each allocation of each turn failing.
`DecodeInvertsEncode` and `ImplementsKvList`: up to three members, one for the head, one
for the tail and one between, with keys and values that hold separators, and texts with
empty tokens, without values and cut by a NUL. `ProfileReadsBack` and
`CommentsKeepTheirFields`: inputs that are missing, empty, ordinary, and made of the
separators. `EncodingsInvert`, `SlicesAreExact`, `CipherIsAes` and `DigestsAreRight` are
about functions and looked at in one state: every length a unit of an encoding may be
short of (`Samples`, `WordTexts`, `Units`), every slice in and around buffers of up to six
bytes, the blocks and digests of FIPS 197 and of the RFCs that the unit tests expect.
`SizeWrap` is 1024, far from every sum here: `SlicesAreExact` is not about sums that wrap,
which the code does not refuse (a hazard in `PROJECT.json`). Deadlock is not checked,
since a service ends.

### Fairness

`SrpRemote` assumes weak fairness of each step of a process: a process that is
not blocked runs. It further assumes that `connect()` returns, as the kernel sees
to it with its timeout, and that a program frees a server it no longer uses
(`Free`; a next `start()` closes the socket too): `finalize()` leaves the socket
open when it fails, and without this the sequential server waits for a
client that has given up for ever. No fairness is assumed of failures.
`Egcd` assumes that the program goes on (`WF_vars(Step)`). Nothing else assumes
fairness.

## Proofs

TLAPS proves, for every value of the constants that satisfies the named
assumption:

- **`SrpProofs`** (`SrpAssumption`: `MaxSessions` is a number, `Spoofing` are some of the
  clients and every other client has a password, the key of S = 0 is the key of no other S,
  `NULL` is neither a key nor a session): every invariant and both
  action properties of the run, and that `Srp` implements `PasswordAgreement`
  (`Implements`); from that, `AgreementHolds` carries the abstract invariants over
  to the code: an established session belongs to one client, which the server accepts for
  its password or for an A of 0 or N. `PasswordNeeded`: if no client is one of
  `srp_spoof_client_new()`, whoever is returned 0 has the identity and the password. The
  inductive invariant `IInv` is the conjunction of the
  invariants with what they need of each other: `OneTry` alone is not inductive,
  since it takes `TokenIsTheKeys` to know that a new session's token is new, and
  `OnlyAcceptedAuthenticate` takes it that the key is the one made for the caller of the
  last session, whose identity is right (`KeyIsOffered`), and that a client in the middle of
  a call that finds its session still there is that caller (`OfferIsOwn`): `ZeroKey` does not
  tell whose it is. For the refinement a session is settled by one client
  (`OneClientPerSession`).
- **`DhProofs`** (`DhAssumption`, `NullAssumption`): every property of the run, for any
  number of clients and exchanges. `SharedWasAgreed` is not inductive: it takes
  the invariant that a key belongs to one of the two sides of its exchange, and
  that the initiator's is only kept when the exchange returned 0.
- **`EgcdProofs`** (`EgcdAssumption`: the arguments are natural numbers): `TypeOK`,
  `Bezout` and `ResultIsGcd` for all arguments; that the result is the greatest
  common divisor (`GreatestCommonDivisor`); that what `mpi_mod_inv()` returns
  is an inverse (`InverseCorrect`), and that it returns one exactly when there is one
  (`InverseDecided`). The inductive invariant adds to the two
  combinations that x and y are not both even, without which the coefficients
  could not always be made even, and that the common divisors of u and v are those of x
  and y. The parity argument is a chain of lemmas (`Halving` to
  `HalvedKeepsCombination`).

- **`Mt19937Proofs`** (`MtAssumption`: at least two words, the far word among them, seeds
  and states made of words, indexes natural numbers; `WordAssumption`: the three
  operators return words): `TypeOK`, that is, no index leaves the state, and
  `Implements`: every step of the code is a step of the recurrence or none of it.
  The core are `WindowTurned` and `TwistGenerates`: when word i of the state is
  overwritten, the two other words it is made of are where the turned window has
  them, whether the twist has reached them or not. The inductive invariant is the
  type invariant with the equation every seeded word satisfies while seeding.
  `CryptedWithTheSeries` (`CryptAssumption`: a number has at least one byte): every byte
  of an encrypted text is the text's mixed with its part of the number due there. The
  invariant `Mixing` counts the numbers drawn for the bytes so far (`Drawn`); from that
  count and the index follows which word of the key's series the state begins with
  (`Base`), and in the middle of a twist the first i words are N further on.

- **`HashContextProofs`** (`HashAssumption`: sizes are positive numbers, and a block has
  room for more than a length): no step reads past the message (`TypeCorrect`), and
  what is processed is the padded message (`ProcessesThePadded`). The invariant says
  that every block so far is the one `PaddedByte` has at its place, and what the
  padded block holds in each step; the rest is arithmetic: quotients and
  remainders, and that a length may be taken modulo 2^64 before it is turned into
  bits (`TimesRemainder`). `LengthIsReadBack`: the bytes of the length, in the order of
  each algorithm, are the number of its bits. That the powers of the size of a byte are
  numbers, each the one before it times that size, is part of the assumption, since the
  provers know nothing of exponents. `MacsAreWhole` (`MacAssumption`: a hash is no longer
  than a block, keys and messages are sequences; hypothesis `NullIsNoText`: NULL is no
  sequence): `hmac()` is RFC 2104's or NULL, for every key, message and set of failures,
  and a secret-prefix MAC verifies for its own message only.

- **`RsaProofs`**, of the ownership in `rsa_keygen()` (`RsaAssumption`; hypothesis
  `NullIsNoNumber`: NULL is neither a number nor a key): `UseAfterFreeOfNdupOnly` (the
  second `mpi_free(ndup)` in the cleanup is for a freed number exactly when a key could not
  be allocated, and nothing else is used after it was freed) and `SuccessLeaksNothing`, for
  primes of every size and any number of iterations of the loop. The invariant is that the
  books balance (`Balanced`): every number is held by exactly one owner, a variable or a
  key, and was not freed, or by none and was freed once. Allocating and freeing keep them
  balanced (`AllocatedBalances`, `FreedBalances`), and so does moving numbers to the keys,
  which sets the variables to NULL. In the cleanup the books are those it began with and
  what the first `at - 1` entries of its list freed since, `ndup` perhaps twice (`Books`);
  once it has returned without keys they need not balance (the finding below), and the
  invariant says only that no key is left. Of the numbers, without any bound: the proofs
  first build the number theory they need. `ModExp` is a power (`ModExpIsPower`, though it
  goes over the bits of the exponent), a prime that divides a product divides a factor
  (`NoZeroProduct`), and Fermat's theorem holds (`Fermat`): the multiples of a unit by the
  powers of b are a class of as many units as the order of b, the classes are disjoint and
  every unit is in one, so that the order divides p - 1. From that, `SameSecrets` (the
  assumption of `SrpArithmetic` is that N is prime): the secrets of both sides are one in
  `ssrp.c` always, in `srp.c` exactly when the client's exponent is below N or g**b is 1,
  which is the property of the run, for every N, g, k and size of a hash.
  `KeysInvertEachOther`: the invariant `ValuesInv` says what each variable of `rsa_keygen()`
  holds, so that the keys fit (e * d is 1 modulo the totient), and decryption then inverts
  encryption below the modulus by Fermat's theorem modulo either prime; what
  `mpi_from_bytes_be()` and `mpi_to_bytes_be()` do to bytes is inverted up to the zero bytes
  in front. `RsaInvertsItself` has the other half, that some text is not given back when one
  prime was drawn twice. `CbrtIsExact`: a turn of Newton's iteration that does not end it
  never goes below the root (`2a + n/a^2` is at least three times the root, by a tangent to
  the cube) and comes closer, and the first guess is above the root; for 0 there is no root
  but NULL. `PrimesPass`: modulo a prime, 1 has no root but itself and -1, so that the
  squares of the Miller-Rabin test come to 1, by Fermat's theorem, only over -1; from that,
  `PrimesAreProbable`.

- **`ServicesProofs`**, of cookies (`CookieAssumption`; the theorems add `NullIsNoValue` as
  a hypothesis: NULL is none of the values a pointer may point to): `CookieImplements`, that
  every step of `cookie.c` is a step of `KvList` or none of it, for all keys, values and
  texts. The invariant `ListInv` (`CookieIsAList`) is that count, head, tail and links
  agree, in the middle of a decoding as well; `AtOfList` and `GetOfList` say what following
  the links then finds, `AppendedIsList` that appending keeps it. `DecodedIsWhatWasEncoded`
  (`CookieAssumption` further says that keys and values are strings, without a NUL before
  their end, and that what is decoded is bytes or NULL): the memory `cookie_encode()`
  allocates is never too small, and `cookie_decode()` reads back what was written. The size
  is counted member by member before anything is escaped (`EncodedSizeIs`), and what is
  written of each member is never longer than what was counted of it (`MemberEncoded`), so
  no `strlcat()` truncates. The text is then read from its end: what `strtok_r()` makes of a
  text, a separator and one more token is the tokens of the text and that one
  (`TokensOfJoined`, by going back over the recursive function that `Tokens` is), and a
  token is split where its key ends, since escaping left no other '=' in it (`TextIsRead`).
  The invariant `TextInv` says that the text has a token of each member it was made of
  (`WrittenInv`), that a cookie that is being filled has the members of the tokens taken so
  far (`TodoInv`), and that one that was filled has those of all (`DecodedInv`). Of bytes
  (`BytesAssumption`: `SizeWrap` is a positive number and NULL is no sequence of bytes):
  `SliceIsExact` and `SputIsExact` (what is read and written is what was asked for, for
  every buffer, offset and length whose sum does not wrap, or NULL), `PaddedIsWholeBlocks`
  and `UnpaddedInvertsPadded` (PKCS#7, for every size of a block up to 255). Of the cipher
  (`AesAssumption`): `DecryptInvertsEncrypt`, AES-128 as the code computes it decrypts every
  block it encrypted, under every key. Each round backwards undoes what a round did, up to
  the substitution and the shift, which the next one undoes (`RoundUndone`); ten of them are
  counted through (`RoundsInvert`), over the recursive functions the model has for the
  rounds and for the key schedule (`Iterated`, `ScheduleIs`). That a column is mixed back is
  shown from the product of the two matrices by exchanging two sums (`Transposed`), which
  takes it that products distribute over sums and that an exclusive or is commutative and
  associative; the latter is proved of its table bit by bit (`XorTableIs`). `AesAssumption`
  says what the tables hold, byte by byte: `InvSbox` undoes `Sbox`, products distribute over
  sums, the two matrices are inverse. It has no parameters, so there is nothing it could
  rule out: TLC evaluates it, for all the bytes, on the run `services`. Of the modes
  (`ModesAssumption`: a call's arguments are strings of bytes or NULL, a nonce is the eight
  bytes of its `uint64_t`, a text with its padding is shorter than a `size_t` counts to):
  `NothingHalfDone`, that nothing is returned of a call in which memory ran out, and
  `LengthIsRight`. The invariant is that memory that ran out is remembered in `err`
  (`ErrIsKept`): the code goes on after an error, and has to reach the one check behind the
  loop. `WholeOrNull` and `RoundTrip` say what is in the texts returned, for every text,
  key, nonce and mode, with both ciphers. The inductive invariant `WholeInv` says of the
  loop (`LoopIs`) that the blocks before the turn correspond to those of the input as the
  mode defines it (`Corresponds`) and that what is chained is what the definition chains
  (`Chained`); of a finished call (`DoneInv`) that all the blocks correspond, the last one
  that is short too (`JoinedBlocks`); of a reply (`SentInv`) that the text being decrypted
  corresponds to the one sent. That a text is given back follows from the last two: in ctr
  it is because the same stream is added twice (`StreamedBack`), otherwise because the
  blocks decrypt to the padded text (`DecryptInvertsEncrypt`) and padding is removed again
  (`UnpaddedIs`). Of the services (`ServicesAssumption`: the service's key and iv have the
  length of a key and of a block, what users write is characters or NULL, and with room to
  spare shorter than a `size_t` counts to): `FieldsAreKept` and `ProfileIsReadBack`. For
  comments, `CommentsInv` says that the text in the modes is the quoted one between its
  prefix and suffix, and, while it is being decrypted, that the call decrypts what that text
  was encrypted to (`SentIs`); quoting leaves no separator in the middle, so the separators
  of the result are those of the prefix and suffix, at every length. For profiles,
  `ProfilesInv` has one part for each stage between `kv_cookie_init()` and what is decoded:
  the members so far, the text made of them, the text under the cipher, the tokens taken
  from it. `strtok_r()` is given the decrypted bytes, which are read up to their end only
  (`TokensBeforeNul`), and `DecodedIsWhatWasEncoded`'s lemmas then give the members back. Of
  the conversions (`ConversionsAssumption`: samples, words and buffers are bytes, NULL is no
  sequence of words either, offsets and lengths do not wrap when they are added):
  `Base64IsReadBack`, `ConversionsInvert` and `PartsAreExact`, for contents and buffers of
  every length. An encoding is read back unit by unit, with the length of the text that its
  padding tells (`UnitsAre`, `SextetsAre`); conversely a unit of any four characters is
  refused, or is their number in base 64 without the bits of no byte (`UnitIsTheNumber`). A
  word is its digits in base 256, and the quotients by the powers of the base are these
  digits (`DigitsOfNumber`, from `QuotientIs`). The slices with a jump between them are a
  recursive function over the offset: it is shown to exist from the end of the buffer
  backwards (`SlicesExist`), and from there too that the i-th byte of its result is the one
  at `PlaceOf(i)`, and that the next one would be outside (`SlicesAreGood`).

- **`SrpRemoteProofs`** (`RemoteAssumption`: `MaxConns` is a number, the backlog is
  positive, there is a client; the clients are of `srp_client_new()`): `SuccessVerified`,
  `SocketsAreKept` and `UndisturbedSuccess`, for any number of clients and connections and
  any backlog. The invariant `IInv` says which of the two variables of a client (`s` or
  `sock`) holds its connection, and where in the code (`Holding`); that a connection nobody
  has opened yet is unknown to everybody (`Fresh`); and that the server's verdict is only in
  the stream to a client it verified, the right token only in the stream from a client that
  has the password (`ProofInv`). Every step but `connect()` is a `StreamStep`: it keeps who
  holds what, opens nothing, and sends what counts only by who may, so each action is
  checked once against that and the invariant follows. `UndisturbedSuccess` adds that both
  ends of a connection are in step (`InStep`) as long as nothing disturbed them: for each
  place a client is in, what is in the two streams and where the server is, if it serves
  that connection or still has it in its backlog.

Where a definition of the model is a recursive function (the numbers of a key, the lookups
in a list, the bytes of a length), induction is replaced by the smallest number for which
the claim would fail (`Smallest`, from the library's theorem that the numbers are well
founded); this is how the functions are shown to exist and to be what they should.

Only model-checked: liveness (`Terminates`, `AuthenticateReturns`, `ServerGetsBack`),
which is out of the prover's reach here; the half of `WitnessesAreSound` that is about
composite numbers, of which at most a quarter of the bases are liars: that takes the structure
of the groups of units modulo every composite number, where `PrimesPass` takes only Fermat's
theorem; and what the digests and the cipher compute
(`DigestsAreRight`, `CipherIsAes`), which are published values for particular inputs,
a computation and not a theorem.

## Findings

- `srp_forgets`: `srp.h:46` says that the pending token is forgotten by
  `finalize()` on success and failure. A `finalize(NULL)`, which a client whose
  `hmac_sha256()` failed does call, returns before it gets there (`srp.c:326`).
- `egcd_zero`: `mpi.h:432` says that `mpi_mod_inv()` returns NULL when a is not
  invertible. For a = 0 it does not return: the inner loop at `mpi.c:593` halves
  0 for ever.
- `egcd_negative`: `mpi.c:695` says "If the inverse is negative, add m to it". The
  coefficient may be less than -m, and the result still negative:
  `mpi_mod_inv(20, 27)` is -4. Congruent, but not what a caller that takes it for
  a number below m expects. How far it may be from that range grows with m: for 16387 and
  65512 it is above 2 * m, so `InverseIsCongruent` claims no range.

- `rsa_fails`: `mpi.h:431` says of the number `mpi_mod_inv()` returns that it
  should be passed to `mpi_free()`. When `rsa_keygen()` fails, its cleanup frees `ndup` twice
  (`rsa.c:96` and 101) and `d` never. `OnlyNdupUsedAfterFree` of the run `rsa` says that this
  is the one use of a freed number there is, and exactly when it happens.

In `srp.c` the client's exponent a + u * x is reduced modulo N, where the order
of g divides N - 1. `SecretsAgree` says precisely when it matters: when the sum
reaches N, which at 1536 bits happens for less than one a in 2^1023.

## Not modelled

- The bignum primitives of `mpi0.c` that are one library call and its error check, and
  the wrappers of `mpi.c` that duplicate a number and call another function: there is
  no control to model.
- `ssrp.c` has no module of its own: its control is that of `srp.c`, its arithmetic is in
  `SrpArithmetic`.
- The programs of the challenges: the rest of `break_*.c` are searches on purpose-built
  inputs, without state between calls, and promise nothing that other code relies on.
- Other parameters than the good ones: the g, p and A of `break_dh.c` and `break_ssrp.c`. The A
  of `break_srp.c` is in `Srp`, not in `SrpRemote`.
- The portability functions and the web framework are other projects' code; the stateless
  HMAC server compares two strings; the tests and the build.
- `SIGPIPE`, which ends a client that sends on a connection closed by the server,
  is modelled as a failed `send()`.
