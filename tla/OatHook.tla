------------------------------- MODULE OatHook -------------------------------
(***************************************************************************)
(* The header interceptor liboat_hook.so (src/dex2oat/src/main/cpp/        *)
(* oat_hook.cpp), loaded by LD_PRELOAD into the relaunched dex2oat.        *)
(*                                                                         *)
(* The OAT key/value store is modelled byte by byte: a byte is NUL or a    *)
(* character of a small alphabet, a key or a value is a sequence of such   *)
(* characters.  mem is the store region followed by the memory that       *)
(* happens to lie behind it; size is the uint32 length field in front of   *)
(* the store.  One call of SpoofKeyValueStore is a loop; each iteration    *)
(* of that loop is one step of the model, so the breaks, the in-place      *)
(* return and the final rebuild are separate actions.  ART is the          *)
(* environment: it calls the hooked getter / checksum function a bounded   *)
(* number of times.                                                        *)
(***************************************************************************)
EXTENDS Integers, Sequences, SequencesExt, FiniteSets, TLC

CONSTANTS
  NUL,            \* the byte 0
  Space,          \* the byte ' '
  CmdLineKey,     \* art::OatHeader::kDex2OatCmdLineKey, a sequence of chars
  NonDetKeys,     \* keys of kNonDeterministicFieldsAndLengths
  ParamToRemove,  \* kParamToRemove, "--inline-max-code-units=0"
  BinaryPath,     \* g_binary_path, the DEX2OAT_CMD the launcher exported
  InitStores,     \* the key/value stores dex2oat can hand to the hooks
  Behind,         \* what the memory right after the store can hold
  HookedSymbol,   \* the symbol lsplt can hook in this dex2oat: "getter" or "checksum"
  MapFound,       \* whether /proc/self/maps has a "bin/dex2oat" image
  CharRank,       \* byte order used by std::string comparison (std::map order)
  FdArg,          \* /proc/self/fd/<stock_fd>, the argv[0] dex2oat sees
  InstalldArgs,   \* argument lists (argv[1..]) installd can pass dex2oat
  MaxCalls        \* bound on the calls ART makes to the hooked functions

ASSUME HookedSymbol \in {"getter", "checksum"}
ASSUME MapFound \in BOOLEAN
ASSUME MaxCalls \in Nat \ {0}

VARIABLES
  mem,       \* bytes from the store start: the store, then what follows it
  size,      \* *store_size_ptr
  hook,      \* which hook initialize() committed: "none", "getter", "checksum"
  pc,        \* "load" (constructor not run), "idle", "parse" (inside SpoofKeyValueStore)
  ptr,       \* SpoofKeyValueStore: ptr (1-based index into mem)
  storeEnd,  \* SpoofKeyValueStore: store_end (index one past the store)
  newMap,    \* SpoofKeyValueStore: new_store_map, a function key -> value
  modified,  \* SpoofKeyValueStore: store_modified
  calls,     \* calls ART has made to a hooked function
  before,    \* history: the pairs the store held when the running call began
  oob        \* history: a byte at or past store_end has been read

vars == <<mem, size, hook, pc, ptr, storeEnd, newMap, modified, calls, before, oob>>

-----------------------------------------------------------------------------
(* Strings and the command line.                                           *)

\* std::string_view::find(kParamToRemove) != npos
ContainsSub(s, t) ==
  \E i \in 0..(Len(s) - Len(t)) : SubSeq(s, i + 1, i + Len(t)) = t

\* The "Simple split by space" loop of process_cmd: current is the token
\* being built, tokens the ones pushed so far.
RECURSIVE SplitBySpace(_, _, _)
SplitBySpace(s, current, tokens) ==
  LET pushed == IF current = <<>> THEN tokens ELSE Append(tokens, current)
  IN  IF s = <<>> THEN pushed
      ELSE IF Head(s) = Space THEN SplitBySpace(Tail(s), <<>>, pushed)
      ELSE SplitBySpace(Tail(s), Append(current, Head(s)), tokens)

\* Mutant: a space is appended after every token, the last one included.
JoinTokens_TrailingSpace(tokens) ==
  FoldLeft(LAMBDA acc, t : acc \o t \o <<Space>>, <<>>, tokens)

\* Join tokens back into a single string, one space between tokens.
JoinTokens(tokens) ==
  IF tokens = <<>> THEN <<>>
  ELSE FoldLeft(LAMBDA acc, t : acc \o <<Space>> \o t, Head(tokens), Tail(tokens))

\* Mutant: process_cmd without step 2, the injected flag is kept.
process_cmd_KeepsFlag(sv, new_cmd_path) ==
  LET tokens == SplitBySpace(sv, <<>>, <<>>)
  IN  JoinTokens(IF tokens = <<>> THEN tokens ELSE [tokens EXCEPT ![1] = new_cmd_path])

\* process_cmd(sv, new_cmd_path)
process_cmd(sv, new_cmd_path) ==
  LET tokens   == SplitBySpace(sv, <<>>, <<>>)
      replaced == IF tokens = <<>> THEN tokens
                  ELSE [tokens EXCEPT ![1] = new_cmd_path]
  IN  JoinTokens(SelectSeq(replaced, LAMBDA t : t # ParamToRemove))

-----------------------------------------------------------------------------
(* The key/value store.                                                    *)

\* std::memchr(from, 0, store_end - from): index of the first NUL in
\* [from, end), or 0 (nullptr).
MemChr(m, from, end) ==
  LET hits == {i \in from..(end - 1) : m[i] = NUL}
  IN  IF hits = {} THEN 0 ELSE CHOOSE i \in hits : \A j \in hits : i <= j

\* The bytes m[from..to-1].
Bytes(m, from, to) == SubSeq(m, from, to - 1)

\* IsNonDeterministic(key)
IsNonDeterministic(key) == key \in NonDetKeys

\* std::string operator< : lexicographic by byte.
RECURSIVE KeyLess(_, _)
KeyLess(a, b) ==
  IF a = <<>> \/ b = <<>> THEN a = <<>> /\ b # <<>>
  ELSE IF Head(a) = Head(b) THEN KeyLess(Tail(a), Tail(b))
  ELSE CharRank[Head(a)] < CharRank[Head(b)]

\* WriteKeyValueStore: the bytes of the map, serialised in key order.
Serialize(m) ==
  LET keys == SetToSortSeq(DOMAIN m, KeyLess)
  IN  FlattenSeq([i \in 1..Len(keys) |->
                    keys[i] \o <<NUL>> \o m[keys[i]] \o <<NUL>>])

\* WriteKeyValueStore(key_values, store) writes over the first bytes of mem.
WriteKeyValueStore(m, store) ==
  LET out == Serialize(m)
  IN  [i \in 1..Len(store) |-> IF i <= Len(out) THEN out[i] ELSE store[i]]

\* The first index >= i whose byte is not NUL: the padding-skipping loop
\* while (*ptr == '\0') ptr++.  Every tail in Behind ends in a non-NUL.
SkipNul(m, i) == CHOOSE j \in i..Len(m) :
                   m[j] # NUL /\ \A k \in i..(j - 1) : m[k] = NUL

\* How a reader of the format (ART) sees a store of length sz: the key/value
\* pairs in order, NUL padding after a value skipped.  Used by properties.
RECURSIVE PairsFrom(_, _, _)
PairsFrom(m, i, end) ==
  IF i >= end \/ m[i] = NUL THEN <<>>
  ELSE LET ke == MemChr(m, i, end)
           ve == IF ke = 0 THEN 0 ELSE MemChr(m, ke + 1, end)
           nx == IF ve = 0 THEN end
                 ELSE CHOOSE j \in (ve + 1)..end :
                        (j = end \/ m[j] # NUL) /\ \A k \in (ve + 1)..(j - 1) : m[k] = NUL
       IN  IF ve = 0 THEN <<>>
           ELSE <<[key |-> Bytes(m, i, ke), value |-> Bytes(m, ke + 1, ve)]>>
                  \o PairsFrom(m, nx, end)

StorePairs(m, sz) == PairsFrom(m, 1, sz + 1)

-----------------------------------------------------------------------------
(* initialize(): the library constructor.                                  *)

Init ==
  /\ \E store \in InitStores, tail \in Behind :
       /\ mem = store \o tail
       /\ size = Len(store)
  /\ hook = "none"
  /\ pc = "load"
  /\ ptr = 0
  /\ storeEnd = 0
  /\ newMap = <<>>
  /\ modified = FALSE
  /\ calls = 0
  /\ before = <<>>
  /\ oob = FALSE

\* Scan the maps for bin/dex2oat; register the getter hook and commit; if the
\* commit fails register the checksum hook and commit again.  Without a map
\* entry the constructor returns with no hook.
initialize ==
  /\ pc = "load"
  /\ pc' = "idle"
  /\ hook' = IF MapFound THEN HookedSymbol ELSE "none"
  /\ UNCHANGED <<mem, size, ptr, storeEnd, newMap, modified, calls, before, oob>>

-----------------------------------------------------------------------------
(* ART calls the hooked functions; a hook runs SpoofKeyValueStore first.   *)

\* Entry of SpoofKeyValueStore(store): store_size and store_end are read once.
BeginSpoof ==
  /\ ptr' = 1
  /\ storeEnd' = size + 1
  /\ newMap' = <<>>
  /\ modified' = FALSE
  /\ before' = StorePairs(mem, size)
  /\ pc' = "parse"

\* new_GetKeyValueStore / new_ComputeChecksum: the original is called (the
\* getter before, ComputeChecksum after the spoof); neither changes the store.
CallHooked(sym) ==
  /\ pc = "idle"
  /\ calls < MaxCalls
  /\ calls' = calls + 1
  /\ IF hook = sym
       THEN BeginSpoof
       ELSE UNCHANGED <<pc, ptr, storeEnd, newMap, modified, before>>
  /\ UNCHANGED <<mem, size, hook, oob>>

-----------------------------------------------------------------------------
(* One iteration of the parse loop of SpoofKeyValueStore.                  *)

\* The loop guard: ptr < store_end && *ptr != '\0'.
LoopGuard == ptr < storeEnd /\ mem[ptr] # NUL

KeyEnd     == MemChr(mem, ptr, storeEnd)
ValueStart == KeyEnd + 1
ValueEnd   == MemChr(mem, ValueStart, storeEnd)
\* The iteration reaches its body: no break.
Parsable   == KeyEnd # 0 /\ ValueStart < storeEnd /\ ValueEnd # 0
Key        == Bytes(mem, ptr, KeyEnd)
Value      == Bytes(mem, ValueStart, ValueEnd)
\* Mutant: the bound is off by one and lets the byte at store_end be read.
PaddingBound_OffByOne == ValueEnd + 1 <= storeEnd

\* value_end + 1 < store_end, the bound checked before *(value_end + 1) is read.
PaddingBound == ValueEnd + 1 < storeEnd
HasPadding == PaddingBound /\ mem[ValueEnd + 1] = NUL /\ IsNonDeterministic(Key)
IsTarget   == Key = CmdLineKey /\ ContainsSub(Value, ParamToRemove)
CleanedCmd == process_cmd(Value, BinaryPath)

\* Mutant: the cleaned command is copied without zeroing the old value first.
SpoofInPlace_NoMemset ==
  /\ pc = "parse"
  /\ LoopGuard /\ Parsable /\ IsTarget /\ HasPadding
  /\ LET n == IF Len(CleanedCmd) < ValueEnd - ValueStart THEN Len(CleanedCmd)
              ELSE ValueEnd - ValueStart
     IN  mem' = SubSeq(mem, 1, ValueStart - 1) \o SubSeq(CleanedCmd, 1, n)
                  \o SubSeq(mem, ValueStart + n, Len(mem))
  /\ pc' = "idle"
  /\ UNCHANGED <<size, hook, ptr, storeEnd, newMap, modified, calls, before, oob>>

\* The cmdline with padding: zero the value, copy the cleaned command over
\* it (at most the old value's length) and return true.
SpoofInPlace ==
  /\ pc = "parse"
  /\ LoopGuard /\ Parsable /\ IsTarget /\ HasPadding
  /\ LET vs       == ValueStart
         ve       == ValueEnd
         cleaned  == CleanedCmd
         capacity == ve - vs
         n        == IF Len(cleaned) < capacity THEN Len(cleaned) ELSE capacity
     IN  mem' = SubSeq(mem, 1, vs - 1) \o SubSeq(cleaned, 1, n)
                  \o [i \in 1..(capacity - n) |-> NUL] \o SubSeq(mem, ve, Len(mem))
  /\ pc' = "idle"
  /\ UNCHANGED <<size, hook, ptr, storeEnd, newMap, modified, calls, before, oob>>

\* Mutant: NUL bytes are skipped after every value, not only padded ones.
NextPtr_SkipAlways == SkipNul(mem, ValueEnd + 1)

\* ptr = value_end + 1, then past the padding if the value has some.
NextPtr == IF HasPadding THEN SkipNul(mem, ValueEnd + 1) ELSE ValueEnd + 1

\* Any other pair: store it (cleaned if it is the cmdline) in the map, move
\* past the value, and past its padding if it has some.
ParseEntry ==
  /\ pc = "parse"
  /\ LoopGuard /\ Parsable /\ ~(IsTarget /\ HasPadding)
  /\ newMap' = (Key :> IF IsTarget THEN CleanedCmd ELSE Value) @@ newMap
  /\ modified' = (modified \/ IsTarget)
  /\ LET next  == NextPtr
         \* the last byte read: *(value_end + 1) if the bound held, the
         \* first non-NUL byte if the padding was skipped
         probe == IF HasPadding THEN next ELSE IF PaddingBound THEN ValueEnd + 1 ELSE 0
     IN  /\ ptr' = next
         /\ oob' = (oob \/ probe >= storeEnd)
  /\ UNCHANGED <<mem, size, hook, pc, storeEnd, calls, before>>

\* The loop ends (guard false or a break): rebuild the store from the map if
\* the cmdline was cleaned, and set the size field to the bytes written.
EndParse ==
  /\ pc = "parse"
  /\ ~(LoopGuard /\ Parsable)
  /\ IF modified
       THEN /\ mem' = WriteKeyValueStore(newMap, mem)
            /\ size' = Len(Serialize(newMap))
       ELSE UNCHANGED <<mem, size>>
  /\ pc' = "idle"
  /\ UNCHANGED <<hook, ptr, storeEnd, newMap, modified, calls, before, oob>>

Next ==
  \/ initialize
  \/ CallHooked("getter")
  \/ CallHooked("checksum")
  \/ SpoofInPlace
  \/ ParseEntry
  \/ EndParse

Spec == Init /\ [][Next]_vars /\ WF_vars(SpoofInPlace) /\ WF_vars(ParseEntry) /\ WF_vars(EndParse)

-----------------------------------------------------------------------------
(* Properties.                                                             *)

TypeOK ==
  /\ mem \in Seq({NUL, Space} \cup DOMAIN CharRank)
  /\ size \in Nat
  /\ hook \in {"none", "getter", "checksum"}
  /\ pc \in {"load", "idle", "parse"}
  /\ storeEnd \in Nat /\ ptr \in 0..storeEnd
  /\ modified \in BOOLEAN /\ oob \in BOOLEAN
  /\ calls \in 0..MaxCalls

\* What a call of SpoofKeyValueStore promises for a store it found holding
\* pairs ps: the same pairs in the same order, the cmdline value cleaned by
\* process_cmd when it carries the injected flag.
Spoofed(ps) ==
  [i \in DOMAIN ps |->
     IF ps[i].key = CmdLineKey /\ ContainsSub(ps[i].value, ParamToRemove)
       THEN [ps[i] EXCEPT !.value = process_cmd(ps[i].value, BinaryPath)]
       ELSE ps[i]]

\* After every hooked call returns, the store - read the way ART reads it,
\* through the size field - holds exactly the pairs it held before, with
\* the dex2oat-cmdline value cleaned (SpoofKeyValueStore, both the in-place
\* and the rebuild path, and WriteKeyValueStore's size update).
SpoofPreservesStore ==
  (pc = "idle" /\ before # <<>>) => StorePairs(mem, size) = Spoofed(before)

\* The parser never reads a byte at or past store_end (spec: "parsing must
\* stop at the declared region end"); the padding-skipping loop after a
\* padded value is not bounded by store_end.
ParseStaysInStore == ~oob

\* The rebuilt store never grows past the region ART allocated for it:
\* WriteKeyValueStore writes Len(Serialize(map)) bytes from the store start.
RebuildFitsRegion == [][size' <= size]_vars

\* The string dex2oat records for an argv: its words joined by spaces.
ArgvString(first, rest) == first \o FlattenSeq([i \in DOMAIN rest |-> <<Space>> \o rest[i]])

\* Spec 4.3: once a hooked call has returned, the cmdline of the store is
\* the command installd ran.  dex2oat, started by the wrapper through the
\* linker, recorded the fd path, installd's arguments and the appended
\* flag; after SpoofKeyValueStore (process_cmd's split, argv[0] swap, flag
\* removal and join, then the in-place copy or the rebuild) the store must
\* hold DEX2OAT_CMD followed by exactly those arguments.
CmdLineRestored ==
  (pc = "idle" /\ before # <<>>) =>
    \A i \in DOMAIN before, args \in InstalldArgs :
      before[i] = [key |-> CmdLineKey,
                   value |-> ArgvString(FdArg, args \o <<ParamToRemove>>)]
        => \E j \in DOMAIN StorePairs(mem, size) :
             StorePairs(mem, size)[j] = [key |-> CmdLineKey,
                                         value |-> ArgvString(BinaryPath, args)]

=============================================================================
