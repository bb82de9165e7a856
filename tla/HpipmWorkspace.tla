--------------------------- MODULE HpipmWorkspace ---------------------------
(***************************************************************************)
(* The workspace of HpipmInterface::Impl (HpipmInterface.cpp).             *)
(*                                                                         *)
(* Impl owns five grow-only MemoryBlocks, one per HPIPM structure: the     *)
(* dimension struct dim_, the QP qp_, the solution qpSol_, the IPM         *)
(* argument arg_ and the IPM workspace workspace_.  initializeMemory       *)
(* normalises the requested OcpSize (nx[0] = 0: the initial state is not a *)
(* decision variable), returns early when size and settings compare equal  *)
(* to the stored ones, and otherwise stores them and, block by block,      *)
(* reserves memory and creates the structure inside it.  reserve() frees   *)
(* the old block before it mallocs the new one and throws bad_alloc when   *)
(* malloc fails.  An allocation failure is fatal (spec section 7): the   *)
(* exception leaves the object, which is not used again.                  *)
(*                                                                         *)
(* Data are abstracted: an OcpSize is a record [N, nx0, nu] (horizon,      *)
(* stage-0 state dimension, input dimension), a Settings value a record    *)
(* [mode, iter_max] (iter_max stands for every individual setter, and it   *)
(* is the one setting the size of the IPM workspace depends on).  The      *)
(* HPIPM memsize functions are constant operators given by the MC module.  *)
(* A pointer is the generation number of the malloc that produced it, 0    *)
(* being nullptr, so that a structure left in a freed block is visible.    *)
(***************************************************************************)
EXTENDS Naturals, FiniteSets

CONSTANTS
  Sizes,          \* OcpSize values a caller passes to the constructor/resize
  ProblemSizes,   \* sizes of the problems a caller hands to solve()
  SettingsSet,    \* Settings values a caller passes
  DefaultSize,    \* OcpSize() : the value of a default-constructed member
  DefaultSettings,\* Settings() : the value of a default-constructed member
  DefaultIterMax(_), \* iter_max that d_ocp_qp_ipm_arg_set_default sets per mode
  DimMemsize(_), QpMemsize(_), QpSolMemsize(_), IpmArgMemsize(_),
  IpmWsMemsize(_, _), \* HPIPM memsize functions of the dimensions (and arg)
  MaxCalls,       \* bound on the number of API calls after construction
  NoDims,         \* dims of a structure that was never created
  Unset           \* contents of arg_ before any setting was applied

ASSUME MaxCalls \in Nat
ASSUME DefaultSize \in Sizes /\ DefaultSettings \in SettingsSet
ASSUME ProblemSizes \subseteq Sizes

VARIABLES
  pc,        \* "ctor" | "idle" | the block initializeMemory works on next
             \* | "gone" (bad_alloc was thrown: fatal)
  calls,     \* number of API calls made (bounded by MaxCalls)
  req,       \* the (normalised) size and settings of the last call
  ocpSize_, settings_, \* Impl's stored size and settings
  blk,       \* blk[b] : MemoryBlock b, [size |-> size_, ptr |-> ptr_,
             \*          bytes |-> bytes malloc'ed at ptr_, gen |-> mallocs]
  obj,       \* obj[b] : the HPIPM structure living in block b,
             \*          [at |-> ptr it was created at, dims, iter]
  argv       \* the values held by arg_ ([mode, iter_max] or Unset)

vars == <<pc, calls, req, ocpSize_, settings_, blk, obj, argv>>
workspace == <<ocpSize_, settings_, blk, obj, argv>>

\* The five memory blocks and the order in which initializeMemory fills them.
BlockSet == {"dim", "qp", "sol", "arg", "ws"}
NextStep == [dim |-> "qp", qp |-> "sol", sol |-> "arg", arg |-> "ws", ws |-> "idle"]

\* Stored sizes are normalised (nx[0] = 0).
NormSizes == {[s EXCEPT !.nx0 = 0] : s \in Sizes}

\* A MemoryBlock: size_ and ptr_ (bytes and gen are what malloc handed out).
MemoryBlockState == [size : Nat, ptr : Nat, bytes : Nat, gen : Nat]

\* MemoryBlock() : MemoryBlock(0) reserves nothing: ptr_ = nullptr, size_ = 0.
EmptyBlock == [size |-> 0, ptr |-> 0, bytes |-> 0, gen |-> 0]

ArgValues == [mode : {st.mode : st \in SettingsSet}, iter_max : Nat]

\* Every variable has its type, and a MemoryBlock never records more
\* capacity than its live allocation has.
TypeOK ==
  /\ pc \in {"ctor", "idle", "gone"} \cup BlockSet
  /\ calls \in 0..MaxCalls
  /\ req \in [size : Sizes \cup NormSizes, settings : SettingsSet]
  /\ ocpSize_ \in NormSizes /\ settings_ \in SettingsSet
  /\ blk \in [BlockSet -> MemoryBlockState]
  \* a MemoryBlock never records more capacity than its live allocation has
  /\ \A b \in BlockSet : blk[b].ptr # 0 => blk[b].size <= blk[b].bytes
  /\ obj \in [BlockSet -> [at : Nat, dims : NormSizes \cup {NoDims}, iter : Nat]]
  /\ argv \in ArgValues \cup {Unset}

-----------------------------------------------------------------------------
(***************************************************************************)
(* Helpers of Impl                                                         *)
(***************************************************************************)

\* ocpSize.nx[0] = 0 : the initial state is eliminated from the QP.
Normalize(s) == [s EXCEPT !.nx0 = 0]

isSizeEqual(s) == ocpSize_ = s

\* Fault: one field (iter_max) left out of the comparison.
isSettingsEqualNoIterMax(st) == settings_.mode = st.mode

isSettingsEqual(st) == settings_.mode = st.mode /\ settings_.iter_max = st.iter_max

\* d_ocp_qp_ipm_arg_set_default for the mode, then every individual setter.
applySettings(st) ==
  LET defaults == [mode |-> st.mode, iter_max |-> DefaultIterMax(st.mode)]
  IN  [defaults EXCEPT !.iter_max = st.iter_max]

\* The memory each block must hold for the structure created in it next.
Need(b) ==
  CASE b = "dim" -> DimMemsize(ocpSize_.N)
    [] b = "qp"  -> QpMemsize(obj["dim"].dims)
    [] b = "sol" -> QpSolMemsize(obj["dim"].dims)
    [] b = "arg" -> IpmArgMemsize(obj["dim"].dims)
    [] b = "ws"  -> IpmWsMemsize(obj["dim"].dims, argv.iter_max)

\* Fault: the new block malloc'ed with the old size.
reserveMallocOld(b, size) ==
  IF size > blk[b].size
  THEN [size |-> size, ptr |-> blk[b].gen + 1, bytes |-> blk[b].size, gen |-> blk[b].gen + 1]
  ELSE blk[b]

\* MemoryBlock::reserve when malloc succeeds: free and malloc a larger
\* block only when the request exceeds the current size.
reserve(b, size) ==
  IF size > blk[b].size
  THEN [size |-> size, ptr |-> blk[b].gen + 1, bytes |-> size, gen |-> blk[b].gen + 1]
  ELSE blk[b]

-----------------------------------------------------------------------------
(***************************************************************************)
(* initializeMemory                                                        *)
(***************************************************************************)

\* Entry of initializeMemory(ocpSize, settings): normalise, compare by value,
\* return early or store the new size and settings.
InitializeMemory(s, st) ==
  LET n == Normalize(s) IN
  /\ req' = [size |-> n, settings |-> st]
  /\ \/ /\ isSizeEqual(n) /\ isSettingsEqual(st)
        /\ pc' = "idle"
        /\ UNCHANGED workspace
     \/ /\ ~(isSizeEqual(n) /\ isSettingsEqual(st))
        /\ pc' = "dim"
        /\ ocpSize_' = n /\ settings_' = st
        /\ UNCHANGED <<blk, obj, argv>>

\* One block of initializeMemory: reserve its memory and create the structure
\* inside it from the dimensions in dim_ (and, for the workspace, from arg_).
\* Creating arg_ is followed by applySettings.
CreateStep(b) ==
  LET nb == reserve(b, Need(b))
      dims == IF b = "dim" THEN ocpSize_ ELSE obj["dim"].dims
  IN
  /\ pc = b
  /\ blk' = [blk EXCEPT ![b] = nb]
  /\ obj' = [obj EXCEPT ![b] = [at |-> nb.ptr, dims |-> dims,
                                 iter |-> IF b = "ws" THEN argv.iter_max ELSE 0]]
  /\ argv' = IF b = "arg" THEN applySettings(settings_) ELSE argv
  /\ pc' = NextStep[b]
  /\ UNCHANGED <<calls, req, ocpSize_, settings_>>

\* reserve() when malloc returns nullptr: the old block is already freed,
\* ptr_ is nullptr, size_ keeps its old value, and bad_alloc leaves
\* initializeMemory with ocpSize_ and settings_ already overwritten.  The
\* error is fatal: nothing calls the object again.
ReserveFails(b) ==
  /\ pc = b
  /\ Need(b) > blk[b].size
  /\ blk' = [blk EXCEPT ![b].ptr = 0]
  /\ pc' = "gone"
  /\ UNCHANGED <<calls, req, ocpSize_, settings_, obj, argv>>

-----------------------------------------------------------------------------
(***************************************************************************)
(* The public interface                                                    *)
(***************************************************************************)

\* HpipmInterface(ocpSize, settings)
Construct ==
  /\ pc = "ctor"
  /\ InitializeMemory(req.size, req.settings)
  /\ UNCHANGED calls

\* resize(ocpSize): keeps the stored settings.
Resize(s) ==
  /\ pc = "idle" /\ calls < MaxCalls
  /\ calls' = calls + 1
  /\ InitializeMemory(s, settings_)

\* resize(ocpSize, settings)
ResizeWithSettings(s, st) ==
  /\ pc = "idle" /\ calls < MaxCalls
  /\ calls' = calls + 1
  /\ InitializeMemory(s, st)

\* solve(x0, dynamics, cost, constraints, ...): the asserts require the
\* caller's data to have the stored horizon, and dynamics[0] (line 204) is
\* read before anything else, so the horizon is at least 1; the per-stage
\* sizes are not checked ("TODO: check state input size").  The solve
\* writes the contents of qp_, qpSol_ and workspace_, which are data: no
\* block or structure changes.
Solve ==
  /\ pc = "idle" /\ calls < MaxCalls
  /\ ocpSize_.N >= 1
  /\ \E p \in ProblemSizes : Normalize(p) = ocpSize_
  /\ calls' = calls + 1
  /\ UNCHANGED <<pc, req, ocpSize_, settings_, blk, obj, argv>>

\* The caller has made all the calls the model allows, or the process has
\* stopped on bad_alloc.
Finished ==
  /\ (pc = "idle" /\ calls = MaxCalls) \/ pc = "gone"
  /\ UNCHANGED vars

\* Default-constructed members, then the constructor's initializeMemory.
Init ==
  /\ pc = "ctor"
  /\ calls = 0
  /\ req \in [size : Sizes, settings : SettingsSet]
  /\ ocpSize_ = DefaultSize /\ settings_ = DefaultSettings
  /\ blk = [b \in BlockSet |-> EmptyBlock]
  /\ obj = [b \in BlockSet |-> [at |-> 0, dims |-> NoDims, iter |-> 0]]
  /\ argv = Unset

Next ==
  \/ Construct
  \/ \E s \in Sizes : Resize(s)
  \/ \E s \in Sizes, st \in SettingsSet : ResizeWithSettings(s, st)
  \/ Solve
  \/ \E b \in BlockSet : CreateStep(b)
  \/ \E b \in BlockSet : ReserveFails(b)
  \/ Finished

Spec == Init /\ [][Next]_vars

-----------------------------------------------------------------------------
(***************************************************************************)
(* Properties                                                              *)
(***************************************************************************)

\* Structure b lives in the current allocation of its block, was built for
\* dimensions d, and that allocation is large enough for it.
Built(b, d) ==
  /\ obj[b].at # 0 /\ obj[b].at = blk[b].ptr
  /\ obj[b].dims = d
  /\ LET fit == [dim |-> DimMemsize(d.N), qp |-> QpMemsize(d), sol |-> QpSolMemsize(d),
                  arg |-> IpmArgMemsize(d), ws |-> IpmWsMemsize(d, obj["ws"].iter)]
     IN fit[b] <= blk[b].bytes

\* Every HPIPM structure is live, built for the stored size, arg_ holds the
\* stored settings and the workspace was sized for that arg_.
WorkspaceBuilt ==
  /\ \A b \in BlockSet : Built(b, ocpSize_)
  /\ argv = settings_
  /\ obj["ws"].iter = argv.iter_max

\* Nothing was ever created: only after the early return of a constructor
\* called with the default size and settings.
NothingCreated == \A b \in BlockSet : obj[b].at = 0

\* A call to the constructor or to resize that returns normally leaves Impl
\* configured for exactly the requested (normalised) size and settings, and
\* the workspace built for them, unless the request was the default pair and
\* nothing has been built yet.  The early return of initializeMemory must
\* therefore only skip work that an earlier call already did.
ConfiguredAsRequested ==
  pc = "idle" =>
     /\ ocpSize_ = req.size /\ settings_ = req.settings
     /\ \/ WorkspaceBuilt
        \/ NothingCreated /\ ocpSize_ = DefaultSize /\ settings_ = DefaultSettings
=============================================================================
