----------------------------- MODULE KernelCode -----------------------------
(***************************************************************************)
(* The code around a kernel's body (compiler/src/kernel).  A kernel stores *)
(* the initial registers of its warps and threads, loads those of its      *)
(* first warp and goes to the body.  Behind the body the code is to save   *)
(* the active warp, to find one that is not complete, to load it and to go *)
(* to the body again.                                                      *)
(***************************************************************************)
EXTENDS CompilerContext, KernelLayout

Own(w) == <<w, 0>>
Threads(warps, w) == [t \in 1 .. warps[w].size |-> <<w, t>>]
Areas(warps, w) == <<Own(w)>> \o Threads(warps, w)
Everywhere(warps) == FlattenSeq([w \in DOMAIN warps |-> Areas(warps, w)])
OwnAreas(warps) == [w \in DOMAIN warps |-> Own(w)]

\* the warp's threads as the bits of a mask
execution_mask(warp) == 2^warp.size - 1

\* register i of a file, by the name it has there
Name(file, i) == IF IsVector(file) /\ i > 4 THEN 100 + i ELSE i
Prefix(file) == IF IsVector(file) THEN "v" ELSE "s"

\* f of every element of s, one after the other
Concatenated(f(_), s) == FlattenSeq([k \in DOMAIN s |-> f(s[k])])

-----------------------------------------------------------------------------
(***************************************************************************)
(* Initial registers.  Warps are numbered, threads by their number in      *)
(* their warp; the mask goes to where s26 is loaded from when a warp is    *)
(* switched to, and so do stack and return pointers, but the header of the *)
(* stack goes to the place of s1.                                          *)
(***************************************************************************)
InitializeKernel(c, n) ==
  LET warps == WarpsOf(n)
      created == [c EXCEPT !.warps = warps,
        !.files = [f \in DOMAIN @ \cup Files(warps) |->
          CASE f = main \/ f = Own(1) -> @[main]
            [] IsVector(f) -> VectorRegisterFile
            [] OTHER -> ScalarRegisterFile]]
      tmp == Lowest(created)
      address == Lowest(Taken(created))
      StoredFrom(f, i, r) == <<Line(c.mode, "li", address, Slot(warps, f, i), 0),
                               Line(c.mode, "sw", r, 0, address)>>
      Stored(f, i, v) == <<Line(c.mode, "li", address, Slot(warps, f, i), 0),
                           Line(c.mode, "li", tmp, v, 0), Line(c.mode, "sw", tmp, 0, address)>>
      Id(f) == IF IsVector(f) THEN Stored(f, ThreadIdSlot, f[2] - 1)
                              ELSE Stored(f, IdSlot, warps[f[1]].id)
      lines ==
        Concatenated(LAMBDA f : Stored(f, gp, Place(warps, f)), Everywhere(warps))
        \o Concatenated(LAMBDA f : Stored(f, MaskSlot, execution_mask(warps[f[1]])), OwnAreas(warps))
        \o Concatenated(Id, Everywhere(warps))
        \o Concatenated(LAMBDA f : StoredFrom(f, sp, sp), Everywhere(warps))
        \o Concatenated(LAMBDA f : StoredFrom(f, ra, ra), OwnAreas(warps))
        \o Concatenated(LAMBDA f : StoredFrom(f, s1, s0), Everywhere(warps))
  IN Released(Released(EmitLines(Taken(Taken(created)), lines), tmp), address)

(***************************************************************************)
(* The first warp is loaded: its offset, what is at the places of s19 and  *)
(* s21 into s24 and s26, and four registers of each of its threads, all    *)
(* with the same destination.  The threads' addresses keep their registers. *)
(***************************************************************************)
InitializeFirstWarp(c) ==
  LET warps == c.warps
      LoadedFrom(mode, f, address, i, r) ==
        <<Line(mode, "li", address, Slot(warps, f, i), 0), Line(mode, "lw", r, 0, address)>>
      own == Lowest(c)
      loaded == EmitLines(c, LoadedFrom(c.mode, Own(1), own, 3, gp)
        \o LoadedFrom(c.mode, Own(1), own, 24, s24) \o LoadedFrom(c.mode, Own(1), own, 26, s26))
      LoadThread(t, f) ==
        EmitLines(Taken(t),
          LoadedFrom("v", f, Lowest(t), 2, sp) \o LoadedFrom("v", f, Lowest(t), 3, gp)
            \o LoadedFrom("v", f, Lowest(t), 6, v0) \o LoadedFrom("v", f, Lowest(t), 31, v26))
  IN FoldLeft(LoadThread, Using(loaded, "v", <<1, 1>>), Threads(warps, 1))

-----------------------------------------------------------------------------
(***************************************************************************)
(* Saving and loading warps: of the warp's own registers those in use, and *)
(* all registers of its threads, through the lowest register of each file. *)
(***************************************************************************)
Transferred(c, file, integer, floating) ==
  LET c1 == Using(c, Prefix(file), file)
      address == Lowest(c1)
      c2 == Taken(c1)
      ids == SelectSeq([k \in 1 .. 64 |-> k - 1],
                       LAMBDA i : IsVector(file) \/ i \in InUse(c2.files[file]))
      top == Place(c.warps, file)
      lines == [k \in 1 .. 2 * Len(ids) |->
        LET i == ids[(k + 1) \div 2]
        IN IF k % 2 = 1 THEN Line(Prefix(file), "li", address, top - 4 * (i + 1), 0)
           ELSE Line(Prefix(file), IF i < 32 THEN integer ELSE floating, Name(file, i), 0, address)]
  IN Released(EmitLines(c2, lines), address)

\* The warp is marked as complete by way of a register that does not exist.
StoreWarpRegisters(c, w) ==
  LET address == Lowest(Using(c, "s", Own(w)))
      flagged == EmitLines(c, <<Line("s", "li", address, Slot(c.warps, Own(w), FlagSlot), 0),
        Line("s", "li", unnamed, 1, 0), Line("s", "sw", unnamed, 0, address)>>)
  IN FoldLeft(LAMBDA t, f : Transferred(t, f, "sw", "fsw"), flagged, Areas(c.warps, w))

\* What is loaded, in the mode of the kernel's body.
LoadedFiles(c, w, areas) ==
  Using(FoldLeft(LAMBDA t, f : Transferred(t, f, "lw", "flw"), c, areas), "v", <<w, 1>>)

\* Mutant: the threads are loaded before the mask of their warp.
InitializeThreadsFirst(c, w) == LoadedFiles(c, w, Threads(c.warps, w) \o <<Own(w)>>)
\* Mutant: the warp's own registers are not loaded.
InitializeThreads(c, w) == LoadedFiles(c, w, Threads(c.warps, w))
InitializeWarp(c, w) == LoadedFiles(c, w, Areas(c.warps, w))

Activated(c, w, b) == [c EXCEPT !.warps[w].active = b]

(***************************************************************************)
(* Between two runs of the body.  The number of the active warp is         *)
(* compared by way of a register of a thread's file, and so are the flags  *)
(* of completion: in scalar code their names mean x0.                      *)
(***************************************************************************)
EmitWarpSwitchLogic(c, start, end) ==
  LET current == Lowest(c)
      next == c.label_counter
      c1 == Using(Labelled(Taken(c), 2), "s", c.manager)
      Save(t, w) ==
        LET check == t.label_counter
            compared == EmitBeqz(EmitAs(Labelled(t, 1), "s", "seqi", current, s24, w - 1),
                                 current, check)
            saved == Activated(StoreWarpRegisters(compared, w), w, FALSE)
        IN EmitLabel(EmitJump(saved, next), check)
      c2 == Released(FoldLeftDomain(Save, c1, c.warps), current)
      done == c2.label_counter
      Find(t, w) ==
        LET flag == Lowest(t)
            address == Slot(c.warps, Own(w), FlagSlot)
        IN EmitBeqz(EmitLines(Labelled(t, 1), <<Line("s", "li", flag, address, 0),
                              Line("s", "lw", flag, 0, flag)>>), flag, done + w)
      c3 == EmitJump(FoldLeftDomain(Find, Labelled(EmitLabel(c2, next), 1), c.warps), done)
      Load(t, w) ==
        EmitJump(InitializeWarp(Activated(EmitLabel(t, done + w), w, TRUE), w), start)
  IN EmitJump(EmitLabel(FoldLeftDomain(Load, c3, c.warps), done), end)

EmitKernelCleanup(c) ==
  LET threads == UNION {ThreadFiles(c, w) : w \in DOMAIN c.warps}
  IN Using([c EXCEPT !.files = [f \in DOMAIN @ |->
              IF f \in threads THEN @[f] \cup c.thread_regs ELSE @[f]]], "s", Own(1))

-----------------------------------------------------------------------------
(***************************************************************************)
(* A kernel up to its body, and behind it.                                 *)
(***************************************************************************)
KernelBegun(c, n) ==
  LET start == c.label_counter
      switch == start + 1
      ready == InitializeFirstWarp(InitializeKernel(Labelled(c, 3), n))
      switching == EmitWarpSwitchLogic(EmitLabel(EmitJump(ready, start), switch), start, start + 2)
  IN [EmitLabel(switching, start) EXCEPT !.kernel = <<start, switch>>]

KernelEnded(c) == EmitKernelCleanup(EmitLabel(EmitJump(c, c.kernel[2]), c.kernel[1] + 2))
=============================================================================
