----------------------------- MODULE MCExtract -----------------------------
(* An instance of Extract for TLC: the six files with the routines main.c  *)
(* names, some they call, and every kind of entry and replacement.         *)
EXTENDS Extract, TLC

Entry(mark, sym) == [sym |-> sym, mark |-> mark]
At(label, from, to) == [at |-> label, from |-> from, to |-> to]

D1 == "_ZN8CMapTestD1Ev"
D2 == "_ZN8CMapTestD2Ev"
Fini == "_ZN8CMapTest9fini_testEv"
TheHook == "_Z15test_const_timeR8CMapTestd"
Sgemm == "_Z21test_functional_sgemmjPfS_"
Dgemm == "_Z21test_functional_dgemmjPdS_"

\* Data and stubs of the .inc files: words, a table into a range, vtables,
\* function pointers, pointers to data.
Stub == {Name("o_", "unimplemented")}
Label(addr) == Addr(addr, 0)

TheFiles ==
  << [list |-> <<Entry("@", "kiss_fftr_alloc"), Entry("@", "kiss_fftr"),
                 Entry("", "kiss_fft"), Entry("L", "56d54")>>,
      inc |-> Label("14a8e8") :> {} @@ Label("14a8d8") :> {Addr("56d54", 2)},
      seds |-> <<>>],
     [list |-> <<Entry("@", "test_sgemm"), Entry("@", "_Z5sgemmjPfS_S_"),
                 Entry("@", "test_dgemm"), Entry("@", "_Z5dgemmjPdS_S_")>>,
      inc |-> Own(Sgemm) :> {} @@ Own(Dgemm) :> {},
      seds |-> <<At(NONE, Name("s_", "malloc"), Name("gemm_", "malloc")),
                 At(NONE, Name("s_", "free"), Name("gemm_", "free"))>>],
     [list |-> <<Entry("@", "test_map"), Entry("?", TheHook), Entry("", D2),
                 Entry("", Fini), Entry("", "__multf3")>>,
      inc |-> Own("vtable_CMapTestImp") :> Stub \cup {Own(Fini)} @@
              Label("1ac430") :> {Own("dummy")} @@
              Label("1acee8") :> {Own("vtable_CMapTestImp")},
      seds |-> <<At(Own(D1), Own(D1), Own(D2))>>],
     [list |-> <<Entry("@", "_Z10loadMemPNGPhjP7BmpData"),
                 Entry("", "png_zalloc")>>,
      inc |-> Own("png_warning") :> Stub @@
              Label("1ace10") :> {Own("png_zalloc")},
      seds |-> <<>>],
     [list |-> <<Entry("@", "test_physics"), Entry("", "cpSpaceCollideShapes"),
                 Entry("@", "StartStopwatch"), Entry("@", "StopStopwatch"),
                 Entry("L", "9bc4c")>>,
      inc |-> Label("1ac3e0") :> {Own("cpSpaceCollideShapes")} @@
              Label("1ac670") :> {Name("s_", "free")} @@
              Label("1aca40") :> {Label("1ad0e0")} @@
              Label("1ad0e0") :> {Addr("9bc4c", 1)},
      seds |-> <<At(Addr("test_physics", 2), Own("StartStopwatch"),
                    Name("s_", "StartStopwatch")),
                 At(Addr("test_physics", 3), Own("StopStopwatch"),
                    Name("s_", "StopStopwatch"))>>],
     [list |-> <<Entry("@", "generate_test_data"), Entry("@", "md5_sum_data"),
                 Entry("@", "sha1_sum_data"), Entry("@", "sha2_sum_data"),
                 Entry("@", "crc_sum_data"), Entry("", "calc_buffer_crc")>>,
      inc |-> Label("14a0c8") :> {}, seds |-> <<>>] >>

Routines == UNION {Listed(f) : f \in DOMAIN TheFiles}

TheCalls ==
  ("kiss_fftr_alloc" :> <<"malloc">>) @@ ("kiss_fftr" :> <<"kiss_fft">>) @@
  ("test_sgemm" :> <<"malloc", Sgemm, "free">>) @@
  ("test_dgemm" :> <<"malloc", "free">>) @@
  ("test_map" :> <<TheHook, D2, "__multf3">>) @@ (D2 :> <<"_ZdlPv">>) @@
  ("_Z10loadMemPNGPhjP7BmpData" :> <<"setjmp", "inflate", "png_warning">>) @@
  ("test_physics" :> <<"StartStopwatch", "StopStopwatch", "clock_gettime">>) @@
  ("generate_test_data" :> <<"malloc">>) @@
  ("crc_sum_data" :> <<"calc_buffer_crc">>) @@
  [r \in Routines |-> <<>>]

\* kiss_fft goes into the range, both gemm routines over their calls.
TheJumps ==
  ("kiss_fft" :> Addr("56d54", 1)) @@ ("test_sgemm" :> Addr("test_sgemm", 5)) @@
  ("test_map" :> Addr("test_map", 1)) @@ [r \in Routines |-> Nothing]

\* The data whose pages a routine loads.
ThePages ==
  ("kiss_fft" :> <<"14a8d8">>) @@ ("test_map" :> <<"1acee8">>) @@
  ("test_physics" :> <<"1ac3e0", "1aca40">>) @@
  ("_Z10loadMemPNGPhjP7BmpData" :> <<"1ace10">>) @@ [r \in Routines |-> <<>>]

Line(r, k, kind, form, sym, to) ==
  [addr |-> Addr(r, k), kind |-> kind, form |-> form, sym |-> sym, to |-> to]
Body(r) ==
  LET calls == TheCalls[r]
      pages == ThePages[r]
      n == Len(calls) + 1 IN
  <<IF TheJumps[r] = Nothing THEN Line(r, 1, "insn", "none", NONE, Nothing)
    ELSE Line(r, 1, "test", "base_offset", NONE, TheJumps[r])>>
  \o [k \in DOMAIN calls |-> Line(r, k + 1, "branch", "plt", calls[k], Nothing)]
  \o [k \in DOMAIN pages |->
        Line(r, n + k, "adrp", "base_offset", NONE, Label(pages[k]))]
  \o <<Line(r, n + Len(pages) + 1, "bare", "none", NONE, Nothing)>>

\* Every library that misses at most one routine, and has at most one line
\* refine.py refuses, in the same file.
Bodies == [r \in Routines |-> Body(r)]
HeadOf(r) == IF r = D2 THEN D1 ELSE r
Holed(r, odd) ==
  IF r /= odd[1] THEN Bodies[r]
  ELSE [Bodies[r] EXCEPT ![odd[2]] =
          Line(r, odd[2], "unknown", "none", NONE, Nothing)]
Library(gone, odd) ==
  [r \in Routines \ gone |-> [head |-> HeadOf(r), body |-> Holed(r, odd)]]
NoLine == <<NONE, 0>>
LinesOf(f) == UNION {{<<r, k>> : k \in DOMAIN Bodies[r]} : r \in Listed(f)}
TheLibraries ==
  {[Library({}, NoLine) EXCEPT ![D2].head = D2]} \cup
  UNION {{Library(gone, odd) : gone \in {{}} \cup {{r} : r \in Listed(f)},
                               odd \in {NoLine} \cup LinesOf(f)} :
           f \in DOMAIN TheFiles}

TheStatic == {"malloc", "free", "_ZdlPv", "memset", "inflate"}
TheToolchain == Owns({"clock_gettime", "srand", "__multf3"})
=============================================================================
