------------------------------- MODULE MCPmm -------------------------------
(***************************************************************************)
(* Machines for TLC: pages of 4 bytes, addresses modulo 64, a bitmap of 8    *)
(* frames.                                                                 *)
(***************************************************************************)
EXTENDS Pmm

Ram(a, n) == [addr |-> a, len |-> n, type |-> 1]

Rsv(a, n) == [addr |-> a, len |-> n, type |-> 2]

Boot(map, mem, ks, ke) ==
  [mmap |-> map, mem |-> mem, kernel_start |-> ks, kernel_end |-> ke]

MCBoots ==
  { (* as a PC: a reserved region that starts inside a page, one that ends at *)
    (* 2^32, and a kernel whose image ends inside a page                      *)
    Boot({Ram(0, 14), Rsv(14, 2), Ram(16, 16), Rsv(60, 4)}, 0, 16, 21),
    (* a reserved region at the end of memory, one over the kernel            *)
    Boot({Ram(0, 24), Rsv(24, 6), Rsv(2, 7)}, 0, 4, 8),
    (* no memory map; the memory size alone, beyond what the bitmap covers     *)
    Boot({}, 60, 4, 9),
    (* a region whose end wraps when it is rounded up, so that its frames stay  *)
    (* free, beside one that is kept out                                      *)
    Boot({Ram(0, 12), Rsv(12, 4), Ram(16, 8), Rsv(24, 39)}, 0, 4, 8) }

=============================================================================
