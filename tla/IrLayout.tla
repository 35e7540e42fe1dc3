------------------------------ MODULE IrLayout ------------------------------
(***************************************************************************)
(* The IR lays structs out a second time, from the syntax alone: lowering  *)
(* translates the declared types (ir_of_ast_type) and ir_type_size and     *)
(* ir_type_align compute sizes by recursion, with nothing interned.  The   *)
(* sizes must agree with sema's: lowering copies aggregates by sema's      *)
(* Ty.size, into slots and fields the backends lay out by the IR's.        *)
(***************************************************************************)
EXTENDS LayoutProps

\* Without the padding.
Packed32(n, a) == U32(n)

AlignUp32(n, a) == U32((U32(n + a - 1) \div a) * a)

\* ir_type_align and ir_type_size of t, where types have the alignments al and
\* the sizes sz; the functions below are what that recursion defines.
AlignBy(t, al) ==
  CASE IsPointer(t)    -> 8
    [] IsArray(t)      -> al[Elem(t)]
    [] IsStruct(t)     -> LET as == {al[ft] : ft \in FieldTypes(t.base)} \cup {1}
                          IN CHOOSE a \in as : \A b \in as : b <= a
    [] IsCore(t)       -> CoreSize[t.base]
    [] OTHER           -> 1

IrAlign[t \in Ty] == AlignBy(t, IrAlign)

\* The offsets at which the fields of s end, types having the sizes sz.
IrEnds(s, sz) ==
  LET end[n \in 0 .. Len(decl[s])] ==
        IF n = 0 THEN 0
        ELSE LET ft == decl[s][n].type
             IN U32(AlignUp32(end[n - 1], IrAlign[ft]) + sz[ft])
  IN end

SizeBy(t, sz) ==
  CASE IsPointer(t)    -> 8
    [] IsArray(t)      -> U32(OuterMod(t) * sz[Elem(t)])
    [] IsStruct(t)     -> AlignUp32(IrEnds(t.base, sz)[Len(decl[t.base])], IrAlign[t])
    [] IsCore(t)       -> CoreSize[t.base]
    [] OTHER           -> 0

IrSize[t \in Ty] == SizeBy(t, IrSize)

\* Sema and the IR agree on the size, the alignment and the field offsets of
\* every type an accepted program has (sema.c:241-304, ir.c:105-145).
IrAgrees ==
  Accepted =>
    /\ \A s \in Struct :
         /\ size[s] = IrSize[Plain(s)] /\ align[s] = IrAlign[Plain(s)]
         /\ \A j \in 1 .. Len(placed[s]) :
              LET ft == decl[s][j].type
              IN placed[s][j].offset = AlignUp32(IrEnds(s, IrSize)[j - 1], IrAlign[ft])
    /\ \A t \in DOMAIN interned :
         interned[t].size = IrSize[t] /\ interned[t].align = IrAlign[t]
=============================================================================
