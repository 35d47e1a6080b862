-------------------------- MODULE MCNativeTaskRun --------------------------
(* Every native of the prelude that takes a callback, over lists of up to   *)
(* MaxLength elements, dictionaries with keys 1..3, and every callback that *)
(* can make a difference.                                                   *)
EXTENDS NativeTaskRun

CONSTANT MaxLength   \* bound of the model: length of lists

Items == {<<"item", 1>>, <<"item", 2>>}

Opaque == <<"opaque", "f">>

Lists == {ListValue(s) : s \in SeqOf(Items, MaxLength)}

Options == {None} \cup {Some(v) : v \in Items}

Results == {AdtValue(tag, <<v>>) : tag \in {"Ok", "Err"}, v \in Items}

Dicts == {DictValue(d) : d \in UNION {[K -> Items] : K \in SUBSET (1..3)}}

Tables(D, R) == {Table(f) : f \in [D -> R]}

Tests == Tables(Items, {BoolValue(TRUE), BoolValue(FALSE)})

KeyTests ==
    {Table([p \in {TupleValue(<<StringValue(k), v>>) : k \in 1..3, v \in Items} |->
               BoolValue(p[2][1][2] \in K)]) : K \in SUBSET (1..3)}

Renamings ==
    {Table([p \in {TupleValue(<<StringValue(k), v>>) : k \in 1..3, v \in Items} |->
               TupleValue(<<StringValue(g[p[2][1][2]]), <<"app", Opaque, p>>>>)]) :
        g \in [1..3 -> 1..2]}

Call2(names, F, C) == names \X (F \X C)

MCCalls ==
    Call2({"prim_map"}, {Opaque}, Lists \cup Options \cup Results)
    \cup Call2({"prim_filter"}, Tests, Lists \cup Options)
    \cup Call2({"prim_filter_map"}, Tables(Items, Options), Lists \cup Options)
    \cup Call2({"prim_flat_map"}, Tables(Items, {ListValue(s) : s \in SeqOf(Items, 1)}), Lists)
    \cup Call2({"prim_flat_map"}, Tables(Items, Options), Options)
    \cup Call2({"prim_flat_map"}, Tables(Items, Results), Results)
    \cup Call2({"prim_or_else"}, {Opaque}, Lists \cup Options \cup Results)
    \cup Call2({"list_count", "list_partition", "list_any", "list_all", "list_find",
                "list_find_index"}, Tests, Lists)
    \cup ({"prim_foldl", "prim_fold", "prim_foldr"}
              \X ({Opaque} \X {<<"item", 0>>} \X (Lists \cup Options)))
    \cup Call2({"prim_list_eq", "prim_list_ne"}, Lists, Lists)
    \cup ({"sum", "mean"} \X {<<c>> : c \in Lists \cup Options})
    \cup Call2({"prim_dict_map"}, {Opaque}, Dicts)
    \cup Call2({"prim_dict_filter"}, Tests, Dicts)
    \cup Call2({"prim_dict_filter_map"}, Tables(Items, Options), Dicts)
    \cup Call2({"dict_filter"}, KeyTests, Dicts)
    \cup Call2({"dict_map"}, Renamings, Dicts)
    \cup ({"dict_update"}
              \X ({StringValue(k) : k \in 1..2} \X Tables(Options, Options) \X Dicts))
=============================================================================
