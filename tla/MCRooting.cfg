SPECIFICATION Spec
CONSTANTS
    o1 = o1
    o2 = o2
    o3 = o3
    o4 = o4
    o5 = o5
    o6 = o6
    Objs = {o1, o2, o3, o4, o5, o6}
    Nil = Nil
    Freed = Freed
    MaxStack = 3
    MaxOps = 3
    Builders = {"bc_null", "bc_struct", "hbs_push_string", "bc_array_item"}
INVARIANTS
    UsesLive
    Balanced
