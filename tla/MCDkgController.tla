-------------------------- MODULE MCDkgController --------------------------
EXTENDS DkgController

CONSTANTS a, b, c

MCDealer == {a, b, c}
MCIndex == {0}
MCChunk == {0, 1}

Env(group, faulty, slow, stuck, crashes, last, admin) ==
    [group |-> group, faulty |-> faulty, slow |-> slow, stuck |-> stuck,
     crashes |-> crashes, last |-> last, admin |-> admin]

MCEnvironments == {
    Env({a, b, c}, {a}, {}, 0, 1, 0, {}),
    Env({a, b, c}, {a}, {}, 1, 0, 0, {}),
    Env({a, b, c}, {a}, {c}, 1, 0, 0, {}),
    Env({a, b, c}, {}, {a}, 0, 0, 0, {}),
    Env({a, b}, {}, {}, 0, 0, 1, {"reset", "resharing"}),
    Env({a, b}, {a}, {}, 0, 1, 1, {}),
    Env({a, b}, {a}, {a, b}, 0, 1, 1, {"resharing"}),
    Env({a, b}, {a}, {a, b}, 1, 0, 1, {"reset", "resharing"})
    }
=============================================================================
