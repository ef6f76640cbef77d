--------------------------- MODULE MCDirectories ---------------------------
EXTENDS Directories, TLC

C(k, path) == [kind |-> k, path |-> path, to |-> <<>>]
MCCalls == {C("open", <<"a">>), C("creat", <<"a">>), C("creat", <<"b">>),
            C("excl", <<"d", "b">>), C("mkdir", <<"b">>), C("rmdir", <<"d">>),
            C("rmdir", <<".">>), C("unlink", <<"a">>), C("creat", <<"d">>), C("open", <<"d", "">>),
            C("unlink", <<"d", "b">>),
            [kind |-> "link", path |-> <<"a">>, to |-> <<"b">>]}
Symm == Permutations(Proc)
=============================================================================
