---------------------------- MODULE MCReadBlocks ----------------------------
(***************************************************************************)
(* Ten blocks in eight files, one of them with a transaction that no       *)
(* chain has and three in files that are not whole.  Their transactions    *)
(* are the smallest there are, with the real sizes of every field and      *)
(* struct: no script and one of 252 or 253 bytes (where varints become     *)
(* longer), a script with the bytes of the marker in it, sixteen outputs,  *)
(* inputs with and without a witness, items of 0 and of 253 bytes.         *)
(***************************************************************************)
EXTENDS ReadBlocks

MCMarker == <<249, 190, 180, 217>>

Bytes(n, x) == [k \in 1..n |-> (x + k) % 256]
In(x, script, witness) ==
    [txid |-> Bytes(32, x), index |-> 16909060 + x, script |-> script,
     sequence_number |-> 84281096 - x, witness |-> witness]
Out(x, script) == [amount |-> 1234567890 + x, script |-> script]
Tx(ins, outs) == [version |-> 33751041, input |-> ins, output |-> outs, lock_time |-> 50462976]

Least == Tx(<<In(1, <<>>, <<>>)>>, <<Out(1, <<>>)>>)
Plain == Tx(<<In(2, MCMarker, <<>>), In(3, Bytes(252, 5), <<>>)>>,
            <<Out(2, <<106>>), Out(3, Bytes(253, 9))>>)
ManyOutputs == Tx(<<In(4, <<>>, <<>>)>>, [k \in 1..16 |-> Out(k, <<>>)])
Witnesses == Tx(<<In(5, <<>>, <<>>), In(6, <<1>>, <<<<>>, Bytes(253, 7), <<0>>>>)>>, <<Out(5, <<>>)>>)
EmptyItems == Tx(<<In(7, <<>>, [k \in 1..40 |-> <<>>]), In(8, <<>>, <<<<3, 4>>>>)>>, <<Out(6, <<>>)>>)
NoInput == Tx(<<>>, <<Out(7, <<>>), Out(8, <<>>)>>)
TooLarge == Tx(<<In(9, <<>>, [k \in 1..150 |-> <<>>])>>, <<Out(7, <<>>)>>)

Block(x, t) ==
    [bh |-> [version |-> 536870912 + x, prev_hash |-> Bytes(32, 10 * x), merkle_hash |-> Bytes(32, 7 * x),
             timestamp |-> 1231006505 + x, target |-> 486604799, nonce |-> 2083236893 - x],
     txs |-> t]

Rec(pad, x, t) == [pad |-> pad, block |-> Block(x, t)]
Tail0(pad) == [pad |-> pad, block |-> NULL]

Name(digits) == [matches |-> TRUE, digits |-> digits]
Lock == [matches |-> FALSE, digits |-> <<0>>]

blk0 == Name(<<0, 0>>)
blk1 == Name(<<0, 1>>)
blk2 == Name(<<0, 2>>)
blk4 == Name(<<0, 4>>)
blkOne == Name(<<1>>)
blk3 == Name(<<0, 3>>)
blk5 == Name(<<0, 5>>)
blk6 == Name(<<0, 6>>)

MCFileName == {blk0, blk1, blk2, blk3, blk4, blk5, blk6, blkOne, Lock}

MCLayout ==
    [n \in MCFileName |->
        CASE n = blk0 -> [cut |-> 0, records |-> <<Rec(0, 1, <<Least>>), Rec(3, 2, <<Least, Witnesses>>)>>]
          [] n = blk1 -> [cut |-> 0, records |-> <<Rec(5, 3, <<Plain, Least>>), Tail0(7)>>]
          [] n = blk2 -> [cut |-> 0, records |-> <<Rec(0, 4, <<ManyOutputs>>), Rec(0, 5, <<EmptyItems>>)>>]
          [] n = blk3 -> [cut |-> 20, records |-> <<Rec(0, 6, <<Least, Least>>)>>]
          [] n = blk4 -> [cut |-> 0, records |-> <<Rec(2, 7, <<TooLarge>>)>>]
          [] n = blk5 -> [cut |-> 0, records |-> <<Rec(0, 9, <<Least, NoInput>>)>>]
          [] n = blk6 -> [cut |-> 56, records |-> <<Rec(0, 10, <<Least>>)>>]
          [] n = blkOne -> [cut |-> 100, records |-> <<Rec(0, 8, <<Least>>)>>]
          [] n = Lock -> [cut |-> 0, records |-> <<>>]]

MCDirectories ==
    {{blk0, blk1, blk2, Lock}, {blk1, blk4}, {blk0, blk1, blkOne}, {blk0, blk3}, {blk2, blkOne}, {Lock}, {blk5}, {blk6}}

=============================================================================
